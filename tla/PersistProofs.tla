---------------------------- MODULE PersistProofs ---------------------------
(***************************************************************************)
(* What Persist promises, for any number of columns, any lengths, and any   *)
(* number of commits, crashes and I/O errors.                               *)
(***************************************************************************)
EXTENDS PersistLemmas

----------------------------------------------------------------------------
(* Types.  These hold after I/O errors too, when the file may be anything   *)
(* that the writes can make of it.                                         *)

FileTyped ==
  /\ mode \in {1, 2}
  /\ file \in SUBSET Exts /\ Disjoint(file) /\ SkipsBack(file)
  /\ pend \in Seq(Exts) /\ \A i \in DOMAIN pend : PointsBack(pend[i])
  /\ size \in Nat /\ failure \in BOOLEAN

MemTyped ==
  /\ base \in Nat
  /\ ColumnsTyped /\ known \subseteq Cols
  /\ \A c \in Cols : col[c].dirty => (col[c].len = 0 <=> col[c].tag = NoTag)
  /\ space \in Spaces /\ rootWalk \in Maps

\* The history variables, and the operations counted.
HistoryTyped == saved \in Contents /\ attempt \in Contents
UsedTyped == used \in [commits : Nat, crashes : Nat, rollbacks : Nat, fails : Nat]

Plans == [end : Nat, limit : Nat, inPlace : BOOLEAN, end0 : Int, walk : Maps, walkPos : Nat,
          next : Spaces, old : Maps, k : Nat]

\* The steps before the tails are reserved in the two allocators.
Early == {"skip", "flushSkip", "head", "mark1", "reserve"}

\* A commit under way: it is about a file of some size, and where its marks go.
PlanTyped ==
  /\ pc \in Steps /\ plan \in Plans
  /\ pc # "idle" =>
       /\ plan.limit > Mark + 3 /\ plan.walkPos >= 1
       /\ plan.end = 0 \/ plan.end > 2 * Mark
       /\ plan.inPlace => plan.end > 2 * Mark /\ plan.end0 = plan.end - 2 * Mark
       /\ ~plan.inPlace => plan.end0 = plan.limit
       /\ \A c \in Cols : plan.walk[c].len = col[c].len
  /\ pc \in {"skip", "flushSkip", "head", "mark1"} => ~plan.inPlace
  /\ pc \in Early => plan.k = 1
  /\ pc = "cols" => plan.k \in Cols

\* There is nothing after the base offset, or else a header and two marks.
SizeFits ==
  /\ FileSize \in Nat
  /\ FileSize = base \/ FileSize > base + 2 * Mark
  /\ pc \notin {"idle", "skip", "flushSkip"} => FileSize > base + 2 * Mark
  /\ pc = "flushSkip" => failure \/ FileSize > base + 2 * Mark

TInv == FileTyped /\ MemTyped /\ HistoryTyped /\ UsedTyped /\ PlanTyped /\ SizeFits

----------------------------------------------------------------------------
\* What can be written.
LEMMA WhatIs ==
  /\ HeadMark \in Whats /\ ExtendMark \in Whats
  /\ \A off \in Nat \ {0} : SkipMark(off) \in Whats
  /\ \A pos \in Nat \ {0}, len \in Nat \ {0} : TailMark(pos, len) \in Whats
  /\ \A w \in Maps : WalkData(w) \in Whats
  /\ \A tag \in Tags : ColData(tag) \in Whats
BY DEF Whats

\* The parts of an extent.
LEMMA ExtentIs ==
  ASSUME NEW at \in Nat, NEW len \in Nat, len > 0, NEW what \in Whats
  PROVE  /\ Extent(at, len, what) \in Exts
         /\ Extent(at, len, what).at = at /\ Extent(at, len, what).len = len
         /\ Extent(at, len, what).what = what /\ End(Extent(at, len, what)) = at + len
BY DEF Extent, Exts, End

\* The file as the process sees it.
LEMMA ImageIs ==
  ASSUME FileTyped
  PROVE  /\ Image \in SUBSET Exts /\ Disjoint(Image) /\ SkipsBack(Image)
         /\ FileSize \in Nat /\ size <= FileSize
<1>1. file \in SUBSET Exts /\ size \in Nat /\ pend \in Seq(Exts) /\ Disjoint(file)
  BY DEF FileTyped
<1>2. AllDone(pend) \in FatesOf(pend)
  BY <1>1, DoneIsPossible
<1>3. /\ Image \in SUBSET Exts /\ Disjoint(Image)
      /\ \A e \in Image : e \in file \/ \E i \in DOMAIN pend : e = pend[i]
  BY <1>1, <1>2, FileAfterIs DEF Image
<1>4. SkipsBack(Image)
  BY <1>3 DEF SkipsBack, FileTyped
<1>5. FileSize \in Nat /\ size <= FileSize
  BY <1>1, <1>2, SizeAfterIs DEF FileSize
<1> QED BY <1>3, <1>4, <1>5

\* A write that is done, and one that fails.
WriteDone(x) ==
  /\ pend' = Append(pend, x) /\ UNCHANGED <<file, size, failure, used>>
  /\ Image' = Written(Image, x) /\ FileSize' = Longest(FileSize, x)
Failed ==
  /\ failure' = TRUE /\ used' = [used EXCEPT !.fails = @ + 1]
  /\ UNCHANGED <<file, size, pend>>
  /\ Image' = Image /\ FileSize' = FileSize

\* A failing operation changes nothing in the file and in the buffer.
LEMMA FailsIs ==
  ASSUME FileTyped, UNCHANGED mode, Fails
  PROVE  FileTyped' /\ Failed
<1>1. /\ failure' = TRUE /\ used' = [used EXCEPT !.fails = @ + 1]
      /\ file' = file /\ size' = size /\ pend' = pend /\ mode' = mode
  BY DEF Fails
<1>2. Image' = Image /\ FileSize' = FileSize
  BY <1>1 DEF Image, FileSize
<1>3. FileTyped'
  BY <1>1 DEF FileTyped
<1> QED BY <1>1, <1>2, <1>3 DEF Failed

\* A write is added to the buffer, or fails.
LEMMA WriteIs ==
  ASSUME FileTyped, UNCHANGED mode, NEW pos, NEW len, NEW what, DataWrite(pos, len, what),
         Extent(base + pos, len, what) \in Exts, PointsBack(Extent(base + pos, len, what))
  PROVE  FileTyped' /\ (WriteDone(Extent(base + pos, len, what)) \/ Failed)
<1> DEFINE x == Extent(base + pos, len, what)
<1>1. CASE Fails
  BY <1>1, FailsIs
<1>2. CASE ~Fails
  <2>1. pend' = Append(pend, x) /\ UNCHANGED <<file, size, failure, used>>
    BY <1>2 DEF DataWrite
  <2>2. file \in SUBSET Exts /\ size \in Nat /\ pend \in Seq(Exts) /\ x \in Exts /\ PointsBack(x)
    BY DEF FileTyped
  <2> HIDE DEF x
  <2>3. Image' = Written(Image, x) /\ FileSize' = Longest(FileSize, x)
    <3>1. /\ Image' = FileAfter(file, Append(pend, x), AllDone(Append(pend, x)))
          /\ FileSize' = SizeAfter(size, Append(pend, x), AllDone(Append(pend, x)))
      BY <2>1 DEF Image, FileSize
    <3> QED BY <2>2, <3>1, OneMoreWrite DEF Image, FileSize
  <2>4. pend' \in Seq(Exts) /\ \A i \in DOMAIN pend' : PointsBack(pend'[i])
    <3>1. /\ pend' \in Seq(Exts) /\ pend'[Len(pend) + 1] = x
          /\ \A i \in DOMAIN pend : pend'[i] = pend[i]
          /\ \A i \in DOMAIN pend' : i \in DOMAIN pend \/ i = Len(pend) + 1
      BY <2>1, <2>2
    <3>2. \A i \in DOMAIN pend : PointsBack(pend[i])
      BY DEF FileTyped
    <3> QED BY <2>2, <3>1, <3>2
  <2>5. FileTyped'
    BY <2>1, <2>4 DEF FileTyped
  <2> QED BY <2>1, <2>3, <2>5 DEF WriteDone, x
<1> QED BY <1>1, <1>2

\* A flush that is done.
FlushDone ==
  /\ file' = Image /\ size' = FileSize /\ pend' = << >> /\ UNCHANGED <<failure, used>>
  /\ Image' = Image /\ FileSize' = FileSize

\* A flush brings the buffer to the file, or fails.
LEMMA FlushIs ==
  ASSUME FileTyped, UNCHANGED mode, DataCommit
  PROVE  FileTyped' /\ (FlushDone \/ Failed)
<1>1. CASE Fails
  BY <1>1, FailsIs
<1>2. CASE ~Fails
  <2>1. file' = Image /\ size' = FileSize /\ pend' = << >> /\ UNCHANGED <<failure, used>>
    BY <1>2 DEF DataCommit
  <2>2. Image \in SUBSET Exts /\ Disjoint(Image) /\ SkipsBack(Image) /\ FileSize \in Nat
    BY ImageIs
  <2>3. << >> \in Seq(Exts)
    OBVIOUS
  <2>4. AllDone(<< >>) \in FatesOf(<< >>)
    BY <2>3, DoneIsPossible
  <2>5. Image' = Image /\ FileSize' = FileSize
    <3>1. /\ Image' = FileAfter(Image, << >>, AllDone(<< >>))
          /\ FileSize' = SizeAfter(FileSize, << >>, AllDone(<< >>))
      BY <2>1 DEF Image, FileSize
    <3> QED BY <2>2, <2>4, <3>1, NothingPending
  <2>6. FileTyped'
    BY <2>1, <2>2, <2>3 DEF FileTyped
  <2> QED BY <2>1, <2>5, <2>6 DEF FlushDone
<1> QED BY <1>1, <1>2

\* Loading a file.
LEMMA LoadIs ==
  ASSUME mode \in {1, 2}, UNCHANGED mode, NEW f \in SUBSET Exts, Disjoint(f), SkipsBack(f), NEW sz \in Nat,
         NEW stale \in Maps, Load(f, sz, stale)
  PROVE  MemTyped' /\ base' \in Nat /\ (sz = base' \/ sz > base' + 2 * Mark)
<1> DEFINE d == EndOfData(f, sz)
           w == IF d.found THEN WalkAt(f, d.base + d.pos, d.len) ELSE EmptyWalk
<1>1. w \in Maps
  BY WalkAtIs, EmptyWalkIs
<1>2. /\ base' = IF d.found THEN d.base ELSE sz
      /\ col' = [c \in Cols |-> Clean(w[c])]
      /\ known' = {}
      /\ space' = IF mode = 1 /\ d.found THEN Occupied({}, d.pos, d.len) ELSE {}
      /\ rootWalk' = IF d.found THEN w ELSE stale
  BY DEF Load
<1>3. \/ d = NoData
      \/ /\ d.found = TRUE /\ d.base \in Nat /\ d.base + 2 * Mark + 1 <= sz
         /\ d.pos \in Nat \ {0} /\ d.len \in Nat \ {0}
  BY FoundIs
<1>4. NoData.found = FALSE
  BY DEF NoData
<1> HIDE DEF d, w
<1>5. {} \in Spaces
  <2>1. 0 \in Nat /\ \A b \in {} : b < 0
    OBVIOUS
  <2> QED BY <2>1 DEF Spaces
<1>6. space' \in Spaces
  <2>1. d.found => Occupied({}, d.pos, d.len) \in Spaces
    <3>1. SUFFICES ASSUME d.found PROVE Occupied({}, d.pos, d.len) \in Spaces
      OBVIOUS
    <3>2. d.pos \in Nat /\ d.pos >= 1 /\ d.len \in Nat
      BY <1>3, <1>4, <3>1
    <3> QED BY <1>5, <3>2, OccupiedIs
  <2> QED BY <1>2, <1>5, <2>1
<1>7. base' \in Nat /\ (sz = base' \/ sz > base' + 2 * Mark)
  <2>1. Mark \in Nat
    BY DatafileAssumption
  <2>2. CASE d = NoData
    BY <1>2, <1>4, <2>2
  <2>3. CASE d # NoData
    BY <1>2, <1>3, <2>1, <2>3
  <2> QED BY <2>2, <2>3
<1>8. ColumnsTyped' /\ known' \subseteq Cols /\ \A c \in Cols : ~col'[c].dirty
  <2>1. ASSUME NEW c \in Cols
        PROVE  /\ Clean(w[c]) \in [len : Nat, pos : Nat, tag : Tags \cup {NoTag}, dirty : BOOLEAN]
               /\ ~Clean(w[c]).dirty /\ (Clean(w[c]).len = 0 <=> Clean(w[c]).pos = 0)
    <3>1. w[c].len \in Nat /\ w[c].pos \in Nat /\ (w[c].len = 0 <=> w[c].pos = 0)
      BY <1>1 DEF Maps, Walks
    <3> QED BY <3>1 DEF Clean
  <2>2. \A c \in Cols : col'[c] = Clean(w[c])
    BY <1>2
  <2>3. col' \in [Cols -> [len : Nat, pos : Nat, tag : Tags \cup {NoTag}, dirty : BOOLEAN]]
    BY <1>2, <2>1
  <2> QED BY <1>2, <2>1, <2>2, <2>3 DEF ColumnsTyped
<1>9. rootWalk' \in Maps
  BY <1>1, <1>2
<1> QED BY <1>6, <1>7, <1>8, <1>9 DEF MemTyped

----------------------------------------------------------------------------
\* Types: the initial state, and what happens between commits.
LEMMA NoSpace == {} \in Spaces
<1>1. 0 \in Nat /\ \A b \in {} : b < 0
  OBVIOUS
<1> QED BY <1>1 DEF Spaces

\* Outside of a commit the plan is a plan too.
LEMMA NoPlanTyped == NoPlan \in Plans
<1>1. EmptyWalk \in Maps /\ {} \in Spaces /\ 0 \in Nat /\ 0 \in Int /\ FALSE \in BOOLEAN
  BY EmptyWalkIs, NoSpace
<1> QED BY <1>1 DEF NoPlan, Plans

\* The types hold at first.
LEMMA InitTyped == Init => TInv
<1> SUFFICES ASSUME Init PROVE TInv
  OBVIOUS
<1>1. FileTyped
  <2>1. << >> \in Seq(Exts) /\ \A i \in DOMAIN << >> : FALSE
    OBVIOUS
  <2>2. mode \in {1, 2}
    BY PersistAssumption DEF Init
  <2>3. Disjoint({}) /\ SkipsBack({}) /\ {} \in SUBSET Exts
    BY DEF Disjoint, SkipsBack
  <2>4. pend \in Seq(Exts) /\ \A i \in DOMAIN pend : PointsBack(pend[i])
    BY <2>1 DEF Init
  <2> QED BY <2>2, <2>3, <2>4 DEF Init, FileTyped
<1>2. MemTyped
  <2>1. \A c \in Cols : col[c] = [len |-> 0, pos |-> 0, tag |-> NoTag, dirty |-> FALSE]
    BY DEF Init, Clean, Location
  <2>2. col \in [Cols -> [len : Nat, pos : Nat, tag : Tags \cup {NoTag}, dirty : BOOLEAN]]
    <3>1. [len |-> 0, pos |-> 0, tag |-> NoTag, dirty |-> FALSE] \in
            [len : Nat, pos : Nat, tag : Tags \cup {NoTag}, dirty : BOOLEAN]
      OBVIOUS
    <3>2. col = [c \in Cols |-> col[c]]
      BY DEF Init
    <3> QED BY <2>1, <3>1, <3>2
  <2>3. ColumnsTyped
    BY <2>1, <2>2 DEF ColumnsTyped
  <2> QED BY <2>1, <2>3, NoSpace, EmptyWalkIs DEF Init, MemTyped
<1>3. HistoryTyped
  BY EmptyContents DEF Init, HistoryTyped
<1>4. UsedTyped
  BY DEF Init, UsedTyped
<1>5. PlanTyped
  BY NoPlanTyped DEF Init, PlanTyped, Steps, Early
<1>6. SizeFits
  <2>1. FileSize = 0
    <3>0. << >> \in Seq(Exts)
      OBVIOUS
    <3>1. AllDone(<< >>) \in FatesOf(<< >>)
      BY <3>0, DoneIsPossible
    <3>2. FileSize = SizeAfter(0, << >>, AllDone(<< >>))
      BY DEF Init, FileSize
    <3>3. {} \in SUBSET Exts
      OBVIOUS
    <3> QED BY <3>1, <3>2, <3>3, NothingPending
  <2> QED BY <2>1 DEF Init, SizeFits
<1> QED BY <1>1, <1>2, <1>3, <1>4, <1>5, <1>6 DEF TInv

\* The types after Modify.
LEMMA ModifyTyped ==
  ASSUME TInv, UNCHANGED mode, NEW c \in Cols, NEW len \in ColLens, NEW tag \in Tags \cup {NoTag},
         Modify(c, len, tag)
  PROVE  TInv'
<1>1. /\ file' = file /\ size' = size /\ pend' = pend /\ failure' = failure /\ mode' = mode
      /\ base' = base /\ rootWalk' = rootWalk /\ pc' = pc /\ plan' = plan
      /\ saved' = saved /\ attempt' = attempt /\ used' = used
      /\ pc = "idle" /\ (len = 0 <=> tag = NoTag)
      /\ known' = known \cup {c} /\ space' = Claimed(space, c)
      /\ col' = [col EXCEPT ![c] = Changed(len, tag)]
  BY DEF Modify, filevars
<1>2. FileTyped' /\ HistoryTyped' /\ UsedTyped' /\ PlanTyped'
  BY <1>1 DEF TInv, FileTyped, HistoryTyped, UsedTyped, PlanTyped
<1>3. SizeFits'
  <2>1. FileSize' = FileSize
    BY <1>1 DEF FileSize
  <2> QED BY <1>1, <2>1 DEF TInv, SizeFits
<1>4. MemTyped'
  <2>1. MemTyped
    BY DEF TInv
  <2>2. len \in Nat
    BY PersistAssumption
  <2>3. /\ Changed(len, tag) \in [len : Nat, pos : Nat, tag : Tags \cup {NoTag}, dirty : BOOLEAN]
        /\ Changed(len, tag).dirty /\ Changed(len, tag).len = len /\ Changed(len, tag).tag = tag
    BY <2>2 DEF Changed
  <2>4. /\ col' \in [Cols -> [len : Nat, pos : Nat, tag : Tags \cup {NoTag}, dirty : BOOLEAN]]
        /\ col'[c] = Changed(len, tag) /\ \A d \in Cols \ {c} : col'[d] = col[d]
    BY <1>1, <2>1, <2>3 DEF MemTyped, ColumnsTyped
  <2>5. ColumnsTyped' /\ known' \subseteq Cols
    BY <1>1, <2>1, <2>3, <2>4 DEF MemTyped, ColumnsTyped
  <2>6. \A d \in Cols : col'[d].dirty => (col'[d].len = 0 <=> col'[d].tag = NoTag)
    BY <1>1, <2>1, <2>3, <2>4 DEF MemTyped
  <2>7. space' \in Spaces
    BY <1>1, <2>1, ClaimedIs DEF MemTyped
  <2> QED BY <1>1, <2>1, <2>5, <2>6, <2>7 DEF MemTyped
<1> QED BY <1>2, <1>3, <1>4 DEF TInv

\* The types after Rollback: whatever is loaded from the file is typed.
LEMMA RollbackTyped ==
  ASSUME TInv, UNCHANGED mode, Rollback
  PROVE  TInv'
<1>1. /\ file' = file /\ size' = size /\ pend' = pend /\ failure' = failure /\ mode' = mode
      /\ pc' = pc /\ plan' = plan /\ saved' = saved /\ attempt' = attempt
      /\ pc = "idle" /\ used' = [used EXCEPT !.rollbacks = @ + 1]
      /\ Load(Image, FileSize, rootWalk)
  BY DEF Rollback, filevars
<1>2. FileTyped' /\ HistoryTyped' /\ UsedTyped'
  BY <1>1 DEF TInv, FileTyped, HistoryTyped, UsedTyped
<1>3. PlanTyped'
  BY <1>1 DEF TInv, PlanTyped
<1>4. FileTyped /\ mode \in {1, 2} /\ rootWalk \in Maps
  BY DEF TInv, FileTyped, MemTyped
<1>5. /\ Image \in SUBSET Exts /\ Disjoint(Image) /\ SkipsBack(Image) /\ FileSize \in Nat
  BY <1>4, ImageIs
<1>6. MemTyped' /\ base' \in Nat /\ (FileSize = base' \/ FileSize > base' + 2 * Mark)
  BY <1>1, <1>4, <1>5, LoadIs
<1>7. SizeFits'
  <2>1. FileSize' = FileSize
    BY <1>1 DEF FileSize
  <2> QED BY <1>1, <1>5, <1>6, <2>1 DEF SizeFits
<1> QED BY <1>2, <1>3, <1>6, <1>7 DEF TInv

\* The types after a crash: whatever is left of the file.
LEMMA CrashTyped ==
  ASSUME TInv, UNCHANGED mode, Crash
  PROVE  TInv'
<1>1. PICK fate \in [DOMAIN pend -> {"done", "torn", "lost"}] :
        /\ file' = FileAfter(file, pend, fate) /\ size' = SizeAfter(size, pend, fate)
        /\ Load(file', size', EmptyWalk)
        /\ saved' = Recovered(file', size') /\ attempt' = saved'
  BY DEF Crash
<1>2. /\ pend' = << >> /\ failure' = FALSE /\ pc' = "idle" /\ plan' = NoPlan
      /\ used' = [used EXCEPT !.crashes = @ + 1] /\ mode' = mode
  BY DEF Crash
<1>3. /\ file \in SUBSET Exts /\ size \in Nat /\ pend \in Seq(Exts) /\ Disjoint(file)
      /\ fate \in FatesOf(pend) /\ mode \in {1, 2}
      /\ SkipsBack(file) /\ \A i \in DOMAIN pend : PointsBack(pend[i])
  BY DEF TInv, FileTyped, FatesOf
<1>4. /\ file' \in SUBSET Exts /\ Disjoint(file')
      /\ \A e \in file' : e \in file \/ \E i \in DOMAIN pend : e = pend[i]
  BY <1>1, <1>3, FileAfterIs
<1>5. SkipsBack(file')
  BY <1>3, <1>4 DEF SkipsBack
<1>6. size' \in Nat
  BY <1>1, <1>3, SizeAfterIs
<1>7. << >> \in Seq(Exts) /\ \A i \in DOMAIN << >> : FALSE
  OBVIOUS
<1>8. FileTyped'
  <2>1. pend' \in Seq(Exts) /\ \A i \in DOMAIN pend' : PointsBack(pend'[i])
    BY <1>2, <1>7
  <2> QED BY <1>2, <1>3, <1>4, <1>5, <1>6, <2>1 DEF FileTyped
<1>9. HistoryTyped'
  BY <1>1, <1>4, RecoveredIs DEF HistoryTyped
<1>10. UsedTyped'
  BY <1>2 DEF TInv, UsedTyped
<1>11. PlanTyped'
  BY <1>2, NoPlanTyped DEF PlanTyped, Steps, Early
<1>12. MemTyped' /\ base' \in Nat /\ (size' = base' \/ size' > base' + 2 * Mark)
  <2> DEFINE f == file'
             sz == size'
  <2>1. f \in SUBSET Exts /\ Disjoint(f) /\ SkipsBack(f) /\ sz \in Nat /\ Load(f, sz, EmptyWalk)
    BY <1>1, <1>4, <1>5, <1>6
  <2> HIDE DEF f, sz
  <2>2. MemTyped' /\ base' \in Nat /\ (sz = base' \/ sz > base' + 2 * Mark)
    BY <1>2, <1>3, <2>1, EmptyWalkIs, LoadIs
  <2> QED BY <2>2 DEF sz
<1>13. SizeFits'
  <2>1. AllDone(<< >>) \in FatesOf(<< >>)
    BY <1>7, DoneIsPossible
  <2>2. FileSize' = size'
    <3>1. FileSize' = SizeAfter(size', << >>, AllDone(<< >>))
      BY <1>2 DEF FileSize
    <3> QED BY <1>4, <1>6, <2>1, <3>1, NothingPending
  <2> QED BY <1>2, <1>6, <1>12, <2>2 DEF SizeFits
<1> QED BY <1>8, <1>9, <1>10, <1>11, <1>12, <1>13 DEF TInv

----------------------------------------------------------------------------
\* What StartCommit computes: the end of the data, what is in use and what the next
\* version uses, the result of the first pass, the place of the walk, the limit.
DataEnd    == FileSize - base
InUse      == Reserved(IF mode = 1 THEN AllClaimed ELSE {}, DataEnd)
NextUse    == IF mode = 1 THEN Reserved({}, DataEnd) ELSE InUse
First      == FirstPass(InUse, NextUse)
Root       == Placed(First, WalkLen(First.walk), TRUE, 0)
DataLimit  == Limit(Root.next)
IsBlank    == DataLimit <= EmptyLimit
NoChange   == IsBlank \/ First.walk = rootWalk
FitsInside == DataEnd = DataLimit - Mark

NewPlan == [end |-> DataEnd, limit |-> DataLimit, inPlace |-> FitsInside,
            end0 |-> IF FitsInside THEN DataEnd - 2 * Mark ELSE DataLimit,
            walk |-> First.walk, walkPos |-> Root.at,
            next |-> Root.next, old |-> rootWalk, k |-> 1]

\* StartCommit, with names for what it decides.
LEMMA StartCommitIs ==
  ASSUME StartCommit
  PROVE  /\ pc = "idle"
         /\ used' = [used EXCEPT !.commits = @ + 1]
         /\ known' = IF mode = 1 THEN Cols ELSE known
         /\ rootWalk' = First.walk
         /\ space' = IF mode = 2 \/ IsBlank THEN {} ELSE Root.space
         /\ attempt' = Working
         /\ saved' = IF NoChange THEN Working ELSE saved
         /\ pc' = IF NoChange THEN "idle" ELSE IF FitsInside THEN "reserve" ELSE "skip"
         /\ plan' = IF NoChange THEN NoPlan ELSE NewPlan
         /\ failure' = FALSE
         /\ file' = file /\ size' = size /\ pend' = pend /\ base' = base /\ col' = col
<1>1. /\ pc = "idle"
      /\ used' = [used EXCEPT !.commits = @ + 1]
      /\ known' = IF mode = 1 THEN Cols ELSE known
      /\ rootWalk' = First.walk
      /\ space' = IF mode = 2 \/ IsBlank THEN {} ELSE Root.space
      /\ attempt' = Working
      /\ saved' = IF NoChange THEN Working ELSE saved
      /\ plan' = IF NoChange THEN NoPlan ELSE NewPlan
      /\ failure' = FALSE
      /\ file' = file /\ size' = size /\ pend' = pend /\ base' = base /\ col' = col
  BY DEF StartCommit, DataEnd, InUse, NextUse, First, Root, DataLimit, IsBlank, NoChange,
         FitsInside, NewPlan
<1>2. pc' = CASE NoChange -> "idle"
              [] ~NoChange /\ FitsInside -> "reserve"
              [] OTHER -> "skip"
  BY DEF StartCommit, DataEnd, InUse, NextUse, First, Root, DataLimit, IsBlank, NoChange, FitsInside
<1>3. pc' = IF NoChange THEN "idle" ELSE IF FitsInside THEN "reserve" ELSE "skip"
  BY <1>2
<1> QED BY <1>1, <1>3

\* The types of all that.
LEMMA StartTyped ==
  ASSUME TInv, pc = "idle"
  PROVE  /\ DataEnd \in Nat /\ (DataEnd = 0 \/ DataEnd > 2 * Mark)
         /\ InUse \in Spaces /\ NextUse \in Spaces
         /\ First \in PassStates /\ \A c \in Cols : First.walk[c].len = col[c].len
         /\ WalkLen(First.walk) \in Nat /\ WalkLen(First.walk) >= 3
         /\ Root.space \in Spaces /\ Root.next \in Spaces /\ Root.at \in Nat /\ Root.at >= 1
         /\ DataLimit \in Nat /\ \A b \in Root.next : b < DataLimit
<1>1. /\ FileSize \in Nat /\ base \in Nat /\ (FileSize = base \/ FileSize > base + 2 * Mark)
      /\ ColumnsTyped /\ space \in Spaces
  BY DEF TInv, SizeFits, MemTyped
<1>2. DataEnd \in Nat /\ (DataEnd = 0 \/ DataEnd > 2 * Mark)
  BY <1>1, DatafileAssumption DEF DataEnd
<1>3. AllClaimed \in Spaces
  <2>1. PICK claim : ClaimsBetween(claim)
    BY <1>1, ClaimsExist
  <2>2. NCols \in 0 .. NCols
    BY DatafileAssumption
  <2> QED BY <2>1, <2>2 DEF ClaimsBetween
<1>4. InUse \in Spaces
  BY <1>2, <1>3, NoSpace, ReservedType DEF InUse
<1>5. NextUse \in Spaces
  BY <1>2, <1>4, NoSpace, ReservedType DEF NextUse
<1>6. First \in PassStates /\ \A c \in Cols : First.walk[c].len = col[c].len
  BY <1>1, <1>4, <1>5, FirstPassType, FirstPassLens DEF First
<1>7. First.space \in Spaces /\ First.next \in Spaces /\ First.walk \in Maps
  BY <1>6 DEF PassStates
<1>8. WalkLen(First.walk) \in Nat /\ WalkLen(First.walk) >= 3
  BY <1>7, WalkLenIs
<1>9. Root.space \in Spaces /\ Root.next \in Spaces /\ Root.at \in Nat /\ Root.at >= 1
  <2>1. WalkLen(First.walk) > 0 /\ 0 \in Nat /\ TRUE \in BOOLEAN
    BY <1>8
  <2> QED BY <1>7, <1>8, <2>1, PlacedType DEF Root
<1>10. DataLimit \in Nat /\ \A b \in Root.next : b < DataLimit
  BY <1>9, LimitIs DEF DataLimit
<1> QED BY <1>2, <1>4, <1>5, <1>6, <1>8, <1>9, <1>10

\* What the user reads is of the right type.
LEMMA WorkingIs ==
  ASSUME TInv
  PROVE  Working \in Contents
<1>1. Image \in SUBSET Exts
  BY ImageIs DEF TInv
<1>2. ASSUME NEW c \in Cols
      PROVE  (IF col[c].dirty THEN Content(col[c].len, col[c].tag)
              ELSE ContentAt(Image, base, Location(col[c].len, col[c].pos)))
             \in [len : Nat, tag : Tags \cup {NoTag, Garbage}]
  <2>1. col[c].len \in Nat /\ col[c].tag \in Tags \cup {NoTag}
    BY DEF TInv, MemTyped, ColumnsTyped
  <2>2. Content(col[c].len, col[c].tag) \in [len : Nat, tag : Tags \cup {NoTag, Garbage}]
    BY <2>1 DEF Content
  <2>3. Location(col[c].len, col[c].pos).len \in Nat
    BY <2>1 DEF Location
  <2> QED BY <1>1, <2>2, <2>3, ContentAtIs
<1> QED BY <1>2 DEF Working, Contents

\* The types after the start of a commit.
LEMMA StartCommitTyped ==
  ASSUME TInv, UNCHANGED mode, StartCommit
  PROVE  TInv'
<1> USE DatafileAssumption
<1>1. /\ pc = "idle"
      /\ used' = [used EXCEPT !.commits = @ + 1]
      /\ known' = IF mode = 1 THEN Cols ELSE known
      /\ rootWalk' = First.walk
      /\ space' = IF mode = 2 \/ IsBlank THEN {} ELSE Root.space
      /\ attempt' = Working
      /\ saved' = IF NoChange THEN Working ELSE saved
      /\ pc' = IF NoChange THEN "idle" ELSE IF FitsInside THEN "reserve" ELSE "skip"
      /\ plan' = IF NoChange THEN NoPlan ELSE NewPlan
      /\ failure' = FALSE
      /\ file' = file /\ size' = size /\ pend' = pend /\ base' = base /\ col' = col
  BY StartCommitIs
<1>2. /\ DataEnd \in Nat /\ (DataEnd = 0 \/ DataEnd > 2 * Mark)
      /\ First \in PassStates /\ \A c \in Cols : First.walk[c].len = col[c].len
      /\ Root.space \in Spaces /\ Root.next \in Spaces /\ Root.at \in Nat /\ Root.at >= 1
      /\ DataLimit \in Nat
  BY <1>1, StartTyped
<1>3. First.walk \in Maps
  BY <1>2 DEF PassStates
<1>4. FileTyped'
  BY <1>1 DEF TInv, FileTyped
<1>5. MemTyped'
  BY <1>1, <1>2, <1>3, NoSpace DEF TInv, MemTyped, ColumnsTyped
<1>6. HistoryTyped'
  BY <1>1, WorkingIs DEF TInv, HistoryTyped
<1>7. UsedTyped'
  BY <1>1 DEF TInv, UsedTyped
<1>8. FitsInside /\ ~NoChange => DataEnd > 2 * Mark
  <2>1. SUFFICES ASSUME FitsInside, ~NoChange PROVE DataEnd > 2 * Mark
    OBVIOUS
  <2>2. DataLimit > Mark + 3 /\ DataEnd = DataLimit - Mark
    BY <1>2, <2>1 DEF FitsInside, NoChange, IsBlank, EmptyLimit
  <2> QED BY <1>2, <2>2
<1>9. PlanTyped'
  <2>1. CASE NoChange
    BY <1>1, <2>1, NoPlanTyped DEF PlanTyped, Steps, Early
  <2>2. CASE ~NoChange
    <3>1. DataLimit > Mark + 3
      BY <1>2, <2>2 DEF NoChange, IsBlank, EmptyLimit
    <3>2. rootWalk \in Maps
      BY DEF TInv, MemTyped
    <3>3. NewPlan \in Plans
      <4>1. FitsInside \in BOOLEAN
        BY DEF FitsInside
      <4>2. (IF FitsInside THEN DataEnd - 2 * Mark ELSE DataLimit) \in Int
        BY <1>2
      <4> QED BY <1>2, <1>3, <3>2, <4>1, <4>2 DEF NewPlan, Plans
    <3>4. /\ NewPlan.limit = DataLimit /\ NewPlan.walkPos = Root.at /\ NewPlan.end = DataEnd
          /\ NewPlan.inPlace = FitsInside /\ NewPlan.walk = First.walk /\ NewPlan.k = 1
          /\ NewPlan.end0 = IF FitsInside THEN DataEnd - 2 * Mark ELSE DataLimit
      BY DEF NewPlan
    <3>5. pc' = (IF FitsInside THEN "reserve" ELSE "skip") /\ plan' = NewPlan /\ col' = col
      BY <1>1, <2>2
    <3> QED BY <1>2, <1>8, <2>2, <3>1, <3>3, <3>4, <3>5 DEF PlanTyped, Steps, Early
  <2> QED BY <2>1, <2>2
<1>10. SizeFits'
  <2>1. FileSize' = FileSize /\ FileSize \in Nat /\ base \in Nat
        /\ (FileSize = base \/ FileSize > base + 2 * Mark)
    BY <1>1 DEF TInv, SizeFits, MemTyped, FileSize
  <2>2. DataEnd > 2 * Mark => FileSize > base + 2 * Mark
    BY <2>1 DEF DataEnd
  <2> QED BY <1>1, <1>8, <2>1, <2>2 DEF SizeFits
<1> QED BY <1>4, <1>5, <1>6, <1>7, <1>9, <1>10 DEF TInv

----------------------------------------------------------------------------
\* Types: the steps of a commit.
LEMMA StepWrites ==
  ASSUME TInv, UNCHANGED mode, base' = base, NEW pos \in Int, NEW len \in Nat, len > 0,
         NEW what \in Whats, DataWrite(pos, len, what), base + pos >= 0,
         what.kind = "skip" => what.off <= base + pos
  PROVE  /\ FileTyped' /\ UsedTyped'
         /\ FileSize' \in Nat /\ FileSize <= FileSize'
         /\ failure' \/ FileSize' >= base + pos + len
         /\ failure => failure'
         /\ WriteDone(Extent(base + pos, len, what)) \/ Failed
<1> DEFINE x == Extent(base + pos, len, what)
<1>1. FileTyped /\ base \in Nat /\ base + pos \in Nat /\ UsedTyped
  BY DEF TInv, MemTyped
<1>2. x \in Exts /\ x.at = base + pos /\ x.what = what /\ End(x) = base + pos + len
  <2> DEFINE at == base + pos
  <2>1. at \in Nat
    BY <1>1
  <2> HIDE DEF at
  <2> DEFINE y == Extent(at, len, what)
  <2>2. y \in Exts /\ y.at = at /\ y.what = what /\ End(y) = at + len
    <3> HIDE DEF x
    <3>1. y = [at |-> at, len |-> len, what |-> what]
      BY DEF Extent
    <3> HIDE DEF y
    <3>2. y \in Exts
      BY <2>1, <3>1 DEF Exts
    <3> QED BY <2>1, <3>1, <3>2 DEF End
  <2> QED BY <2>2 DEF at
<1>3. PointsBack(x)
  BY <1>2 DEF PointsBack
<1>4. FileTyped' /\ (WriteDone(x) \/ Failed)
  BY <1>1, <1>2, <1>3, WriteIs
<1>5. FileSize \in Nat
  BY <1>1, ImageIs
<1> HIDE DEF x
<1>6. CASE WriteDone(x)
  <2>1. FileSize' = Longest(FileSize, x) /\ used' = used /\ failure' = failure
    BY <1>6 DEF WriteDone
  <2>2. FileSize' \in Nat /\ FileSize <= FileSize' /\ End(x) <= FileSize'
    BY <1>2, <1>5, <2>1, LongestIs
  <2> QED BY <1>1, <1>2, <1>4, <1>6, <2>1, <2>2 DEF UsedTyped, x
<1>7. CASE Failed
  <2>1. FileSize' = FileSize /\ used' = [used EXCEPT !.fails = @ + 1] /\ failure' = TRUE
    BY <1>7 DEF Failed
  <2>2. UsedTyped'
    BY <1>1, <2>1 DEF UsedTyped
  <2> QED BY <1>4, <1>5, <1>7, <2>1, <2>2
<1> QED BY <1>4, <1>6, <1>7

\* A flush keeps the types, and the size that the process sees.
LEMMA StepFlushes ==
  ASSUME TInv, UNCHANGED mode, DataCommit
  PROVE  /\ FileTyped' /\ UsedTyped' /\ FileSize' = FileSize /\ (failure => failure')
         /\ FlushDone \/ Failed
<1>1. FileTyped /\ UsedTyped
  BY DEF TInv
<1>2. FileTyped' /\ (FlushDone \/ Failed)
  BY <1>1, FlushIs
<1>3. UsedTyped'
  <2>1. CASE FlushDone
    BY <1>1, <2>1 DEF FlushDone, UsedTyped
  <2>2. CASE Failed
    BY <1>1, <2>2 DEF Failed, UsedTyped
  <2> QED BY <1>2, <2>1, <2>2
<1> QED BY <1>2, <1>3 DEF FlushDone, Failed

\* What the plan says about places.
LEMMA PlanFacts ==
  ASSUME TInv, pc # "idle"
  PROVE  /\ Mark \in Nat /\ Mark > 1 /\ base \in Nat
         /\ plan.end \in Nat /\ plan.limit \in Nat /\ plan.limit > Mark + 3
         /\ plan.inPlace \in BOOLEAN /\ plan.end0 \in Nat /\ plan.end0 >= 1
         /\ plan.walk \in Maps /\ plan.old \in Maps /\ plan.next \in Spaces
         /\ plan.walkPos \in Nat /\ plan.walkPos >= 1 /\ plan.k \in Nat
         /\ WalkLen(plan.walk) \in Nat /\ WalkLen(plan.walk) >= 3
         /\ End1 = plan.end0 + Mark /\ End2 = plan.end0 + 2 * Mark
         /\ \A c \in Cols : plan.walk[c].len = col[c].len
<1>1. /\ plan \in Plans /\ plan.limit > Mark + 3 /\ plan.walkPos >= 1
      /\ plan.inPlace => plan.end > 2 * Mark /\ plan.end0 = plan.end - 2 * Mark
      /\ ~plan.inPlace => plan.end0 = plan.limit
      /\ base \in Nat
      /\ \A c \in Cols : plan.walk[c].len = col[c].len
  BY DEF TInv, PlanTyped, MemTyped
<1>2. Mark \in Nat /\ Mark > 1
  BY DatafileAssumption
<1>3. /\ plan.end \in Nat /\ plan.limit \in Nat /\ plan.inPlace \in BOOLEAN /\ plan.end0 \in Int
      /\ plan.walk \in Maps /\ plan.old \in Maps /\ plan.next \in Spaces
      /\ plan.walkPos \in Nat /\ plan.k \in Nat
  BY <1>1 DEF Plans
<1>4. WalkLen(plan.walk) \in Nat /\ WalkLen(plan.walk) >= 3
  BY <1>3, WalkLenIs
<1>5. plan.end0 \in Nat /\ plan.end0 >= 1
  BY <1>1, <1>2, <1>3
<1>6. End1 = plan.end0 + Mark /\ End2 = plan.end0 + 2 * Mark
  BY DEF End1, End2
<1> QED BY <1>1, <1>2, <1>3, <1>4, <1>5, <1>6

\* A step that leaves the memory alone, and goes on or returns.
LEMMA StepTyped ==
  ASSUME TInv, UNCHANGED mode, pc # "idle", UNCHANGED <<base, col, known, rootWalk, attempt>>,
         space' \in Spaces, FileTyped', UsedTyped', FileSize' \in Nat, FileSize <= FileSize',
         FileSize' = FileSize \/ FileSize' > base + 2 * Mark,
         \/ /\ pc' \in Steps \ {"idle", "cols"} /\ plan' = plan /\ saved' = saved
            /\ pc' \in {"skip", "flushSkip", "head", "mark1"} => ~plan.inPlace
            /\ pc' # "skip" /\ (pc' \in Early => pc \in Early)
            /\ pc' = "flushSkip" => failure' \/ FileSize' > base + 2 * Mark
            /\ pc' # "flushSkip" => FileSize' > base + 2 * Mark
         \/ pc' = "idle" /\ plan' = NoPlan /\ saved' \in {saved, attempt}
  PROVE  TInv'
<1>1. MemTyped'
  BY DEF TInv, MemTyped, ColumnsTyped
<1>2. HistoryTyped'
  BY DEF TInv, HistoryTyped
<1>3. PlanTyped'
  <2>1. CASE pc' = "idle" /\ plan' = NoPlan
    BY <2>1, NoPlanTyped DEF PlanTyped, Steps, Early
  <2>2. CASE ~(pc' = "idle" /\ plan' = NoPlan)
    BY <2>2 DEF TInv, PlanTyped
  <2> QED BY <2>1, <2>2
<1>4. SizeFits'
  <2>1. FileSize \in Nat /\ (FileSize = base \/ FileSize > base + 2 * Mark) /\ Mark \in Nat /\ base \in Nat
    BY DatafileAssumption DEF TInv, SizeFits, MemTyped
  <2>2. FileSize' = base' \/ FileSize' > base' + 2 * Mark
    BY <2>1
  <2> QED BY <2>1, <2>2 DEF SizeFits
<1> QED BY <1>1, <1>2, <1>3, <1>4 DEF TInv

\* The types after WriteSkip.
LEMMA WriteSkipTyped ==
  ASSUME TInv, UNCHANGED mode, WriteSkip
  PROVE  TInv'
<1>1. /\ pc = "skip" /\ DataWrite(plan.limit, Mark, SkipMark(plan.limit))
      /\ pc' = "flushSkip" /\ plan' = plan /\ saved' = saved
      /\ UNCHANGED <<base, col, known, space, rootWalk, attempt>>
  BY DEF WriteSkip, Continue, memvars
<1>2. /\ Mark \in Nat /\ Mark > 1 /\ plan.limit \in Nat /\ plan.limit > Mark + 3 /\ base \in Nat
      /\ ~plan.inPlace
  BY <1>1, PlanFacts DEF TInv, PlanTyped
<1>3. SkipMark(plan.limit) \in Whats /\ SkipMark(plan.limit).off = plan.limit
  BY <1>2, WhatIs DEF SkipMark
<1>4. /\ FileTyped' /\ UsedTyped' /\ FileSize' \in Nat /\ FileSize <= FileSize'
      /\ failure' \/ FileSize' >= base + plan.limit + Mark
      /\ WriteDone(Extent(base + plan.limit, Mark, SkipMark(plan.limit))) \/ Failed
  BY <1>1, <1>2, <1>3, StepWrites
<1>5. FileSize' = FileSize \/ FileSize' > base + 2 * Mark
  <2>1. CASE Failed
    BY <2>1 DEF Failed
  <2>2. CASE ~Failed
    <3> DEFINE x == Extent(base + plan.limit, Mark, SkipMark(plan.limit))
    <3>1. WriteDone(x)
      BY <1>4, <2>2
    <3>2. FileSize' = Longest(FileSize, x)
      BY <3>1 DEF WriteDone
    <3>3. End(x) = base + plan.limit + Mark
      BY DEF End, Extent
    <3> HIDE DEF x
    <3> QED BY <1>2, <3>2, <3>3 DEF Longest
  <2> QED BY <2>1, <2>2
<1>6. failure' \/ FileSize' > base + 2 * Mark
  BY <1>2, <1>4
<1>7. space' \in Spaces
  BY <1>1 DEF TInv, MemTyped
<1> QED BY <1>1, <1>2, <1>4, <1>5, <1>6, <1>7, StepTyped DEF Steps, Early

\* After the first flush there is more than a header and two marks.
LEMMA LongEnough ==
  ASSUME TInv, pc \notin {"idle", "skip", "flushSkip"}
  PROVE  FileSize > base + 2 * Mark /\ FileSize \in Nat /\ base \in Nat /\ Mark \in Nat
BY DatafileAssumption DEF TInv, SizeFits, MemTyped

\* The types after FlushSkip, also when the commit ends with it.
LEMMA FlushSkipTyped ==
  ASSUME TInv, UNCHANGED mode, FlushSkip
  PROVE  TInv'
<1>1. /\ pc = "flushSkip" /\ DataCommit
      /\ UNCHANGED <<base, col, known, space, rootWalk, attempt>>
      /\ IF failure' THEN pc' = "idle" /\ plan' = NoPlan /\ saved' = saved
                     ELSE pc' = "head" /\ plan' = plan /\ saved' = saved
  BY DEF FlushSkip, Return, Continue, memvars
<1>2. /\ FileTyped' /\ UsedTyped' /\ FileSize' = FileSize /\ (failure => failure')
  BY <1>1, StepFlushes
<1>3. /\ FileSize \in Nat /\ base \in Nat /\ Mark \in Nat /\ space \in Spaces /\ ~plan.inPlace
      /\ failure \/ FileSize > base + 2 * Mark
  BY <1>1, DatafileAssumption DEF TInv, SizeFits, MemTyped, PlanTyped
<1>4. FileSize <= FileSize'
  BY <1>2, <1>3
<1> QED BY <1>1, <1>2, <1>3, <1>4, StepTyped DEF Steps, Early

\* The writes that follow are all alike.
LEMMA LaterWriteTyped ==
  ASSUME TInv, UNCHANGED mode, pc \notin {"idle", "skip", "flushSkip"},
         NEW pos \in Int, NEW len \in Nat, len > 0, NEW what \in Whats, DataWrite(pos, len, what),
         base + pos >= 0, what.kind = "skip" => what.off <= base + pos,
         UNCHANGED <<base, col, known, space, rootWalk, attempt>>,
         \/ /\ pc' \in Steps \ {"idle", "cols", "skip", "flushSkip"} /\ plan' = plan /\ saved' = saved
            /\ pc' \in {"head", "mark1"} => ~plan.inPlace
            /\ pc' \in Early => pc \in Early
         \/ pc' = "idle" /\ plan' = NoPlan /\ saved' \in {saved, attempt}
  PROVE  TInv'
<1>1. /\ FileTyped' /\ UsedTyped' /\ FileSize' \in Nat /\ FileSize <= FileSize'
  BY StepWrites
<1>2. FileSize > base + 2 * Mark /\ FileSize \in Nat /\ base \in Nat /\ Mark \in Nat
  BY LongEnough
<1>3. FileSize' > base + 2 * Mark
  BY <1>1, <1>2
<1>4. space' \in Spaces
  BY DEF TInv, MemTyped
<1> QED BY <1>1, <1>3, <1>4, StepTyped

\* The types after a flush of a file that has grown already.
LEMMA LaterFlushTyped ==
  ASSUME TInv, UNCHANGED mode, pc \notin {"idle", "skip", "flushSkip"}, DataCommit,
         UNCHANGED <<base, col, known, rootWalk, attempt>>, space' \in Spaces,
         \/ /\ pc' \in Steps \ {"idle", "cols", "skip", "flushSkip"} /\ plan' = plan /\ saved' = saved
            /\ pc' \in {"head", "mark1"} => ~plan.inPlace
            /\ pc' \in Early => pc \in Early
         \/ pc' = "idle" /\ plan' = NoPlan /\ saved' \in {saved, attempt}
  PROVE  TInv'
<1>1. /\ FileTyped' /\ UsedTyped' /\ FileSize' = FileSize
  BY StepFlushes
<1>2. FileSize > base + 2 * Mark /\ FileSize \in Nat /\ base \in Nat /\ Mark \in Nat
  BY LongEnough
<1>3. FileSize' > base + 2 * Mark /\ FileSize' \in Nat /\ FileSize <= FileSize'
  BY <1>1, <1>2
<1> QED BY <1>1, <1>3, StepTyped

\* The types after WriteHead.
LEMMA WriteHeadTyped ==
  ASSUME TInv, UNCHANGED mode, WriteHead
  PROVE  TInv'
<1> DEFINE what == IF plan.end > 0 THEN ExtendMark ELSE HeadMark
<1>1. /\ pc = "head" /\ DataWrite(plan.end, Mark, what)
      /\ pc' = "mark1" /\ plan' = plan /\ saved' = saved
      /\ UNCHANGED <<base, col, known, space, rootWalk, attempt>>
  BY DEF WriteHead, Continue, memvars
<1>2. /\ Mark \in Nat /\ Mark > 0 /\ plan.end \in Int /\ base + plan.end >= 0 /\ ~plan.inPlace
  BY <1>1, PlanFacts DEF TInv, PlanTyped
<1>3. what \in Whats /\ what.kind # "skip"
  BY WhatIs DEF ExtendMark, HeadMark
<1> HIDE DEF what
<1> QED BY <1>1, <1>2, <1>3, LaterWriteTyped DEF Steps, Early

\* The types after WriteMark1: the skip mark points back to a place in the file.
LEMMA WriteMark1Typed ==
  ASSUME TInv, UNCHANGED mode, WriteMark1
  PROVE  TInv'
<1>1. /\ pc = "mark1" /\ DataWrite(plan.end0, Mark, SkipMark(plan.end0))
      /\ pc' = "reserve" /\ plan' = plan /\ saved' = saved
      /\ UNCHANGED <<base, col, known, space, rootWalk, attempt>>
  BY DEF WriteMark1, Continue, memvars
<1>2. /\ Mark \in Nat /\ Mark > 0 /\ plan.end0 \in Nat \ {0} /\ plan.end0 \in Int
      /\ base + plan.end0 >= 0 /\ plan.end0 <= base + plan.end0
  BY <1>1, PlanFacts
<1>3. SkipMark(plan.end0) \in Whats /\ SkipMark(plan.end0).off = plan.end0
  BY <1>2, WhatIs DEF SkipMark
<1> QED BY <1>1, <1>2, <1>3, LaterWriteTyped DEF Steps, Early

\* Reserving the tails.
LEMMA TailsType ==
  ASSUME TInv, pc # "idle", NEW u \in Spaces
  PROVE  TailsReserved(u) \in Spaces
<1>1. /\ Mark \in Nat /\ plan.end \in Nat /\ plan.end0 \in Nat /\ plan.end0 >= 1
  BY PlanFacts
<1>2. (IF plan.inPlace THEN Released(u, plan.end, Mark) ELSE u) \in Spaces
  BY <1>1, ReleasedIs
<1>3. 2 * Mark \in Nat
  BY <1>1
<1> QED BY <1>1, <1>2, <1>3, OccupiedIs DEF TailsReserved

\* The types after ReserveTails.
LEMMA ReserveTailsTyped ==
  ASSUME TInv, UNCHANGED mode, ReserveTails
  PROVE  TInv'
<1>1. /\ pc = "reserve" /\ pc' = "cols" /\ mode' = mode
      /\ space' = IF mode = 1 THEN TailsReserved(space) ELSE {}
      /\ plan' = [plan EXCEPT !.next = TailsReserved(plan.next)]
      /\ file' = file /\ size' = size /\ pend' = pend /\ failure' = failure /\ base' = base
      /\ col' = col /\ known' = known /\ rootWalk' = rootWalk
      /\ saved' = saved /\ attempt' = attempt /\ used' = used
  BY DEF ReserveTails, filevars
<1>2. plan \in Plans /\ plan.next \in Spaces /\ plan.k = 1 /\ space \in Spaces
  BY <1>1, PlanFacts DEF TInv, PlanTyped, MemTyped, Early
<1>3. TailsReserved(plan.next) \in Spaces /\ TailsReserved(space) \in Spaces
  BY <1>1, <1>2, TailsType
<1>4. /\ plan' \in Plans /\ plan'.next = TailsReserved(plan.next)
      /\ plan'.end = plan.end /\ plan'.limit = plan.limit /\ plan'.inPlace = plan.inPlace
      /\ plan'.end0 = plan.end0 /\ plan'.walk = plan.walk /\ plan'.walkPos = plan.walkPos
      /\ plan'.old = plan.old /\ plan'.k = plan.k
  BY <1>1, <1>2, <1>3 DEF Plans
<1>5. FileTyped' /\ HistoryTyped' /\ UsedTyped'
  BY <1>1 DEF TInv, FileTyped, HistoryTyped, UsedTyped
<1>6. MemTyped'
  BY <1>1, <1>2, <1>3, NoSpace DEF TInv, MemTyped, ColumnsTyped
<1>7. PlanTyped'
  <2>1. 1 \in Cols
    BY DatafileAssumption DEF Cols
  <2> QED BY <1>1, <1>2, <1>4, <2>1 DEF TInv, PlanTyped, Steps, Early
<1>8. SizeFits'
  <2>1. FileSize' = FileSize
    BY <1>1 DEF FileSize
  <2> QED BY <1>1, <2>1 DEF TInv, SizeFits
<1> QED BY <1>5, <1>6, <1>7, <1>8 DEF TInv

\* WriteColumn, with what memvars and filevars stand for.
LEMMA WriteColumnIs ==
  ASSUME WriteColumn
  PROVE  LET c == plan.k
             loc == plan.walk[c]
         IN  /\ pc = "cols"
             /\ IF loc.len > 0 /\ col[c].dirty
                THEN DataWrite(loc.pos, loc.len, ColData(col[c].tag))
                ELSE UNCHANGED <<file, size, pend, failure, used>>
             /\ col' = IF loc.len > 0 THEN [col EXCEPT ![c] = Clean(loc)] ELSE col
             /\ plan' = [plan EXCEPT !.k = plan.k + 1]
             /\ pc' = IF c = NCols THEN "walk" ELSE "cols"
             /\ base' = base /\ known' = known /\ space' = space /\ rootWalk' = rootWalk
             /\ saved' = saved /\ attempt' = attempt
BY DEF WriteColumn, filevars

\* The types after WriteColumn: the column written has the length decided for it.
LEMMA WriteColumnTyped ==
  ASSUME TInv, UNCHANGED mode, WriteColumn
  PROVE  TInv'
<1> DEFINE c == plan.k
           loc == plan.walk[c]
<1>1. /\ pc = "cols"
      /\ IF loc.len > 0 /\ col[c].dirty
         THEN DataWrite(loc.pos, loc.len, ColData(col[c].tag))
         ELSE UNCHANGED <<file, size, pend, failure, used>>
      /\ col' = IF loc.len > 0 THEN [col EXCEPT ![c] = Clean(loc)] ELSE col
      /\ plan' = [plan EXCEPT !.k = c + 1]
      /\ pc' = IF c = NCols THEN "walk" ELSE "cols"
      /\ base' = base /\ known' = known /\ space' = space /\ rootWalk' = rootWalk
      /\ saved' = saved /\ attempt' = attempt
  BY WriteColumnIs
<1>2. /\ plan \in Plans /\ plan.walk \in Maps /\ c \in Cols /\ base \in Nat
      /\ ColumnsTyped /\ loc.len = col[c].len
      /\ col[c].dirty => (col[c].len = 0 <=> col[c].tag = NoTag)
  BY <1>1, PlanFacts DEF TInv, PlanTyped, MemTyped
<1>3. loc.len \in Nat /\ loc.pos \in Nat /\ (loc.len = 0 <=> loc.pos = 0)
  BY <1>2 DEF Maps, Walks
<1>4. FileTyped' /\ UsedTyped' /\ FileSize' \in Nat /\ FileSize <= FileSize'
  <2>1. CASE loc.len > 0 /\ col[c].dirty
    <3>1. col[c].tag \in Tags
      BY <1>2, <2>1 DEF ColumnsTyped
    <3>2. ColData(col[c].tag) \in Whats /\ ColData(col[c].tag).kind # "skip"
      BY <3>1, WhatIs DEF ColData
    <3> DEFINE what == ColData(col[c].tag)
               pos == loc.pos
               len == loc.len
    <3>3. DataWrite(pos, len, what) /\ len \in Nat /\ len > 0 /\ pos \in Int /\ base + pos >= 0
      BY <1>1, <1>2, <1>3, <2>1
    <3>4. what \in Whats /\ what.kind # "skip"
      BY <3>2
    <3> HIDE DEF what, pos, len
    <3> QED BY <1>1, <3>3, <3>4, StepWrites
  <2>2. CASE ~(loc.len > 0 /\ col[c].dirty)
    <3>1. UNCHANGED <<file, size, pend, failure, used>>
      BY <1>1, <2>2
    <3>2. FileSize' = FileSize /\ FileSize \in Nat
      BY <3>1 DEF FileSize, TInv, SizeFits
    <3> QED BY <3>1, <3>2 DEF TInv, FileTyped, UsedTyped
  <2> QED BY <2>1, <2>2
<1>5. /\ ColumnsTyped' /\ \A d \in Cols : col'[d].len = col[d].len
      /\ \A d \in Cols : col'[d].dirty => (col'[d].len = 0 <=> col'[d].tag = NoTag)
  <2>1. CASE loc.len > 0
    <3>1. /\ Clean(loc) \in [len : Nat, pos : Nat, tag : Tags \cup {NoTag}, dirty : BOOLEAN]
          /\ ~Clean(loc).dirty /\ Clean(loc).len = loc.len /\ Clean(loc).pos = loc.pos
      BY <1>3 DEF Clean
    <3> HIDE DEF loc, c
    <3>2. /\ col' \in [Cols -> [len : Nat, pos : Nat, tag : Tags \cup {NoTag}, dirty : BOOLEAN]]
          /\ col'[c] = Clean(loc) /\ \A d \in Cols \ {c} : col'[d] = col[d]
      BY <1>1, <1>2, <2>1, <3>1 DEF ColumnsTyped
    <3>3. ColumnsTyped'
      BY <1>1, <1>2, <1>3, <2>1, <3>1, <3>2 DEF ColumnsTyped
    <3> QED BY <1>2, <3>1, <3>2, <3>3 DEF TInv, MemTyped
  <2>2. CASE ~(loc.len > 0)
    <3>1. col' = col
      BY <1>1, <2>2
    <3> QED BY <1>1, <3>1 DEF TInv, MemTyped, ColumnsTyped
  <2> QED BY <2>1, <2>2
<1>6. MemTyped'
  BY <1>1, <1>5 DEF TInv, MemTyped
<1>7. HistoryTyped'
  BY <1>1 DEF TInv, HistoryTyped
<1>8. PlanTyped'
  <2>1. c + 1 \in Nat /\ (c # NCols => c + 1 \in Cols)
    BY <1>2, DatafileAssumption DEF Cols
  <2> HIDE DEF loc
  <2>2. /\ plan' \in Plans /\ plan'.k = c + 1
        /\ plan'.end = plan.end /\ plan'.limit = plan.limit /\ plan'.inPlace = plan.inPlace
        /\ plan'.end0 = plan.end0 /\ plan'.walk = plan.walk /\ plan'.walkPos = plan.walkPos
        /\ plan'.old = plan.old
    BY <1>1, <1>2, <2>1 DEF Plans
  <2> HIDE DEF c
  <2> QED BY <1>1, <1>5, <2>1, <2>2 DEF TInv, PlanTyped, Steps, Early
<1>9. SizeFits'
  <2>1. FileSize > base + 2 * Mark /\ FileSize \in Nat /\ base \in Nat /\ Mark \in Nat
    BY <1>1, LongEnough
  <2>2. FileSize' > base' + 2 * Mark /\ pc' \in {"walk", "cols"}
    BY <1>1, <1>4, <2>1
  <2> QED BY <1>4, <2>2 DEF SizeFits
<1> QED BY <1>4, <1>6, <1>7, <1>8, <1>9 DEF TInv

\* The types after WriteWalk, also when the commit ends with it.
LEMMA WriteWalkTyped ==
  ASSUME TInv, UNCHANGED mode, WriteWalk
  PROVE  TInv'
<1> DEFINE len == WalkLen(plan.walk)
           what == WalkData(plan.walk)
<1>1. /\ pc = "walk" /\ DataWrite(plan.walkPos, len, what)
      /\ UNCHANGED <<base, col, known, space, rootWalk, attempt>>
      /\ IF failure' THEN pc' = "idle" /\ plan' = NoPlan /\ saved' = saved
                     ELSE pc' = "flushData" /\ plan' = plan /\ saved' = saved
  BY DEF WriteWalk, Return, Continue, memvars
<1>2. plan.walkPos \in Int /\ base + plan.walkPos >= 0 /\ len \in Nat /\ len > 0
  BY <1>1, PlanFacts
<1>3. what \in Whats /\ what.kind # "skip"
  BY <1>1, PlanFacts, WhatIs DEF WalkData
<1> HIDE DEF len, what
<1> QED BY <1>1, <1>2, <1>3, LaterWriteTyped DEF Steps, Early

\* The types after FlushData.
LEMMA FlushDataTyped ==
  ASSUME TInv, UNCHANGED mode, FlushData
  PROVE  TInv'
<1>1. /\ pc = "flushData" /\ DataCommit /\ pc' = "mark2" /\ plan' = plan /\ saved' = saved
      /\ UNCHANGED <<base, col, known, space, rootWalk, attempt>>
  BY DEF FlushData, Continue, memvars
<1>2. space' \in Spaces
  BY <1>1 DEF TInv, MemTyped
<1> QED BY <1>1, <1>2, LaterFlushTyped DEF Steps, Early

\* The types after WriteMark2.
LEMMA WriteMark2Typed ==
  ASSUME TInv, UNCHANGED mode, WriteMark2
  PROVE  TInv'
<1> DEFINE what == TailMark(plan.walkPos, WalkLen(plan.walk))
           pos == End1
<1>1. /\ pc = "mark2" /\ DataWrite(pos, Mark, what) /\ plan' = plan /\ saved' = saved
      /\ pc' = IF mode = 1 \/ plan.end = 0 THEN "flushTail" ELSE "finish"
      /\ UNCHANGED <<base, col, known, space, rootWalk, attempt>>
  BY DEF WriteMark2, Continue, memvars
<1>2. pos \in Int /\ base + pos >= 0 /\ Mark \in Nat /\ Mark > 0
  BY <1>1, PlanFacts
<1>3. what \in Whats /\ what.kind # "skip"
  BY <1>1, PlanFacts, WhatIs DEF TailMark
<1> HIDE DEF what, pos
<1> QED BY <1>1, <1>2, <1>3, LaterWriteTyped DEF Steps, Early

\* The types after FlushTail.
LEMMA FlushTailTyped ==
  ASSUME TInv, UNCHANGED mode, FlushTail
  PROVE  TInv'
<1>1. /\ pc = "flushTail" /\ DataCommit /\ pc' = "header" /\ plan' = plan /\ saved' = saved
      /\ UNCHANGED <<base, col, known, space, rootWalk, attempt>>
  BY DEF FlushTail, Continue, memvars
<1>2. space' \in Spaces
  BY <1>1 DEF TInv, MemTyped
<1> QED BY <1>1, <1>2, LaterFlushTyped DEF Steps, Early

\* The types after WriteHeader.
LEMMA WriteHeaderTyped ==
  ASSUME TInv, UNCHANGED mode, WriteHeader
  PROVE  TInv'
<1>1. /\ pc = "header" /\ DataWrite(0, Mark, HeadMark) /\ plan' = plan /\ saved' = saved
      /\ pc' = "finish" /\ UNCHANGED <<base, col, known, space, rootWalk, attempt>>
  BY DEF WriteHeader, Continue, memvars
<1>2. 0 \in Int /\ base + 0 >= 0 /\ Mark \in Nat /\ Mark > 0
  BY <1>1, PlanFacts
<1>3. HeadMark \in Whats /\ HeadMark.kind # "skip"
  BY WhatIs DEF HeadMark
<1> QED BY <1>1, <1>2, <1>3, LaterWriteTyped DEF Steps, Early

\* The types after FinishCommit.
LEMMA FinishCommitTyped ==
  ASSUME TInv, UNCHANGED mode, FinishCommit
  PROVE  TInv'
<1>1. /\ pc = "finish" /\ DataCommit /\ pc' = "idle" /\ plan' = NoPlan
      /\ saved' \in {saved, attempt}
      /\ space' = IF mode = 1 THEN plan.next ELSE {}
      /\ UNCHANGED <<base, col, known, rootWalk, attempt>>
  BY DEF FinishCommit, Return
<1>2. space' \in Spaces
  BY <1>1, PlanFacts, NoSpace
<1> QED BY <1>1, <1>2, LaterFlushTyped DEF Steps, Early

\* Every step keeps the types.
LEMMA StepKeepsTypes ==
  ASSUME TInv, [Next]_vars
  PROVE  TInv'
<1>1. CASE UNCHANGED vars
  <2>1. /\ mode' = mode /\ file' = file /\ size' = size /\ pend' = pend /\ failure' = failure
        /\ base' = base /\ col' = col /\ known' = known /\ space' = space /\ rootWalk' = rootWalk
        /\ pc' = pc /\ plan' = plan /\ saved' = saved /\ attempt' = attempt /\ used' = used
    BY <1>1 DEF vars, filevars, memvars
  <2>2. FileSize' = FileSize
    BY <2>1 DEF FileSize
  <2> QED BY <2>1, <2>2 DEF TInv, FileTyped, MemTyped, ColumnsTyped, HistoryTyped, UsedTyped,
                            PlanTyped, SizeFits
<1>2. CASE Next
  <2>1. UNCHANGED mode
    BY <1>2 DEF Next
  <2>2. CASE \E c \in Cols : \E len \in ColLens : \E tag \in Tags \cup {NoTag} : Modify(c, len, tag)
    BY <2>1, <2>2, ModifyTyped
  <2>3. CASE SaveIt
    BY <2>1, <2>3, WriteSkipTyped, FlushSkipTyped, WriteHeadTyped, WriteMark1Typed,
       ReserveTailsTyped, WriteColumnTyped, WriteWalkTyped, FlushDataTyped, WriteMark2Typed,
       FlushTailTyped, WriteHeaderTyped, FinishCommitTyped DEF SaveIt
  <2> QED BY <1>2, <2>1, <2>2, <2>3, RollbackTyped, StartCommitTyped, CrashTyped DEF Next
<1> QED BY <1>1, <1>2

----------------------------------------------------------------------------
(* Stable storage.  What a datafile must hold for the version in it to be   *)
(* found, and what protects it while the next version is written.           *)

HeadAt(b)        == Extent(b, Mark, HeadMark)
SkipAt(b, p)     == Extent(b + p, Mark, SkipMark(p))
TailAt(b, p, at, w) == Extent(b + p, Mark, TailMark(at, WalkLen(w)))
WalkOf(b, at, w) == Extent(b + at, WalkLen(w), WalkData(w))

\* The blocks of a version: its columns, and as number 0 the walk itself.
Block(w, at, c) == IF c = 0 THEN Location(WalkLen(w), at) ELSE w[c]
Blocks == 0 .. NCols

\* Blocks that have bytes have none in common.
Aside(a, b) == a.len > 0 /\ b.len > 0 => Apart(a.pos, a.len, b.pos, b.len)

\* The blocks of a version are after the header and before its tails.
Laid(w, at, top) ==
  /\ \A c \in Blocks : Block(w, at, c).len > 0 =>
       Mark <= Block(w, at, c).pos /\ Block(w, at, c).pos + Block(w, at, c).len <= top
  /\ \A c \in Blocks, d \in Blocks : c # d => Aside(Block(w, at, c), Block(w, at, d))

\* A file with the data from b on has a version, with the walk w at a place.
Version(f, b, end, w, at) ==
  IF end = 0 THEN w = EmptyWalk
  ELSE /\ Laid(w, at, end - 2 * Mark)
       /\ HeadAt(b) \in f /\ SkipAt(b, end - 2 * Mark) \in f
       /\ TailAt(b, end - Mark, at, w) \in f /\ WalkOf(b, at, w) \in f

\* What is claimed of a version: each block as a whole or not at all, so that
\* claiming it does what it should, and the columns that are set up.
Claims(u, set, w, at, end) ==
  /\ AllOrNone(u, Bytes(1, Mark - 1))
  /\ \A c \in Cols : AllOrNone(u, BytesOf(w[c]))
  /\ \A c \in set : BytesOf(w[c]) \subseteq u
  /\ end > 0 => /\ Bytes(at, WalkLen(w)) \subseteq u
                /\ AllOrNone(u, Bytes(end - 2 * Mark, 2 * Mark))
                /\ AllOrNone(u, Bytes(end, Mark))

\* Nothing that is written is before the data, where nothing is found.
FileOK ==
  /\ Dead(file, base) /\ base <= size
  /\ \A e \in file : End(e) <= size
  /\ \A i \in DOMAIN pend : pend[i].at >= base

\* Between commits the file has the version last committed.
IdleOK(at) ==
  /\ pend = << >>
  /\ Version(file, base, size - base, rootWalk, at)
  /\ saved = ContentsOf(file, base, rootWalk)
  /\ \A c \in Cols : ~col[c].dirty => col[c] = Clean(rootWalk[c])
  /\ mode = 1 => Claims(space, known, rootWalk, at, size - base)

\* The old version and the new one are laid out; what will be written for the new
\* one is no part of the old one.
LayOK(at) ==
  /\ Laid(plan.walk, plan.walkPos, plan.end0)
  /\ plan.end = 0 => plan.old = EmptyWalk
  /\ plan.end > 0 => Laid(plan.old, at, plan.end - 2 * Mark)
  /\ plan.inPlace => plan.limit = plan.end + Mark
  /\ ~plan.inPlace /\ plan.end > 0 => plan.end + Mark <= plan.limit
FreshOK(at) ==
  plan.end > 0 =>
    \A c \in Blocks : c = 0 \/ col[c].dirty =>
      \A d \in Blocks : Aside(Block(plan.walk, plan.walkPos, c), Block(plan.old, at, d))

\* The space of the new version is what the next commit will go by.
NextOK ==
  IF pc \in Early
  THEN /\ Bytes(1, Mark - 1) \subseteq plan.next
       /\ \A c \in Blocks : BytesOf(Block(plan.walk, plan.walkPos, c)) \subseteq plan.next
       /\ \A b \in plan.next : b < plan.limit
       /\ plan.inPlace => Bytes(plan.end0, 3 * Mark) \subseteq plan.next
  ELSE Claims(plan.next, Cols, plan.walk, plan.walkPos, End2)
SpaceOK == rootWalk = plan.walk /\ (mode = 1 => known = Cols /\ NextOK)

\* The columns are what is being saved; a changed one with data is not yet written.
ColsOK ==
  \A c \in Cols :
    IF col[c].dirty
    THEN /\ attempt[c] = Content(col[c].len, col[c].tag)
         /\ col[c].len = 0 \/ pc \in Early \/ (pc = "cols" /\ plan.k <= c)
    ELSE /\ col[c] = Clean(plan.walk[c])
         /\ ContentAt(Image, base, plan.walk[c]) = attempt[c]
         /\ pc \in Early => plan.walk[c] = plan.old[c]

\* No write touches a column of the old version.
SavedOK ==
  /\ saved = ContentsOf(file, base, plan.old)
  /\ \A i \in DOMAIN pend, c \in Cols :
       plan.old[c].len > 0 => Misses(pend[i], base + plan.old[c].pos, plan.old[c].len)

\* The extents that stay in the file whatever becomes of the writes.
Kept == {x \in file : \A i \in DOMAIN pend : Spares(pend[i], x)}

\* What a crash finds, by the steps of the commit.
TailIsPending == pc = "flushTail" \/ (pc = "finish" /\ mode = 2 /\ plan.end > 0)

SkipOK(at) ==
  /\ Version(file, base, plan.end, plan.old, at) /\ size = base + plan.end
  /\ pc = "skip" => pend = << >>
  /\ pc = "flushSkip" => pend = << SkipAt(base, plan.limit) >>
MarksOK(at) ==
  /\ plan.end > 0 => HeadAt(base) \in Kept
  /\ ~plan.inPlace => SkipAt(base, plan.end0) \in Kept /\ size = base + End1
  /\ plan.inPlace => /\ SkipAt(base, plan.end0) \in Kept /\ size = base + plan.end
                     /\ TailAt(base, End1, at, plan.old) \in Kept
                     /\ WalkOf(base, at, plan.old) \in Kept
  /\ \A i \in DOMAIN pend : End(pend[i]) <= size
WritingOK(at) ==
  /\ MarksOK(at)
  /\ plan.end = 0 /\ pc # "head" => HeadAt(base) \in Image
  /\ pc \in {"flushData", "mark2"} => WalkOf(base, plan.walkPos, plan.walk) \in Image
  /\ pc = "mark2" => pend = << >>
TailOK(at) ==
  /\ pc = "flushTail" => mode = 1 \/ plan.end = 0
  /\ pend = << TailAt(base, End1, plan.walkPos, plan.walk) >>
  /\ HeadAt(base) \in file /\ SkipAt(base, plan.end0) \in file
  /\ WalkOf(base, plan.walkPos, plan.walk) \in file
  /\ ~plan.inPlace => size = base + End1
  /\ plan.inPlace => /\ size = base + plan.end
                     /\ TailAt(base, End1, at, plan.old) \in file
                     /\ WalkOf(base, at, plan.old) \in file
DoneOK ==
  /\ mode = 1 \/ plan.end = 0
  /\ pc = "header" => pend = << >>
  /\ pc # "header" => pend = << HeadAt(base) >>
  /\ HeadAt(base) \in file /\ SkipAt(base, plan.end0) \in file
  /\ TailAt(base, End1, plan.walkPos, plan.walk) \in file
  /\ WalkOf(base, plan.walkPos, plan.walk) \in file
  /\ size = base + End2

Skipping == {"skip", "flushSkip"}
Writing  == {"head", "mark1", "reserve", "cols", "walk", "flushData", "mark2"}
RecoverOK(at) ==
  IF pc \in Skipping THEN SkipOK(at)
  ELSE IF pc \in Writing THEN WritingOK(at)
  ELSE IF TailIsPending THEN TailOK(at) ELSE DoneOK

BusyOK(at) == LayOK(at) /\ FreshOK(at) /\ SpaceOK /\ ColsOK /\ SavedOK /\ RecoverOK(at)

\* The invariant: as long as no write and no flush has failed.
SoundOK == ~failure /\ FileOK /\ \E at \in Nat : IF pc = "idle" THEN IdleOK(at) ELSE BusyOK(at)
IInv == Healthy => SoundOK

----------------------------------------------------------------------------
\* The marks of a version, and its walk: where they are.
LEMMA HeadIs ==
  ASSUME NEW b \in Nat
  PROVE  /\ HeadAt(b).at = b /\ HeadAt(b).len = Mark /\ HeadAt(b).what = HeadMark
         /\ End(HeadAt(b)) = b + Mark /\ HeadMark.kind = "head"
BY DatafileAssumption DEF HeadAt, Extent, End, HeadMark

\* The skip mark of a version.
LEMMA SkipIs ==
  ASSUME NEW b \in Nat, NEW p \in Nat
  PROVE  /\ SkipAt(b, p).at = b + p /\ SkipAt(b, p).len = Mark
         /\ SkipAt(b, p).what = SkipMark(p) /\ End(SkipAt(b, p)) = b + p + Mark
         /\ SkipMark(p).kind = "skip" /\ SkipMark(p).off = p
BY DatafileAssumption DEF SkipAt, Extent, End, SkipMark

\* Extents one after the other do not overlap.
LEMMA InOrder ==
  ASSUME NEW x, NEW y, x.at \in Int, y.at \in Int, End(x) \in Int, End(y) \in Int,
         End(x) <= y.at \/ End(y) <= x.at
  PROVE  ~Overlap(x, y)
BY DEF Overlap

\* A write leaves what it spares.
LEMMA WriteKeeps ==
  ASSUME TInv, NEW x \in Exts, WriteDone(x)
  PROVE  /\ \A y \in Kept : Spares(x, y) => y \in Kept'
         /\ \A y \in Image : Spares(x, y) => y \in Image'
         /\ x \in Image'
<1>1. pend' = Append(pend, x) /\ file' = file /\ Image' = Written(Image, x)
  BY DEF WriteDone
<1>2. pend \in Seq(Exts) /\ Image \in SUBSET Exts
  BY ImageIs DEF TInv, FileTyped
<1>3. \A y \in Kept : Spares(x, y) => y \in Kept'
  <2>1. SUFFICES ASSUME NEW y \in Kept, Spares(x, y) PROVE y \in Kept'
    OBVIOUS
  <2>2. \A i \in DOMAIN pend' : pend'[i] = x \/ (i \in DOMAIN pend /\ pend'[i] = pend[i])
    BY <1>1, <1>2
  <2>3. \A i \in DOMAIN pend' : Spares(pend'[i], y)
    BY <2>1, <2>2 DEF Kept
  <2> QED BY <1>1, <2>1, <2>3 DEF Kept
<1>4. x \in Written(Image, x) /\ \A y \in Image : ~Overlap(x, y) => y \in Written(Image, x)
  BY <1>2, WrittenIs
<1> QED BY <1>1, <1>3, <1>4 DEF Spares

\* What stays in the file is there after a crash, and after a flush.
LEMMA KeptSurvives ==
  ASSUME TInv, NEW fate, Possible(pend, fate)
  PROVE  \A y \in Kept : y \in FileAfter(file, pend, fate)
<1>1. file \in SUBSET Exts /\ pend \in Seq(Exts)
  BY DEF TInv, FileTyped
<1> QED BY <1>1, SparedSurvives DEF Kept

\* What no pending write destroys is what the process sees.
LEMMA KeptInImage ==
  ASSUME TInv
  PROVE  \A y \in Kept : y \in Image
<1>1. Possible(pend, AllDone(pend))
  BY DoneIsPossible DEF TInv, FileTyped
<1> QED BY <1>1, KeptSurvives DEF Image

\* A flush loses nothing of what the process sees.
LEMMA FlushKeeps ==
  ASSUME TInv, FlushDone
  PROVE  \A y \in Image : y \in Image' /\ y \in file' /\ y \in Kept'
<1>1. file' = Image /\ pend' = << >> /\ Image' = Image
  BY DEF FlushDone
<1>2. \A i \in DOMAIN << >> : FALSE
  OBVIOUS
<1>3. \A y \in Image : \A i \in DOMAIN pend' : Spares(pend'[i], y)
  BY <1>1, <1>2
<1> QED BY <1>1, <1>3 DEF Kept

\* Without writes that are pending the process sees the file.
LEMMA ImageIsFile ==
  ASSUME TInv, pend = << >>
  PROVE  Image = file /\ FileSize = size /\ Kept = file
<1>1. file \in SUBSET Exts /\ size \in Nat /\ << >> \in Seq(Exts)
  BY DEF TInv, FileTyped
<1>2. AllDone(<< >>) \in FatesOf(<< >>)
  BY <1>1, DoneIsPossible
<1>3. Image = file /\ FileSize = size
  BY <1>1, <1>2, NothingPending DEF Image, FileSize
<1>4. \A i \in DOMAIN << >> : FALSE
  OBVIOUS
<1>5. \A y \in file : \A i \in DOMAIN pend : Spares(pend[i], y)
  BY <1>4
<1> QED BY <1>3, <1>5 DEF Kept

----------------------------------------------------------------------------
\* What the columns contain, and what was saved, while writes are pending.
LEMMA MissedByWrite ==
  ASSUME TInv, NEW x \in Exts, WriteDone(x), NEW loc, loc.len \in Nat, loc.pos \in Nat,
         loc.len > 0 => Misses(x, base + loc.pos, loc.len)
  PROVE  ContentAt(Image', base, loc) = ContentAt(Image, base, loc)
<1>1. Image' = Written(Image, x)
  BY DEF WriteDone
<1>2. Image \in SUBSET Exts /\ Disjoint(Image) /\ base \in Nat
  BY ImageIs DEF TInv, MemTyped
<1>3. /\ Written(Image, x) \in SUBSET Exts /\ Disjoint(Written(Image, x))
      /\ \A y \in Image : ~Overlap(x, y) => y \in Written(Image, x)
      /\ \A y \in Written(Image, x) : y = x \/ y \in Image
  BY <1>2, WrittenIs
<1>4. ASSUME loc.len > 0, NEW y, y.at = base + loc.pos, y.len = loc.len
      PROVE  y \in Image <=> y \in Written(Image, x)
  <2>1. Misses(x, y.at, y.len) /\ y.at \in Nat /\ y.len \in Nat /\ y.len > 0
    BY <1>2, <1>4
  <2>2. x.at \in Nat /\ x.len \in Nat /\ x.len > 0
    BY DEF Exts
  <2>3. ~Overlap(x, y) /\ y # x
    BY <2>1, <2>2 DEF Misses, Apart, Overlap, End
  <2> QED BY <1>3, <2>3
<1> QED BY <1>1, <1>2, <1>3, <1>4, SameContent

\* Whatever becomes of the writes, the version last committed can be read.
LEMMA SavedStays ==
  ASSUME TInv, SavedOK, NEW fate \in FatesOf(pend)
  PROVE  ContentsOf(FileAfter(file, pend, fate), base, plan.old) = saved
<1> DEFINE f == FileAfter(file, pend, fate)
<1>1. /\ file \in SUBSET Exts /\ Disjoint(file) /\ pend \in Seq(Exts) /\ base \in Nat
      /\ plan.old \in Maps
  BY DEF TInv, FileTyped, MemTyped, PlanTyped, Plans
<1>2. f \in SUBSET Exts /\ Disjoint(f)
  BY <1>1, FileAfterIs
<1>3. ASSUME NEW c \in Cols PROVE ContentAt(file, base, plan.old[c]) = ContentAt(f, base, plan.old[c])
  <2> DEFINE loc == plan.old[c]
  <2>1. loc.len \in Nat /\ loc.pos \in Nat
    BY <1>1 DEF Maps, Walks
  <2>2. loc.len > 0 => \A i \in DOMAIN pend : Misses(pend[i], base + loc.pos, loc.len)
    BY DEF SavedOK
  <2> HIDE DEF loc
  <2>3. ASSUME loc.len > 0, NEW x, x.at = base + loc.pos, x.len = loc.len
        PROVE  x \in file <=> x \in f
    <3> DEFINE at == base + loc.pos
               len == loc.len
    <3>1. /\ at \in Int /\ len \in Nat /\ len > 0 /\ x.at = at /\ x.len = len
          /\ \A i \in DOMAIN pend : Misses(pend[i], at, len)
      BY <1>1, <2>1, <2>2, <2>3
    <3> HIDE DEF at, len
    <3> QED BY <1>1, <3>1, MissedStays
  <2> HIDE DEF f
  <2>4. ContentAt(file, base, loc) = ContentAt(f, base, loc)
    BY <1>1, <1>2, <2>3, SameContent
  <2> QED BY <2>4 DEF loc
<1>4. saved = ContentsOf(file, base, plan.old)
  BY DEF SavedOK
<1> HIDE DEF f
<1>5. ContentsOf(f, base, plan.old) = saved
  BY <1>3, <1>4 DEF ContentsOf
<1> QED BY <1>5 DEF f

\* What is kept of the old version is read in the buffer too.
LEMMA SavedInImage ==
  ASSUME TInv, SavedOK
  PROVE  ContentsOf(Image, base, plan.old) = saved
BY SavedStays, DoneIsPossible DEF Image, TInv, FileTyped

\* A write after the base that misses the columns of the version last committed.
LEMMA WriteKeepsFile ==
  ASSUME TInv, FileOK, SavedOK, NEW x \in Exts, WriteDone(x),
         base' = base, saved' = saved, plan'.old = plan.old, x.at >= base,
         \A c \in Cols : plan.old[c].len > 0 => Misses(x, base + plan.old[c].pos, plan.old[c].len)
  PROVE  FileOK' /\ SavedOK'
<1>1. pend' = Append(pend, x) /\ file' = file /\ size' = size
  BY DEF WriteDone
<1>2. pend \in Seq(Exts)
  BY DEF TInv, FileTyped
<1>3. \A i \in DOMAIN pend' : pend'[i] = x \/ (i \in DOMAIN pend /\ pend'[i] = pend[i])
  BY <1>1, <1>2
<1>4. FileOK'
  BY <1>1, <1>3 DEF FileOK
<1>5. SavedOK'
  BY <1>1, <1>3 DEF SavedOK
<1> QED BY <1>4, <1>5

\* A flush.
LEMMA FlushKeepsFile ==
  ASSUME TInv, FileOK, FlushDone, base' = base
  PROVE  FileOK'
<1>1. file' = Image /\ size' = FileSize /\ pend' = << >>
  BY DEF FlushDone
<1>2. /\ file \in SUBSET Exts /\ size \in Nat /\ pend \in Seq(Exts) /\ base \in Nat
      /\ AllDone(pend) \in FatesOf(pend)
  BY DoneIsPossible DEF TInv, FileTyped, MemTyped
<1>3. /\ Image \in SUBSET Exts
      /\ \A e \in Image : e \in file \/ \E i \in DOMAIN pend : e = pend[i]
  BY <1>2, FileAfterIs DEF Image
<1>4. \A e \in Image : e.at < base => e \in file
  <2>1. \A i \in DOMAIN pend : pend[i] \in Exts /\ pend[i].at >= base
    BY <1>2 DEF FileOK
  <2>2. \A i \in DOMAIN pend : ~(pend[i].at < base)
    BY <1>2, <2>1 DEF Exts
  <2> QED BY <1>3, <2>2
<1>5. Dead(Image, base)
  BY <1>2, <1>3, <1>4, DeadStays DEF FileOK
<1>6. size <= FileSize /\ FileSize \in Nat /\ \A e \in Image : End(e) <= FileSize
  BY <1>2, SizeAfterIs DEF FileOK, Image, FileSize
<1>7. base <= FileSize
  BY <1>2, <1>6 DEF FileOK
<1>8. \A i \in DOMAIN << >> : FALSE
  OBVIOUS
<1>9. \A i \in DOMAIN pend' : pend'[i].at >= base'
  BY <1>1, <1>8
<1> QED BY <1>1, <1>5, <1>6, <1>7, <1>9 DEF FileOK

\* A flush keeps the old version.
LEMMA FlushKeepsSaved ==
  ASSUME TInv, SavedOK, FlushDone, base' = base, saved' = saved, plan'.old = plan.old
  PROVE  SavedOK'
<1>1. file' = Image /\ pend' = << >>
  BY DEF FlushDone
<1>2. ContentsOf(Image, base, plan.old) = saved
  BY SavedInImage
<1>3. \A i \in DOMAIN << >> : FALSE
  OBVIOUS
<1>4. \A i \in DOMAIN pend' : FALSE
  BY <1>1, <1>3
<1>5. saved' = ContentsOf(file', base', plan'.old)
  BY <1>1, <1>2
<1> QED BY <1>4, <1>5 DEF SavedOK

\* The steps that leave the columns alone.
LEMMA WriteKeepsCols ==
  ASSUME TInv, ColsOK, NEW x \in Exts, WriteDone(x),
         base' = base, col' = col, attempt' = attempt, plan' = plan,
         pc # "cols", pc' \in Early <=> pc \in Early,
         \A c \in Cols : ~col[c].dirty /\ plan.walk[c].len > 0 =>
           Misses(x, base + plan.walk[c].pos, plan.walk[c].len)
  PROVE  ColsOK'
<1>1. ASSUME NEW c \in Cols, ~col[c].dirty
      PROVE  ContentAt(Image', base, plan.walk[c]) = ContentAt(Image, base, plan.walk[c])
  <2>1. plan.walk[c].len \in Nat /\ plan.walk[c].pos \in Nat
    BY DEF TInv, PlanTyped, Plans, Maps, Walks
  <2>2. plan.walk[c].len > 0 => Misses(x, base + plan.walk[c].pos, plan.walk[c].len)
    BY <1>1
  <2> QED BY <2>1, <2>2, MissedByWrite
<1> QED BY <1>1 DEF ColsOK

\* A flush keeps the columns of the new version that are written.
LEMMA FlushKeepsCols ==
  ASSUME TInv, ColsOK, FlushDone, base' = base, col' = col, attempt' = attempt, plan' = plan,
         pc # "cols", pc' \in Early <=> pc \in Early
  PROVE  ColsOK'
<1>1. Image' = Image
  BY DEF FlushDone
<1> QED BY <1>1 DEF ColsOK

----------------------------------------------------------------------------
\* Where the columns and walks of the two versions are.
LEMMA Places ==
  ASSUME TInv, pc # "idle", NEW at \in Nat, LayOK(at)
  PROVE  /\ \A c \in Cols : /\ plan.old[c].len \in Nat /\ plan.old[c].pos \in Nat
                            /\ plan.walk[c].len \in Nat /\ plan.walk[c].pos \in Nat
         /\ \A c \in Cols : plan.old[c].len > 0 =>
              /\ plan.end > 0 /\ Mark <= plan.old[c].pos
              /\ plan.old[c].pos + plan.old[c].len <= plan.end - 2 * Mark
         /\ \A c \in Cols : plan.walk[c].len > 0 =>
              Mark <= plan.walk[c].pos /\ plan.walk[c].pos + plan.walk[c].len <= plan.end0
         /\ WalkLen(plan.old) \in Nat /\ WalkLen(plan.old) >= 3
         /\ plan.end > 0 => Mark <= at /\ at + WalkLen(plan.old) <= plan.end - 2 * Mark
         /\ Mark <= plan.walkPos /\ plan.walkPos + WalkLen(plan.walk) <= plan.end0
         /\ plan.end0 >= plan.end - 2 * Mark
<1>1. /\ Mark \in Nat /\ Mark > 1 /\ plan.end \in Nat /\ plan.limit \in Nat /\ plan.end0 \in Nat
      /\ plan.walk \in Maps /\ plan.old \in Maps
      /\ WalkLen(plan.walk) \in Nat /\ WalkLen(plan.walk) >= 3
  BY PlanFacts
<1>2. \A c \in Cols : /\ plan.old[c].len \in Nat /\ plan.old[c].pos \in Nat
                      /\ plan.walk[c].len \in Nat /\ plan.walk[c].pos \in Nat
  BY <1>1 DEF Maps, Walks
<1>3. WalkLen(plan.old) \in Nat /\ WalkLen(plan.old) >= 3
  BY <1>1, WalkLenIs
<1>4. 0 \in Blocks /\ 0 \notin Cols /\ \A c \in Cols : c \in Blocks /\ c # 0
  BY DatafileAssumption DEF Blocks, Cols
<1>5. /\ Laid(plan.walk, plan.walkPos, plan.end0)
      /\ plan.end = 0 => plan.old = EmptyWalk
      /\ plan.end > 0 => Laid(plan.old, at, plan.end - 2 * Mark)
      /\ ~plan.inPlace /\ plan.end > 0 => plan.end + Mark <= plan.limit
  BY DEF LayOK
<1>6. \A c \in Cols : plan.walk[c].len > 0 =>
        Mark <= plan.walk[c].pos /\ plan.walk[c].pos + plan.walk[c].len <= plan.end0
  BY <1>4, <1>5 DEF Laid, Block
<1>7. Mark <= plan.walkPos /\ plan.walkPos + WalkLen(plan.walk) <= plan.end0
  BY <1>1, <1>4, <1>5 DEF Laid, Block, Location
<1>8. plan.end > 0 => Mark <= at /\ at + WalkLen(plan.old) <= plan.end - 2 * Mark
  BY <1>3, <1>4, <1>5 DEF Laid, Block, Location
<1>9. \A c \in Cols : plan.old[c].len > 0 =>
        /\ plan.end > 0 /\ Mark <= plan.old[c].pos
        /\ plan.old[c].pos + plan.old[c].len <= plan.end - 2 * Mark
  <2>1. SUFFICES ASSUME NEW c \in Cols, plan.old[c].len > 0
                 PROVE  /\ plan.end > 0 /\ Mark <= plan.old[c].pos
                        /\ plan.old[c].pos + plan.old[c].len <= plan.end - 2 * Mark
    OBVIOUS
  <2>2. plan.end > 0
    BY <1>1, <1>5, <2>1, EmptyWalkIs
  <2> QED BY <1>4, <1>5, <2>1, <2>2 DEF Laid, Block
<1>10. plan.end0 >= plan.end - 2 * Mark
  <2>1. /\ plan.inPlace => plan.end0 = plan.end - 2 * Mark
        /\ ~plan.inPlace => plan.end0 = plan.limit
    BY DEF TInv, PlanTyped
  <2> QED BY <1>1, <1>5, <2>1
<1> QED BY <1>2, <1>3, <1>6, <1>7, <1>8, <1>9, <1>10

\* A mark is written before the columns or after them.
LEMMA MarkMisses ==
  ASSUME TInv, pc # "idle", NEW at \in Nat, LayOK(at),
         NEW p \in Nat, NEW x, x.at = base + p, x.len = Mark
  PROVE  /\ p = 0 \/ p >= plan.end - 2 * Mark =>
              \A c \in Cols : plan.old[c].len > 0 =>
                Misses(x, base + plan.old[c].pos, plan.old[c].len)
         /\ p = 0 \/ p >= plan.end0 =>
              \A c \in Cols : plan.walk[c].len > 0 =>
                Misses(x, base + plan.walk[c].pos, plan.walk[c].len)
<1>1. Mark \in Nat /\ base \in Nat /\ plan.end \in Nat /\ plan.end0 \in Nat
  BY PlanFacts
<1>2. ASSUME p = 0 \/ p >= plan.end - 2 * Mark, NEW c \in Cols, plan.old[c].len > 0
      PROVE  Misses(x, base + plan.old[c].pos, plan.old[c].len)
  BY <1>1, <1>2, Places DEF Misses, Apart
<1>3. ASSUME p = 0 \/ p >= plan.end0, NEW c \in Cols, plan.walk[c].len > 0
      PROVE  Misses(x, base + plan.walk[c].pos, plan.walk[c].len)
  BY <1>1, <1>3, Places DEF Misses, Apart
<1> QED BY <1>2, <1>3

\* The steps of a commit that leave the memory and the plan alone.
SameMemory ==
  /\ mode' = mode /\ base' = base /\ col' = col /\ known' = known /\ rootWalk' = rootWalk
  /\ attempt' = attempt /\ saved' = saved /\ plan' = plan

\* What was decided stays so while neither the plan nor the memory changes.
LEMMA PlanStays ==
  ASSUME SameMemory, NEW at \in Nat, LayOK(at), FreshOK(at), SpaceOK,
         pc' \in Early <=> pc \in Early
  PROVE  LayOK(at)' /\ FreshOK(at)' /\ SpaceOK'
<1>1. LayOK(at)'
  BY DEF SameMemory, LayOK
<1>2. FreshOK(at)'
  BY DEF SameMemory, FreshOK
<1>3. SpaceOK'
  <2>1. End2' = End2
    BY DEF SameMemory, End2
  <2> QED BY <2>1 DEF SameMemory, SpaceOK, NextOK
<1> QED BY <1>1, <1>2, <1>3

\* A write of a commit that is apart from the old version, and from the columns of
\* the new one that are in the file, keeps all but what a crash would find.
LEMMA BusyWrites ==
  ASSUME TInv, SameMemory, FileOK, ~failure, NEW at \in Nat, BusyOK(at), pc \notin {"idle", "cols"},
         pc' \in Early <=> pc \in Early, NEW x \in Exts, WriteDone(x), x.at >= base,
         \A c \in Cols : plan.old[c].len > 0 => Misses(x, base + plan.old[c].pos, plan.old[c].len),
         \A c \in Cols : ~col[c].dirty /\ plan.walk[c].len > 0 =>
           Misses(x, base + plan.walk[c].pos, plan.walk[c].len),
         RecoverOK(at)'
  PROVE  ~failure' /\ FileOK' /\ BusyOK(at)'
<1>1. LayOK(at)' /\ FreshOK(at)' /\ SpaceOK'
  BY PlanStays DEF BusyOK
<1>2. base' = base /\ saved' = saved /\ col' = col /\ attempt' = attempt /\ plan' = plan
  BY DEF SameMemory
<1>3. FileOK' /\ SavedOK'
  BY <1>2, WriteKeepsFile DEF BusyOK
<1>4. ColsOK'
  BY <1>2, WriteKeepsCols DEF BusyOK
<1>5. failure' = failure
  BY DEF WriteDone
<1> QED BY <1>1, <1>3, <1>4, <1>5 DEF BusyOK

\* So does a flush.
LEMMA BusyFlushes ==
  ASSUME TInv, SameMemory, FileOK, ~failure, NEW at \in Nat, BusyOK(at), pc \notin {"idle", "cols"},
         pc' \in Early <=> pc \in Early, FlushDone, RecoverOK(at)'
  PROVE  ~failure' /\ FileOK' /\ BusyOK(at)'
<1>1. LayOK(at)' /\ FreshOK(at)' /\ SpaceOK'
  BY PlanStays DEF BusyOK
<1>2. base' = base /\ saved' = saved /\ col' = col /\ attempt' = attempt /\ plan' = plan
  BY DEF SameMemory
<1>3. FileOK' /\ SavedOK'
  BY <1>2, FlushKeepsFile, FlushKeepsSaved DEF BusyOK
<1>4. ColsOK'
  BY <1>2, FlushKeepsCols DEF BusyOK
<1>5. failure' = failure
  BY DEF FlushDone
<1> QED BY <1>1, <1>3, <1>4, <1>5 DEF BusyOK

----------------------------------------------------------------------------
\* The steps of a commit, one by one.  No write fails when there is no failure
\* afterwards.
LEMMA HealthyStep ==
  ASSUME TInv, Healthy', Failed
  PROVE  FALSE
BY DEF TInv, UsedTyped, Healthy, Failed

\* Without an I/O error a write is done.
LEMMA HealthyWrite ==
  ASSUME TInv, UNCHANGED mode, base' = base, NEW pos \in Int, NEW len \in Nat, len > 0,
         NEW what \in Whats, DataWrite(pos, len, what), base + pos >= 0,
         what.kind = "skip" => what.off <= base + pos, Healthy'
  PROVE  WriteDone(Extent(base + pos, len, what)) /\ Extent(base + pos, len, what) \in Exts
<1>1. WriteDone(Extent(base + pos, len, what))
  BY StepWrites, HealthyStep
<1> DEFINE at == base + pos
<1>2. at \in Nat
  BY DEF TInv, MemTyped
<1> HIDE DEF at
<1>3. Extent(at, len, what) \in Exts
  BY <1>2, ExtentIs
<1> QED BY <1>1, <1>3 DEF at

\* Without an I/O error a flush is done.
LEMMA HealthyFlush ==
  ASSUME TInv, UNCHANGED mode, DataCommit, Healthy'
  PROVE  FlushDone
BY StepFlushes, HealthyStep

\* The file as the process sees it, with one write pending.
LEMMA OneDone ==
  ASSUME TInv, NEW x \in Exts, pend = <<x>>
  PROVE  Image = Written(file, x) /\ FileSize = Longest(size, x) /\ x \in Image
<1>1. file \in SUBSET Exts /\ size \in Nat /\ AllDone(pend) \in FatesOf(pend)
  BY DoneIsPossible DEF TInv, FileTyped
<1>2. AllDone(pend)[1] = "done"
  BY DEF AllDone
<1>3. /\ Image = Survive(file, x, AllDone(pend)[1])
      /\ FileSize = IF AllDone(pend)[1] = "lost" THEN size ELSE Longest(size, x)
  BY <1>1, OnePending DEF Image, FileSize
<1>4. Image = Written(file, x)
  BY <1>2, <1>3 DEF Survive
<1>5. x \in Written(file, x)
  BY <1>1, WrittenIs
<1> QED BY <1>2, <1>3, <1>4, <1>5

\* The skip tail is written behind everything there is.
LEMMA WriteSkipKeeps ==
  ASSUME TInv, UNCHANGED mode, FileOK, ~failure, NEW at \in Nat, BusyOK(at), WriteSkip, Healthy'
  PROVE  ~failure' /\ FileOK' /\ pc' # "idle" /\ BusyOK(at)'
<1> DEFINE x == SkipAt(base, plan.limit)
<1>1. /\ pc = "skip" /\ DataWrite(plan.limit, Mark, SkipMark(plan.limit))
      /\ pc' = "flushSkip" /\ SameMemory
  BY DEF WriteSkip, Continue, memvars, SameMemory
<1>2. /\ Mark \in Nat /\ Mark > 1 /\ plan.limit \in Nat /\ plan.limit > Mark + 3 /\ base \in Nat
      /\ plan.end \in Nat /\ plan.end0 = plan.limit
  BY <1>1, PlanFacts DEF TInv, PlanTyped
<1>3. SkipMark(plan.limit) \in Whats /\ SkipMark(plan.limit).off = plan.limit
  BY <1>2, WhatIs DEF SkipMark
<1>4. WriteDone(x) /\ x \in Exts
  BY <1>1, <1>2, <1>3, HealthyWrite DEF SameMemory, SkipAt
<1>5. x.at = base + plan.limit /\ x.len = Mark
  BY <1>2, SkipIs
<1> HIDE DEF x
<1>6. plan.limit >= plan.end - 2 * Mark
  BY <1>1, <1>2, Places DEF BusyOK
<1>7. SkipOK(at)
  BY <1>1 DEF BusyOK, RecoverOK, Skipping
<1>8. RecoverOK(at)'
  <2>1. pend = << >>
    BY <1>1, <1>7 DEF SkipOK
  <2>2. pend' = << x >> /\ file' = file /\ size' = size
    BY <1>4, <2>1 DEF WriteDone
  <2>3. SkipOK(at)'
    BY <1>1, <1>7, <2>2 DEF SkipOK, SameMemory, x
  <2> QED BY <1>1, <2>3 DEF RecoverOK, Skipping
<1>9. /\ \A c \in Cols : plan.old[c].len > 0 => Misses(x, base + plan.old[c].pos, plan.old[c].len)
      /\ \A c \in Cols : plan.walk[c].len > 0 => Misses(x, base + plan.walk[c].pos, plan.walk[c].len)
  BY <1>1, <1>2, <1>5, <1>6, MarkMisses DEF BusyOK
<1>10. x.at >= base
  BY <1>2, <1>5
<1> QED BY <1>1, <1>4, <1>8, <1>9, <1>10, BusyWrites DEF Early

\* The skip tail is in the file: a crash finds the old version past it, or nothing.
LEMMA FlushSkipKeeps ==
  ASSUME TInv, UNCHANGED mode, FileOK, ~failure, NEW at \in Nat, BusyOK(at), FlushSkip, Healthy'
  PROVE  ~failure' /\ FileOK' /\ pc' # "idle" /\ BusyOK(at)'
<1> DEFINE x == SkipAt(base, plan.limit)
<1>1. pc = "flushSkip" /\ DataCommit
  BY DEF FlushSkip
<1>2. FlushDone
  BY <1>1, HealthyFlush
<1>3. ~failure'
  BY <1>2 DEF FlushDone
<1>4. pc' = "head" /\ SameMemory
  BY <1>3 DEF FlushSkip, Continue, memvars, SameMemory
<1>5. /\ Mark \in Nat /\ Mark > 1 /\ plan.limit \in Nat /\ plan.limit > Mark + 3 /\ base \in Nat
      /\ plan.end \in Nat /\ plan.end0 = plan.limit /\ ~plan.inPlace /\ End1 = plan.limit + Mark
      /\ plan.end > 0 => plan.end + Mark <= plan.limit
  BY <1>1, PlanFacts DEF TInv, PlanTyped, BusyOK, LayOK
<1>6. /\ Version(file, base, plan.end, plan.old, at) /\ size = base + plan.end
      /\ pend = <<x>>
  BY <1>1 DEF BusyOK, RecoverOK, Skipping, SkipOK
<1>7. x \in Exts /\ x.at = base + plan.limit /\ x.len = Mark /\ End(x) = base + plan.limit + Mark
  <2>1. pend \in Seq(Exts)
    BY DEF TInv, FileTyped
  <2>2. x \in Exts
    BY <1>6, <2>1
  <2> QED BY <1>5, <2>2, SkipIs
<1> HIDE DEF x
<1>8. x \in Kept' /\ size' = base + End1
  <2>1. x \in Image /\ FileSize = Longest(size, x)
    BY <1>6, <1>7, OneDone
  <2>2. FileSize = base + End1
    BY <1>5, <1>6, <1>7, <2>1 DEF Longest
  <2> QED BY <1>2, <2>1, <2>2, FlushKeeps DEF FlushDone
<1>9. plan.end > 0 => HeadAt(base) \in Kept'
  <2>1. SUFFICES ASSUME plan.end > 0 PROVE HeadAt(base) \in Kept'
    OBVIOUS
  <2>2. HeadAt(base) \in file
    BY <1>6, <2>1 DEF Version
  <2>3. HeadAt(base).at = base /\ End(HeadAt(base)) = base + Mark
    BY <1>5, HeadIs
  <2>4. ~Overlap(x, HeadAt(base))
    BY <1>5, <1>7, <2>3, InOrder
  <2>5. \A i \in DOMAIN pend : Spares(pend[i], HeadAt(base))
    BY <1>6, <2>4 DEF Spares
  <2> QED BY <1>2, <2>2, <2>5, KeptInImage, FlushKeeps DEF Kept
<1>10. RecoverOK(at)'
  <2>1. pend' = << >>
    BY <1>2 DEF FlushDone
  <2>2. \A i \in DOMAIN << >> : FALSE
    OBVIOUS
  <2>3. \A i \in DOMAIN pend' : End(pend'[i]) <= size'
    BY <2>1, <2>2
  <2>4. End1' = End1
    BY <1>4 DEF End1, SameMemory
  <2>5. WritingOK(at)'
    BY <1>4, <1>5, <1>8, <1>9, <2>3, <2>4 DEF WritingOK, MarksOK, SameMemory, x
  <2> QED BY <1>4, <2>5 DEF RecoverOK, Skipping, Writing
<1> QED BY <1>1, <1>2, <1>4, <1>10, BusyFlushes DEF Early

\* What a write does not touch while the columns are written.
LEMMA MarksStay ==
  ASSUME TInv, NEW at \in Nat, MarksOK(at), base' = base,
         plan'.end = plan.end, plan'.end0 = plan.end0, plan'.inPlace = plan.inPlace,
         plan'.old = plan.old, NEW x \in Exts, WriteDone(x), End(x) <= size,
         plan.end > 0 => Spares(x, HeadAt(base)),
         Spares(x, SkipAt(base, plan.end0)),
         plan.inPlace => /\ Spares(x, TailAt(base, End1, at, plan.old))
                         /\ Spares(x, WalkOf(base, at, plan.old))
  PROVE  MarksOK(at)'
<1>1. size' = size /\ pend' = Append(pend, x)
  BY DEF WriteDone
<1>2. pend \in Seq(Exts)
  BY DEF TInv, FileTyped
<1>3. \A i \in DOMAIN pend' : pend'[i] = x \/ (i \in DOMAIN pend /\ pend'[i] = pend[i])
  BY <1>1, <1>2
<1>4. \A i \in DOMAIN pend' : End(pend'[i]) <= size'
  BY <1>1, <1>3 DEF MarksOK
<1>5. End1' = End1
  BY DEF End1
<1>6. \A y \in Kept : Spares(x, y) => y \in Kept'
  BY WriteKeeps
<1> QED BY <1>1, <1>4, <1>5, <1>6 DEF MarksOK

\* A block of the new version is after the header, and before the tails.
LEMMA BlockSpares ==
  ASSUME TInv, pc # "idle", NEW at \in Nat, LayOK(at),
         NEW p \in Nat, NEW n \in Nat, Mark <= p, p + n <= plan.end0,
         NEW x, x.at = base + p, x.len = n
  PROVE  /\ ~Overlap(x, HeadAt(base)) /\ ~Overlap(x, SkipAt(base, plan.end0))
         /\ \A w : ~Overlap(x, TailAt(base, End1, at, w))
         /\ \A w : WalkLen(w) \in Nat /\ Apart(p, n, at, WalkLen(w)) => ~Overlap(x, WalkOf(base, at, w))
         /\ End(x) <= base + plan.end0
<1>1. Mark \in Nat /\ base \in Nat /\ plan.end0 \in Nat /\ End1 = plan.end0 + Mark /\ End1 \in Nat
  BY PlanFacts
<1>2. End(x) = base + p + n
  BY <1>1 DEF End
<1>3. ~Overlap(x, HeadAt(base))
  BY <1>1, <1>2, HeadIs, InOrder
<1>4. ~Overlap(x, SkipAt(base, plan.end0))
  <2>1. /\ SkipAt(base, plan.end0).at = base + plan.end0
        /\ End(SkipAt(base, plan.end0)) = base + plan.end0 + Mark
    BY <1>1, SkipIs
  <2> QED BY <1>1, <1>2, <2>1, InOrder
<1>5. ASSUME NEW w PROVE ~Overlap(x, TailAt(base, End1, at, w))
  <2>1. /\ TailAt(base, End1, at, w).at = base + End1
        /\ End(TailAt(base, End1, at, w)) = base + End1 + Mark
    BY <1>1, DatafileAssumption DEF TailAt, Extent, End
  <2> QED BY <1>1, <1>2, <2>1, InOrder
<1>6. ASSUME NEW w, WalkLen(w) \in Nat, Apart(p, n, at, WalkLen(w))
      PROVE  ~Overlap(x, WalkOf(base, at, w))
  <2>1. /\ WalkOf(base, at, w).at = base + at
        /\ End(WalkOf(base, at, w)) = base + at + WalkLen(w)
    BY <1>1, DatafileAssumption DEF WalkOf, Extent, End
  <2>2. End(x) <= base + at \/ base + at + WalkLen(w) <= x.at
    BY <1>1, <1>2, <1>6 DEF Apart
  <2> QED BY <1>1, <1>2, <1>6, <2>1, <2>2, InOrder
<1> QED BY <1>1, <1>2, <1>3, <1>4, <1>5, <1>6

\* The header of what is added is behind the old version.
LEMMA WriteHeadKeeps ==
  ASSUME TInv, UNCHANGED mode, FileOK, ~failure, NEW at \in Nat, BusyOK(at), WriteHead, Healthy'
  PROVE  ~failure' /\ FileOK' /\ pc' # "idle" /\ BusyOK(at)'
<1> DEFINE what == IF plan.end > 0 THEN ExtendMark ELSE HeadMark
           x == Extent(base + plan.end, Mark, what)
<1>1. /\ pc = "head" /\ DataWrite(plan.end, Mark, what) /\ pc' = "mark1" /\ SameMemory
  BY DEF WriteHead, Continue, memvars, SameMemory
<1>2. /\ Mark \in Nat /\ Mark > 1 /\ base \in Nat /\ plan.end \in Nat /\ plan.end0 \in Nat
      /\ End1 = plan.end0 + Mark /\ plan.end0 = plan.limit /\ ~plan.inPlace
      /\ plan.limit > Mark + 3 /\ (plan.end = 0 \/ plan.end > 2 * Mark)
      /\ plan.end > 0 => plan.end + Mark <= plan.limit
  BY <1>1, PlanFacts DEF TInv, PlanTyped, BusyOK, LayOK
<1>3. what \in Whats /\ what.kind # "skip"
  BY WhatIs DEF ExtendMark, HeadMark
<1>4. x.at = base + plan.end /\ x.len = Mark /\ End(x) = base + plan.end + Mark
  <2> DEFINE e == base + plan.end
             y == Extent(e, Mark, what)
  <2>1. y = [at |-> e, len |-> Mark, what |-> what]
    BY DEF Extent
  <2> HIDE DEF e, what, y
  <2>2. y.at = e /\ y.len = Mark /\ End(y) = e + Mark
    BY <2>1 DEF End
  <2> QED BY <2>2 DEF e, y
<1>5. plan.end = 0 => x = HeadAt(base)
  BY <1>2 DEF HeadAt
<1>6. WriteDone(x) /\ x \in Exts
  <2> HIDE DEF what
  <2> QED BY <1>1, <1>2, <1>3, HealthyWrite DEF SameMemory
<1> HIDE DEF x
<1>7. MarksOK(at)
  BY <1>1 DEF BusyOK, RecoverOK, Skipping, Writing, WritingOK
<1>8. plan.end > 0 => Spares(x, HeadAt(base))
  <2>1. HeadAt(base).at = base /\ End(HeadAt(base)) = base + Mark
    BY <1>2, HeadIs
  <2>2. plan.end > 0 => ~Overlap(x, HeadAt(base))
    BY <1>2, <1>4, <2>1, InOrder
  <2> QED BY <2>2 DEF Spares
<1>9. Spares(x, SkipAt(base, plan.end0)) /\ End(x) <= size
  <2>1. /\ SkipAt(base, plan.end0).at = base + plan.end0
        /\ End(SkipAt(base, plan.end0)) = base + plan.end0 + Mark
    BY <1>2, SkipIs
  <2>2. End(x) <= base + plan.end0
    BY <1>2, <1>4
  <2>3. ~Overlap(x, SkipAt(base, plan.end0))
    BY <1>2, <1>4, <2>1, <2>2, InOrder
  <2>4. size = base + End1
    BY <1>2, <1>7 DEF MarksOK
  <2> QED BY <1>2, <1>4, <2>2, <2>3, <2>4 DEF Spares
<1>10. RecoverOK(at)'
  <2>1. MarksOK(at)'
    BY <1>1, <1>2, <1>6, <1>7, <1>8, <1>9, MarksStay DEF SameMemory
  <2>2. x \in Image'
    BY <1>6, WriteKeeps
  <2>3. WritingOK(at)'
    BY <1>1, <1>5, <2>1, <2>2 DEF WritingOK, SameMemory
  <2> QED BY <1>1, <2>3 DEF RecoverOK, Skipping, Writing
<1>11. \A c \in Cols : plan.old[c].len > 0 => Misses(x, base + plan.old[c].pos, plan.old[c].len)
  BY <1>1, <1>2, <1>4, MarkMisses DEF BusyOK
<1>12. \A c \in Cols : ~col[c].dirty => plan.walk[c] = plan.old[c]
  BY <1>1 DEF BusyOK, ColsOK, Early
<1>13. \A c \in Cols : ~col[c].dirty /\ plan.walk[c].len > 0 =>
         Misses(x, base + plan.walk[c].pos, plan.walk[c].len)
  BY <1>11, <1>12
<1>14. x.at >= base
  BY <1>2, <1>4
<1> QED BY <1>1, <1>6, <1>10, <1>11, <1>13, <1>14, BusyWrites DEF Early

\* The skip mark is behind the old version, or in the place of its own.
LEMMA WriteMark1Keeps ==
  ASSUME TInv, UNCHANGED mode, FileOK, ~failure, NEW at \in Nat, BusyOK(at), WriteMark1, Healthy'
  PROVE  ~failure' /\ FileOK' /\ pc' # "idle" /\ BusyOK(at)'
<1> DEFINE x == SkipAt(base, plan.end0)
<1>1. /\ pc = "mark1" /\ DataWrite(plan.end0, Mark, SkipMark(plan.end0))
      /\ pc' = "reserve" /\ SameMemory
  BY DEF WriteMark1, Continue, memvars, SameMemory
<1>2. /\ Mark \in Nat /\ Mark > 1 /\ base \in Nat /\ plan.end \in Nat /\ plan.end0 \in Nat
      /\ plan.end0 >= 1 /\ End1 = plan.end0 + Mark /\ plan.end0 = plan.limit /\ ~plan.inPlace
      /\ plan.limit > Mark + 3
  BY <1>1, PlanFacts DEF TInv, PlanTyped
<1>3. SkipMark(plan.end0) \in Whats /\ SkipMark(plan.end0).off = plan.end0
  BY <1>2, WhatIs DEF SkipMark
<1>4. x.at = base + plan.end0 /\ x.len = Mark /\ End(x) = base + plan.end0 + Mark
      /\ x.what.kind = "skip"
  <2>1. /\ x.at = base + plan.end0 /\ x.len = Mark /\ End(x) = base + plan.end0 + Mark
        /\ x.what = SkipMark(plan.end0) /\ SkipMark(plan.end0).kind = "skip"
    BY <1>2, SkipIs
  <2> QED BY <2>1
<1>5. WriteDone(x) /\ x \in Exts
  BY <1>1, <1>2, <1>3, HealthyWrite DEF SameMemory, SkipAt
<1> HIDE DEF x
<1>6. WritingOK(at)
  BY <1>1 DEF BusyOK, RecoverOK, Skipping, Writing
<1>7. Spares(x, HeadAt(base))
  <2>1. HeadAt(base).at = base /\ End(HeadAt(base)) = base + Mark
    BY <1>2, HeadIs
  <2>2. ~Overlap(x, HeadAt(base))
    BY <1>2, <1>4, <2>1, InOrder
  <2> QED BY <2>2 DEF Spares
<1>8. Spares(x, SkipAt(base, plan.end0)) /\ End(x) <= size
  <2>1. Spares(x, x)
    BY <1>4 DEF Spares
  <2>2. size = base + End1
    BY <1>2, <1>6 DEF WritingOK, MarksOK
  <2>3. End(x) <= size
    BY <1>2, <1>4, <2>2
  <2> QED BY <2>1, <2>3 DEF x
<1>9. RecoverOK(at)'
  <2>1. MarksOK(at)'
    BY <1>1, <1>2, <1>5, <1>6, <1>7, <1>8, MarksStay DEF SameMemory, WritingOK
  <2>2. plan.end = 0 => HeadAt(base) \in Image'
    BY <1>1, <1>5, <1>6, <1>7, WriteKeeps DEF WritingOK
  <2>3. WritingOK(at)'
    BY <1>1, <2>1, <2>2 DEF WritingOK, SameMemory
  <2> QED BY <1>1, <2>3 DEF RecoverOK, Skipping, Writing
<1>10. plan.end0 >= plan.end - 2 * Mark
  BY <1>1, Places DEF BusyOK
<1>11. /\ \A c \in Cols : plan.old[c].len > 0 => Misses(x, base + plan.old[c].pos, plan.old[c].len)
       /\ \A c \in Cols : plan.walk[c].len > 0 => Misses(x, base + plan.walk[c].pos, plan.walk[c].len)
  BY <1>1, <1>2, <1>4, <1>10, MarkMisses DEF BusyOK
<1>12. x.at >= base
  BY <1>2, <1>4
<1> QED BY <1>1, <1>5, <1>9, <1>11, <1>12, BusyWrites DEF Early

\* With its tails the space of the new version is what the next commit goes by.
LEMMA TailsClaimed ==
  ASSUME TInv, pc = "reserve", NEW at \in Nat, LayOK(at), NextOK
  PROVE  Claims(TailsReserved(plan.next), Cols, plan.walk, plan.walkPos, End2)
<1> DEFINE v == TailsReserved(plan.next)
           tails == Bytes(plan.end0, 2 * Mark)
           after == Bytes(plan.end0 + 2 * Mark, Mark)
<1>1. /\ Mark \in Nat /\ Mark > 1 /\ plan.end \in Nat /\ plan.limit \in Nat /\ plan.end0 \in Nat
      /\ plan.end0 >= 1 /\ plan.next \in Spaces /\ End2 = plan.end0 + 2 * Mark
  BY PlanFacts
<1>2. /\ Bytes(1, Mark - 1) \subseteq plan.next
      /\ \A c \in Blocks : BytesOf(Block(plan.walk, plan.walkPos, c)) \subseteq plan.next
      /\ \A b \in plan.next : b < plan.limit
      /\ plan.inPlace => Bytes(plan.end0, 3 * Mark) \subseteq plan.next
  BY DEF NextOK, Early
<1>3. /\ plan.inPlace => /\ plan.limit = plan.end + Mark /\ plan.end > 2 * Mark
                         /\ plan.end0 = plan.end - 2 * Mark
      /\ ~plan.inPlace => plan.end0 = plan.limit
  BY DEF LayOK, TInv, PlanTyped
<1>4. \A b \in plan.next : b \in Nat
  BY <1>1 DEF Spaces
<1>5. /\ plan.next \subseteq v /\ tails \subseteq v
      /\ after \subseteq v \/ after \cap v = {}
  <2>1. CASE plan.inPlace
    <3>1. Released(plan.next, plan.end, Mark) = plan.next
      <4>1. plan.end - 1 \in Bytes(plan.end0, 3 * Mark)
        BY <1>1, <1>3, <2>1 DEF Bytes
      <4>2. plan.end + Mark \notin plan.next
        BY <1>1, <1>2, <1>3, <2>1
      <4> QED BY <1>1, <1>2, <2>1, <4>1, <4>2, ReleasedIs
    <3>2. tails \subseteq plan.next /\ after \subseteq plan.next
      <4>1. tails \subseteq Bytes(plan.end0, 3 * Mark) /\ after \subseteq Bytes(plan.end0, 3 * Mark)
        BY <1>1 DEF Bytes
      <4> QED BY <1>2, <2>1, <4>1
    <3>3. v = Occupied(plan.next, plan.end0, 2 * Mark)
      BY <2>1, <3>1 DEF TailsReserved
    <3>4. 2 * Mark \in Nat
      BY <1>1
    <3>5. plan.next \subseteq v
      BY <1>1, <3>3, <3>4, OccupiedIs
    <3> QED BY <3>2, <3>5
  <2>2. CASE ~plan.inPlace
    <3>1. v = Occupied(plan.next, plan.end0, 2 * Mark) /\ 2 * Mark \in Nat
      BY <1>1, <2>2 DEF TailsReserved
    <3>2. tails \cap plan.next = {} /\ after \cap plan.next = {} /\ after \cap tails = {}
      BY <1>1, <1>2, <1>3, <1>4, <2>2 DEF Bytes
    <3>3. v = plan.next \cup tails
      BY <1>1, <3>1, <3>2, OccupiedIs DEF AllOrNone
    <3> QED BY <3>2, <3>3
  <2> QED BY <2>1, <2>2
<1>6. Bytes(End2 - 2 * Mark, 2 * Mark) = tails /\ Bytes(End2, Mark) = after
  BY <1>1
<1> HIDE DEF v, tails, after
<1>7. /\ 0 \in Blocks /\ \A c \in Cols : c \in Blocks /\ c # 0
  BY DatafileAssumption DEF Blocks, Cols
<1>8. \A c \in Cols : BytesOf(plan.walk[c]) \subseteq v
  BY <1>2, <1>5, <1>7 DEF Block
<1>9. Bytes(plan.walkPos, WalkLen(plan.walk)) \subseteq v
  <2>1. BytesOf(Block(plan.walk, plan.walkPos, 0)) = Bytes(plan.walkPos, WalkLen(plan.walk))
    BY DEF Block, BytesOf, Location
  <2> QED BY <1>2, <1>5, <1>7, <2>1
<1>10. Claims(v, Cols, plan.walk, plan.walkPos, End2)
  BY <1>2, <1>5, <1>6, <1>8, <1>9 DEF Claims, AllOrNone
<1> QED BY <1>10 DEF v

\* The space of the new tails is claimed before anything else is written.
LEMMA ReserveTailsKeeps ==
  ASSUME TInv, UNCHANGED mode, FileOK, ~failure, NEW at \in Nat, BusyOK(at), ReserveTails, Healthy'
  PROVE  ~failure' /\ FileOK' /\ pc' # "idle" /\ BusyOK(at)'
<1>1. /\ pc = "reserve" /\ pc' = "cols" /\ mode' = mode
      /\ plan' = [plan EXCEPT !.next = TailsReserved(plan.next)]
      /\ file' = file /\ size' = size /\ pend' = pend /\ failure' = failure /\ base' = base
      /\ col' = col /\ known' = known /\ rootWalk' = rootWalk
      /\ saved' = saved /\ attempt' = attempt /\ used' = used
  BY DEF ReserveTails, filevars
<1>2. plan \in Plans
  BY DEF TInv, PlanTyped
<1>3. /\ plan'.next = TailsReserved(plan.next)
      /\ plan'.end = plan.end /\ plan'.limit = plan.limit /\ plan'.inPlace = plan.inPlace
      /\ plan'.end0 = plan.end0 /\ plan'.walk = plan.walk /\ plan'.walkPos = plan.walkPos
      /\ plan'.old = plan.old /\ plan'.k = plan.k
  BY <1>1, <1>2 DEF Plans
<1>4. /\ LayOK(at) /\ FreshOK(at) /\ SpaceOK /\ ColsOK /\ SavedOK /\ WritingOK(at)
  BY <1>1 DEF BusyOK, RecoverOK, Skipping, Writing
<1>5. Image' = Image /\ Kept' = Kept /\ End1' = End1 /\ End2' = End2
  BY <1>1, <1>3 DEF Image, Kept, End1, End2
<1>6. FileOK' /\ SavedOK' /\ LayOK(at)' /\ FreshOK(at)'
  BY <1>1, <1>3, <1>4 DEF FileOK, SavedOK, LayOK, FreshOK
<1>7. SpaceOK'
  <2>1. mode = 1 => known = Cols /\ NextOK
    BY <1>4 DEF SpaceOK
  <2>2. mode = 1 => Claims(TailsReserved(plan.next), Cols, plan.walk, plan.walkPos, End2)
    BY <1>1, <1>4, <2>1, TailsClaimed
  <2>3. mode = 1 => NextOK'
    BY <1>1, <1>3, <1>5, <2>2 DEF NextOK, Early
  <2> QED BY <1>1, <1>3, <1>4, <2>1, <2>3 DEF SpaceOK
<1>8. ColsOK'
  <2>1. plan.k = 1
    BY <1>1 DEF TInv, PlanTyped, Early
  <2>2. \A c \in Cols : 1 <= c
    BY DEF Cols
  <2> QED BY <1>1, <1>3, <1>4, <1>5, <2>1, <2>2 DEF ColsOK, Early
<1>9. RecoverOK(at)'
  <2>1. MarksOK(at)'
    BY <1>1, <1>3, <1>4, <1>5 DEF WritingOK, MarksOK
  <2>2. WritingOK(at)'
    BY <1>1, <1>3, <1>4, <1>5, <2>1 DEF WritingOK
  <2> QED BY <1>1, <2>2 DEF RecoverOK, Skipping, Writing
<1> QED BY <1>1, <1>4, <1>6, <1>7, <1>8, <1>9 DEF BusyOK

\* A block that is written is apart from all of the old version, and from the other
\* columns of the new one.
LEMMA FreshMisses ==
  ASSUME TInv, pc # "idle", NEW at \in Nat, LayOK(at), FreshOK(at),
         NEW c \in Blocks, c = 0 \/ col[c].dirty,
         NEW p, p = Block(plan.walk, plan.walkPos, c).pos,
         NEW n, n = Block(plan.walk, plan.walkPos, c).len, n > 0,
         NEW x, x.at = base + p, x.len = n
  PROVE  /\ p \in Nat /\ n \in Nat /\ Mark <= p /\ p + n <= plan.end0
         /\ plan.end > 0 => Apart(p, n, at, WalkLen(plan.old))
         /\ \A d \in Cols : plan.old[d].len > 0 =>
              Misses(x, base + plan.old[d].pos, plan.old[d].len)
         /\ \A d \in Cols : d # c /\ plan.walk[d].len > 0 =>
              Misses(x, base + plan.walk[d].pos, plan.walk[d].len)
<1>1. /\ base \in Nat /\ plan.end0 \in Nat /\ plan.walkPos \in Nat /\ WalkLen(plan.walk) \in Nat
      /\ plan.walk \in Maps
  BY PlanFacts
<1>2. \A d \in Cols : /\ plan.old[d].len \in Nat /\ plan.old[d].pos \in Nat
                      /\ plan.walk[d].len \in Nat /\ plan.walk[d].pos \in Nat
  BY Places
<1>3. 0 \in Blocks /\ 0 \notin Cols /\ \A d \in Cols : d \in Blocks /\ d # 0
  BY DatafileAssumption DEF Blocks, Cols
<1>4. \A d \in Blocks : d = 0 \/ d \in Cols
  BY DatafileAssumption DEF Blocks, Cols
<1>5. p \in Nat /\ n \in Nat
  BY <1>1, <1>2, <1>4 DEF Block, Location
<1>6. Laid(plan.walk, plan.walkPos, plan.end0)
  BY DEF LayOK
<1>7. Mark <= p /\ p + n <= plan.end0
  BY <1>6 DEF Laid
<1>8. plan.end > 0 => \A d \in Blocks : Aside(Block(plan.walk, plan.walkPos, c), Block(plan.old, at, d))
  BY DEF FreshOK
<1>9. plan.end > 0 => Apart(p, n, at, WalkLen(plan.old))
  <2>1. WalkLen(plan.old) \in Nat /\ WalkLen(plan.old) >= 3
    BY Places
  <2>2. Block(plan.old, at, 0).len = WalkLen(plan.old) /\ Block(plan.old, at, 0).pos = at
    BY DEF Block, Location
  <2> QED BY <1>3, <1>8, <2>1, <2>2 DEF Aside
<1>10. ASSUME NEW d \in Cols, plan.old[d].len > 0
       PROVE  Misses(x, base + plan.old[d].pos, plan.old[d].len)
  <2>1. plan.end > 0
    BY <1>10, Places
  <2>2. Block(plan.old, at, d) = plan.old[d]
    BY <1>3 DEF Block
  <2>3. Apart(p, n, plan.old[d].pos, plan.old[d].len)
    BY <1>3, <1>8, <1>10, <2>1, <2>2 DEF Aside
  <2> QED BY <1>1, <1>2, <1>5, <2>3 DEF Misses, Apart
<1>11. ASSUME NEW d \in Cols, d # c, plan.walk[d].len > 0
       PROVE  Misses(x, base + plan.walk[d].pos, plan.walk[d].len)
  <2>1. Block(plan.walk, plan.walkPos, d) = plan.walk[d]
    BY <1>3 DEF Block
  <2>2. Apart(p, n, plan.walk[d].pos, plan.walk[d].len)
    BY <1>3, <1>6, <1>11, <2>1 DEF Laid, Aside
  <2> QED BY <1>1, <1>2, <1>5, <2>2 DEF Misses, Apart
<1> QED BY <1>5, <1>7, <1>9, <1>10, <1>11

\* While the columns are written the marks stay, and the header that was written.
LEMMA BlockWritten ==
  ASSUME TInv, pc \in {"cols", "walk"}, NEW at \in Nat, LayOK(at), FreshOK(at), WritingOK(at),
         NEW c \in Blocks, c = 0 \/ col[c].dirty,
         NEW p, p = Block(plan.walk, plan.walkPos, c).pos,
         NEW n, n = Block(plan.walk, plan.walkPos, c).len, n > 0,
         NEW x \in Exts, x.at = base + p, x.len = n, WriteDone(x), base' = base,
         plan'.end = plan.end, plan'.end0 = plan.end0, plan'.inPlace = plan.inPlace,
         plan'.old = plan.old
  PROVE  MarksOK(at)' /\ (plan.end = 0 => HeadAt(base) \in Image')
<1>1. /\ p \in Nat /\ n \in Nat /\ Mark <= p /\ p + n <= plan.end0
      /\ plan.end > 0 => Apart(p, n, at, WalkLen(plan.old))
  BY FreshMisses
<1>2. /\ ~Overlap(x, HeadAt(base)) /\ ~Overlap(x, SkipAt(base, plan.end0))
      /\ ~Overlap(x, TailAt(base, End1, at, plan.old))
      /\ WalkLen(plan.old) \in Nat /\ Apart(p, n, at, WalkLen(plan.old)) =>
           ~Overlap(x, WalkOf(base, at, plan.old))
      /\ End(x) <= base + plan.end0
  BY <1>1, BlockSpares
<1>3. /\ Mark \in Nat /\ base \in Nat /\ plan.end \in Nat /\ plan.end0 \in Nat
      /\ End1 = plan.end0 + Mark
      /\ plan.inPlace => plan.end > 2 * Mark /\ plan.end0 = plan.end - 2 * Mark
  BY PlanFacts DEF TInv, PlanTyped
<1>4. WalkLen(plan.old) \in Nat
  BY Places
<1>5. plan.inPlace => plan.end > 0
  BY <1>3
<1>6. Spares(x, HeadAt(base)) /\ Spares(x, SkipAt(base, plan.end0))
  BY <1>2 DEF Spares
<1>7. plan.inPlace => /\ Spares(x, TailAt(base, End1, at, plan.old))
                      /\ Spares(x, WalkOf(base, at, plan.old))
  BY <1>1, <1>2, <1>4, <1>5 DEF Spares
<1>8. MarksOK(at)
  BY DEF WritingOK
<1>9. End(x) <= size
  <2>1. size >= base + plan.end0
    BY <1>3, <1>8 DEF MarksOK
  <2>2. End(x) \in Int /\ size \in Int
    BY <1>1, <1>3 DEF End, TInv, FileTyped
  <2> QED BY <1>2, <1>3, <2>1, <2>2
<1>10. MarksOK(at)'
  BY <1>6, <1>7, <1>8, <1>9, MarksStay
<1>11. plan.end = 0 => HeadAt(base) \in Image'
  BY <1>6, WriteKeeps DEF WritingOK
<1> QED BY <1>10, <1>11

\* The file does not grow when all writes are in what there is.
LEMMA SizeStays ==
  ASSUME TInv, NEW fate \in FatesOf(pend), \A i \in DOMAIN pend : End(pend[i]) <= size
  PROVE  SizeAfter(size, pend, fate) = size
<1>1. size \in Nat /\ pend \in Seq(Exts) /\ file \in SUBSET Exts
  BY DEF TInv, FileTyped
<1>2. SizeAfter(size, pend, fate) \in Nat /\ size <= SizeAfter(size, pend, fate)
  BY <1>1, SizeAfterIs
<1>3. SizeAfter(size, pend, fate) <= size
  <2>1. \A m \in Nat : size <= m /\ (\A i \in DOMAIN pend : End(pend[i]) <= m)
          => SizeAfter(size, pend, fate) <= m
    BY <1>1, SizeAfterIs
  <2>2. size <= size
    BY <1>1
  <2> QED BY <1>1, <2>1, <2>2
<1> QED BY <1>1, <1>2, <1>3

\* The walk is written to a place that was free.
LEMMA WriteWalkKeeps ==
  ASSUME TInv, UNCHANGED mode, FileOK, ~failure, NEW at \in Nat, BusyOK(at), WriteWalk, Healthy'
  PROVE  ~failure' /\ FileOK' /\ pc' # "idle" /\ BusyOK(at)'
<1> DEFINE p == plan.walkPos
           n == WalkLen(plan.walk)
           what == WalkData(plan.walk)
           x == Extent(base + p, n, what)
<1>1. pc = "walk" /\ DataWrite(p, n, what) /\ base' = base
  BY DEF WriteWalk, memvars
<1>2. /\ base \in Nat /\ p \in Nat /\ n \in Nat /\ n >= 3 /\ plan.walk \in Maps
  BY <1>1, PlanFacts
<1>3. what \in Whats /\ what.kind # "skip"
  BY <1>2, WhatIs DEF WalkData
<1>4. WriteDone(x) /\ x \in Exts
  <2> HIDE DEF p, n, what
  <2> QED BY <1>1, <1>2, <1>3, HealthyWrite
<1>5. x = WalkOf(base, p, plan.walk)
  BY DEF WalkOf
<1>6. x.at = base + p /\ x.len = n
  <2>1. n = WalkLen(plan.walk)
    OBVIOUS
  <2> HIDE DEF x, p, n
  <2>2. WalkOf(base, p, plan.walk).at = base + p
    BY <1>2, DatafileAssumption DEF WalkOf, Extent, End
  <2>3. WalkOf(base, p, plan.walk).len = WalkLen(plan.walk)
    BY <1>2, DatafileAssumption DEF WalkOf, Extent, End
  <2> QED BY <1>5, <2>1, <2>2, <2>3
<1> HIDE DEF x
<1>7. ~failure'
  BY <1>4 DEF WriteDone
<1>8. pc' = "flushData" /\ SameMemory
  BY <1>7 DEF WriteWalk, Continue, memvars, SameMemory
<1>9. LayOK(at) /\ FreshOK(at) /\ WritingOK(at)
  BY <1>1 DEF BusyOK, RecoverOK, Skipping, Writing
<1>10. /\ 0 \in Blocks /\ 0 \notin Cols
       /\ p = Block(plan.walk, plan.walkPos, 0).pos /\ n = Block(plan.walk, plan.walkPos, 0).len
       /\ n > 0
  BY <1>2, DatafileAssumption DEF Blocks, Cols, Block, Location
<1> HIDE DEF p, n
<1>11. MarksOK(at)' /\ (plan.end = 0 => HeadAt(base) \in Image')
  BY <1>1, <1>4, <1>6, <1>8, <1>9, <1>10, BlockWritten DEF SameMemory
<1>12. x \in Image'
  BY <1>4, WriteKeeps
<1>13. RecoverOK(at)'
  <2>1. WritingOK(at)'
    BY <1>5, <1>8, <1>11, <1>12 DEF WritingOK, SameMemory, p
  <2> QED BY <1>8, <2>1 DEF RecoverOK, Skipping, Writing
<1>14. /\ \A d \in Cols : plan.old[d].len > 0 =>
            Misses(x, base + plan.old[d].pos, plan.old[d].len)
       /\ \A d \in Cols : d # 0 /\ plan.walk[d].len > 0 =>
            Misses(x, base + plan.walk[d].pos, plan.walk[d].len)
  BY <1>1, <1>6, <1>9, <1>10, FreshMisses
<1>15. x.at >= base
  BY <1>2, <1>6
<1> QED BY <1>1, <1>4, <1>8, <1>10, <1>13, <1>14, <1>15, BusyWrites DEF Early

\* All of the new version but its commit tail is in the file.
LEMMA FlushDataKeeps ==
  ASSUME TInv, UNCHANGED mode, FileOK, ~failure, NEW at \in Nat, BusyOK(at), FlushData, Healthy'
  PROVE  ~failure' /\ FileOK' /\ pc' # "idle" /\ BusyOK(at)'
<1>1. /\ pc = "flushData" /\ DataCommit /\ pc' = "mark2" /\ SameMemory
  BY DEF FlushData, Continue, memvars, SameMemory
<1>2. FlushDone
  BY <1>1, HealthyFlush
<1>3. WritingOK(at)
  BY <1>1 DEF BusyOK, RecoverOK, Skipping, Writing
<1>4. pend' = << >> /\ \A y \in Image : y \in Image' /\ y \in Kept'
  BY <1>2, FlushKeeps DEF FlushDone
<1>5. \A y \in Kept : y \in Kept'
  BY <1>4, KeptInImage
<1>6. size' = size
  <2>1. AllDone(pend) \in FatesOf(pend)
    BY DoneIsPossible DEF TInv, FileTyped
  <2>2. \A i \in DOMAIN pend : End(pend[i]) <= size
    BY <1>3 DEF WritingOK, MarksOK
  <2>3. FileSize = size
    BY <2>1, <2>2, SizeStays DEF FileSize
  <2> QED BY <1>2, <2>3 DEF FlushDone
<1>7. RecoverOK(at)'
  <2>1. \A i \in DOMAIN << >> : FALSE
    OBVIOUS
  <2>2. \A i \in DOMAIN pend' : End(pend'[i]) <= size'
    BY <1>4, <2>1
  <2>3. End1' = End1
    BY <1>1 DEF SameMemory, End1
  <2>4. MarksOK(at)'
    BY <1>1, <1>3, <1>5, <1>6, <2>2, <2>3 DEF WritingOK, MarksOK, SameMemory
  <2>5. WritingOK(at)'
    BY <1>1, <1>3, <1>4, <2>4 DEF WritingOK, SameMemory
  <2> QED BY <1>1, <2>5 DEF RecoverOK, Skipping, Writing
<1> QED BY <1>1, <1>2, <1>7, BusyFlushes DEF Early

\* A column that is written, or is as it was.
LEMMA ColumnWritten ==
  ASSUME TInv, UNCHANGED mode, FileOK, NEW at \in Nat, BusyOK(at), pc = "cols", base' = base,
         saved' = saved, attempt' = attempt,
         NEW c, c = plan.k, plan.walk[c].len > 0, col[c].dirty,
         DataWrite(plan.walk[c].pos, plan.walk[c].len, ColData(col[c].tag)), Healthy',
         plan'.end = plan.end, plan'.end0 = plan.end0, plan'.inPlace = plan.inPlace,
         plan'.old = plan.old
  PROVE  /\ FileOK' /\ SavedOK' /\ MarksOK(at)' /\ (plan.end = 0 => HeadAt(base) \in Image')
         /\ failure' = failure
         /\ ContentAt(Image', base, plan.walk[c]) = attempt[c]
         /\ \A d \in Cols : d # c =>
              ContentAt(Image', base, plan.walk[d]) = ContentAt(Image, base, plan.walk[d])
<1> DEFINE loc == plan.walk[c]
           p == loc.pos
           n == loc.len
           what == ColData(col[c].tag)
           x == Extent(base + p, n, what)
<1>1. /\ c \in Cols /\ base \in Nat /\ plan.walk \in Maps /\ n = col[c].len
      /\ ColumnsTyped /\ (col[c].len = 0 <=> col[c].tag = NoTag)
  BY PlanFacts DEF TInv, PlanTyped, MemTyped
<1>2. p \in Nat /\ n \in Nat /\ n > 0
  BY <1>1 DEF Maps, Walks
<1>3. what \in Whats /\ what.kind # "skip"
  <2>1. col[c].tag \in Tags
    BY <1>1, <1>2 DEF ColumnsTyped
  <2> QED BY <2>1, WhatIs DEF ColData
<1>4. WriteDone(x) /\ x \in Exts
  <2>1. DataWrite(p, n, what)
    OBVIOUS
  <2> HIDE DEF p, n, what
  <2> QED BY <1>1, <1>2, <1>3, <2>1, HealthyWrite
<1>5. x.at = base + p /\ x.len = n
  <2> DEFINE e == base + p
             y == Extent(e, n, what)
  <2>1. y = [at |-> e, len |-> n, what |-> what]
    BY DEF Extent
  <2> HIDE DEF e, n, what, y
  <2>2. y.at = e /\ y.len = n
    BY <2>1
  <2> QED BY <2>2 DEF e, y
<1>6. LayOK(at) /\ FreshOK(at) /\ WritingOK(at) /\ SavedOK /\ ColsOK
  BY DEF BusyOK, RecoverOK, Skipping, Writing
<1>7. c \in Blocks /\ p = Block(plan.walk, plan.walkPos, c).pos /\ n = Block(plan.walk, plan.walkPos, c).len
  BY <1>1, DatafileAssumption DEF Blocks, Cols, Block
<1>8. x = Extent(base + loc.pos, loc.len, ColData(col[c].tag))
  OBVIOUS
<1> HIDE DEF x, p, n, what
<1>9. MarksOK(at)' /\ (plan.end = 0 => HeadAt(base) \in Image')
  BY <1>2, <1>4, <1>5, <1>6, <1>7, BlockWritten
<1>10. /\ \A d \in Cols : plan.old[d].len > 0 =>
            Misses(x, base + plan.old[d].pos, plan.old[d].len)
       /\ \A d \in Cols : d # c /\ plan.walk[d].len > 0 =>
            Misses(x, base + plan.walk[d].pos, plan.walk[d].len)
  BY <1>2, <1>5, <1>6, <1>7, FreshMisses
<1>11. x.at >= base
  BY <1>1, <1>2, <1>5
<1>12. FileOK' /\ SavedOK'
  BY <1>4, <1>6, <1>10, <1>11, WriteKeepsFile
<1>13. ContentAt(Image', base, loc) = attempt[c]
  <2>1. x \in Image' /\ Image' \in SUBSET Exts /\ Disjoint(Image')
    <3>1. Image' = Written(Image, x) /\ Image \in SUBSET Exts /\ Disjoint(Image)
      BY <1>4, ImageIs DEF WriteDone, TInv
    <3> QED BY <1>4, <3>1, WrittenIs
  <2>2. loc.len \in Nat /\ loc.len > 0
    BY <1>2 DEF n
  <2> HIDE DEF loc
  <2>3. ContentAt(Image', base, loc) = Content(loc.len, col[c].tag)
    BY <1>8, <2>1, <2>2, ColumnIsRead
  <2>4. attempt[c] = Content(col[c].len, col[c].tag)
    BY <1>1, <1>6 DEF ColsOK
  <2> QED BY <1>1, <2>3, <2>4 DEF n
<1>14. ASSUME NEW d \in Cols, d # c
       PROVE  ContentAt(Image', base, plan.walk[d]) = ContentAt(Image, base, plan.walk[d])
  <2>1. plan.walk[d].len \in Nat /\ plan.walk[d].pos \in Nat
    BY <1>1 DEF Maps, Walks
  <2> QED BY <1>4, <1>10, <1>14, <2>1, MissedByWrite
<1>15. failure' = failure
  BY <1>4 DEF WriteDone
<1> QED BY <1>9, <1>12, <1>13, <1>14, <1>15

\* A column is written to a place that was free, or stays where it is.
LEMMA WriteColumnKeeps ==
  ASSUME TInv, UNCHANGED mode, FileOK, ~failure, NEW at \in Nat, BusyOK(at), WriteColumn, Healthy'
  PROVE  ~failure' /\ FileOK' /\ pc' # "idle" /\ BusyOK(at)'
<1> DEFINE c == plan.k
           loc == plan.walk[c]
<1>1. /\ pc = "cols"
      /\ IF loc.len > 0 /\ col[c].dirty
         THEN DataWrite(loc.pos, loc.len, ColData(col[c].tag))
         ELSE UNCHANGED <<file, size, pend, failure, used>>
      /\ col' = IF loc.len > 0 THEN [col EXCEPT ![c] = Clean(loc)] ELSE col
      /\ plan' = [plan EXCEPT !.k = c + 1]
      /\ pc' = IF c = NCols THEN "walk" ELSE "cols"
      /\ base' = base /\ known' = known /\ space' = space /\ rootWalk' = rootWalk
      /\ saved' = saved /\ attempt' = attempt
  BY WriteColumnIs
<1>2. /\ plan \in Plans /\ plan.walk \in Maps /\ c \in Cols /\ ColumnsTyped /\ loc.len = col[c].len
  BY <1>1, PlanFacts DEF TInv, PlanTyped, MemTyped
<1>3. /\ plan'.next = plan.next
      /\ plan'.end = plan.end /\ plan'.limit = plan.limit /\ plan'.inPlace = plan.inPlace
      /\ plan'.end0 = plan.end0 /\ plan'.walk = plan.walk /\ plan'.walkPos = plan.walkPos
      /\ plan'.old = plan.old /\ plan'.k = c + 1
  <2> HIDE DEF loc
  <2> QED BY <1>1, <1>2 DEF Plans
<1>4. /\ LayOK(at) /\ FreshOK(at) /\ SpaceOK /\ ColsOK /\ SavedOK /\ WritingOK(at)
  BY <1>1 DEF BusyOK, RecoverOK, Skipping, Writing
<1>5. End1' = End1 /\ End2' = End2
  BY <1>3 DEF End1, End2
<1>6. /\ \A d \in Cols : d # c => col'[d] = col[d]
      /\ loc.len > 0 => col'[c] = Clean(loc) /\ ~col'[c].dirty
      /\ loc.len = 0 => col'[c] = col[c]
  <2>1. ~Clean(loc).dirty /\ loc.len \in Nat
    BY <1>2 DEF Clean, Maps, Walks
  <2> HIDE DEF loc, c
  <2> QED BY <1>1, <1>2, <2>1 DEF ColumnsTyped
<1>7. LayOK(at)'
  BY <1>3, <1>4 DEF LayOK
<1>8. FreshOK(at)'
  <2>1. \A d \in Blocks : d = 0 \/ d \in Cols
    BY DatafileAssumption DEF Blocks, Cols
  <2>2. \A d \in Cols : col'[d].dirty => col[d].dirty
    <3>1. loc.len \in Nat
      BY <1>2 DEF Maps, Walks
    <3> HIDE DEF loc, c
    <3> QED BY <1>6, <3>1
  <2> QED BY <1>3, <1>4, <2>1, <2>2 DEF FreshOK
<1>9. SpaceOK'
  <2>1. pc \notin Early /\ pc' \notin Early
    BY <1>1 DEF Early
  <2> QED BY <1>1, <1>3, <1>4, <1>5, <2>1 DEF SpaceOK, NextOK
<1>10. /\ FileOK' /\ SavedOK' /\ MarksOK(at)' /\ (plan.end = 0 => HeadAt(base) \in Image')
       /\ failure' = failure
       /\ loc.len > 0 => ContentAt(Image', base, loc) = attempt[c]
       /\ \A d \in Cols : d # c =>
            ContentAt(Image', base, plan.walk[d]) = ContentAt(Image, base, plan.walk[d])
  <2>1. CASE loc.len > 0 /\ col[c].dirty
    <3>1. DataWrite(plan.walk[c].pos, plan.walk[c].len, ColData(col[c].tag))
      BY <1>1, <2>1
    <3> QED BY <1>1, <1>3, <2>1, <3>1, ColumnWritten
  <2>2. CASE ~(loc.len > 0 /\ col[c].dirty)
    <3>1. file' = file /\ size' = size /\ pend' = pend /\ failure' = failure
      BY <1>1, <2>2
    <3>2. Image' = Image /\ Kept' = Kept
      BY <3>1 DEF Image, Kept
    <3>3. FileOK' /\ SavedOK'
      BY <1>1, <1>3, <1>4, <3>1 DEF FileOK, SavedOK
    <3>4. MarksOK(at)' /\ (plan.end = 0 => HeadAt(base) \in Image')
      BY <1>1, <1>3, <1>4, <1>5, <3>1, <3>2 DEF WritingOK, MarksOK
    <3>5. loc.len > 0 => ContentAt(Image, base, loc) = attempt[c]
      BY <1>2, <1>4, <2>2 DEF ColsOK
    <3> QED BY <3>1, <3>2, <3>3, <3>4, <3>5
  <2> QED BY <2>1, <2>2
<1>11. ColsOK'
  <2>1. ASSUME NEW d \in Cols
        PROVE  IF col'[d].dirty
               THEN /\ attempt'[d] = Content(col'[d].len, col'[d].tag)
                    /\ col'[d].len = 0 \/ pc' \in Early \/ (pc' = "cols" /\ plan'.k <= d)
               ELSE /\ col'[d] = Clean(plan'.walk[d])
                    /\ ContentAt(Image', base', plan'.walk[d]) = attempt'[d]
                    /\ pc' \in Early => plan'.walk[d] = plan'.old[d]
    <3>1. pc' \notin Early /\ pc \notin Early
      BY <1>1 DEF Early
    <3>2. CASE d = c
      <4>1. CASE loc.len > 0
        <5>1. col'[d] = Clean(loc) /\ ~col'[d].dirty /\ ContentAt(Image', base, loc) = attempt[d]
          BY <1>6, <1>10, <3>2, <4>1
        <5> QED BY <1>1, <1>3, <3>1, <3>2, <5>1
      <4>2. CASE ~(loc.len > 0)
        <5>1. loc.len = 0
          BY <1>2, <4>2 DEF Maps, Walks
        <5>2. loc = Location(0, 0)
          BY <1>2, <5>1 DEF Maps, Walks, Location
        <5>3. \A f, b : ContentAt(f, b, loc) = NoContent
          BY <5>1 DEF ContentAt
        <5>4. col'[d] = col[d] /\ col[d].len = 0
          BY <1>2, <1>6, <3>2, <5>1
        <5>5. col[d].dirty => attempt[d] = Content(col[d].len, col[d].tag)
          BY <1>4 DEF ColsOK
        <5>6. ~col[d].dirty => col[d] = Clean(plan.walk[d]) /\ ContentAt(Image, base, plan.walk[d]) = attempt[d]
          BY <1>4 DEF ColsOK
        <5>7. ContentAt(Image', base, plan.walk[d]) = ContentAt(Image, base, plan.walk[d])
          BY <3>2, <5>3
        <5> QED BY <1>1, <1>3, <3>1, <5>4, <5>5, <5>6, <5>7
      <4> QED BY <4>1, <4>2
    <3>3. CASE d # c
      <4>1. col'[d] = col[d] /\ ContentAt(Image', base, plan.walk[d]) = ContentAt(Image, base, plan.walk[d])
        BY <1>6, <1>10, <3>3
      <4>2. CASE ~col[d].dirty
        <5>1. col[d] = Clean(plan.walk[d]) /\ ContentAt(Image, base, plan.walk[d]) = attempt[d]
          BY <1>4, <4>2 DEF ColsOK
        <5> QED BY <1>1, <1>3, <3>1, <4>1, <4>2, <5>1
      <4>3. CASE col[d].dirty
        <5>1. /\ attempt[d] = Content(col[d].len, col[d].tag)
              /\ col[d].len = 0 \/ plan.k <= d
          BY <1>4, <3>1, <4>3 DEF ColsOK
        <5>2. col[d].len = 0 \/ (pc' = "cols" /\ plan'.k <= d)
          <6>1. c \in 1 .. NCols /\ d \in 1 .. NCols
            BY <1>2 DEF Cols
          <6> HIDE DEF loc
          <6>2. plan.k <= d => c # NCols /\ c + 1 <= d
            BY <3>3, <6>1, DatafileAssumption
          <6> QED BY <1>1, <1>3, <5>1, <6>2
        <5> QED BY <1>1, <4>1, <4>3, <5>1, <5>2
      <4> QED BY <4>2, <4>3
    <3> QED BY <3>2, <3>3
  <2> QED BY <2>1 DEF ColsOK
<1>12. RecoverOK(at)'
  <2>1. pc' \in {"cols", "walk"}
    BY <1>1
  <2>2. WritingOK(at)'
    BY <1>1, <1>3, <1>10, <2>1 DEF WritingOK
  <2> QED BY <2>1, <2>2 DEF RecoverOK, Skipping, Writing
<1>13. pc' # "idle" /\ ~failure'
  BY <1>1, <1>10
<1> QED BY <1>7, <1>8, <1>9, <1>10, <1>11, <1>12, <1>13 DEF BusyOK

\* When the commit tail is written, the process sees a complete new version.
LEMMA NewVersionSeen ==
  ASSUME TInv, NEW at \in Nat, LayOK(at), pc \in {"flushTail", "header", "finish"}, RecoverOK(at)
  PROVE  /\ HeadAt(base) \in Image /\ SkipAt(base, plan.end0) \in Image
         /\ TailAt(base, End1, plan.walkPos, plan.walk) \in Image
         /\ WalkOf(base, plan.walkPos, plan.walk) \in Image
         /\ FileSize = base + End2
<1> DEFINE head == HeadAt(base)
           skip == SkipAt(base, plan.end0)
           tail == TailAt(base, End1, plan.walkPos, plan.walk)
           walk == WalkOf(base, plan.walkPos, plan.walk)
<1>1. /\ Mark \in Nat /\ Mark > 1 /\ base \in Nat /\ plan.end \in Nat /\ plan.end0 \in Nat
      /\ plan.walkPos \in Nat /\ WalkLen(plan.walk) \in Nat
      /\ End1 = plan.end0 + Mark /\ End2 = plan.end0 + 2 * Mark /\ End1 \in Nat
  BY PlanFacts
<1>2. /\ plan.inPlace => plan.end0 = plan.end - 2 * Mark
  BY DEF TInv, PlanTyped
<1>3. /\ Mark <= plan.walkPos /\ plan.walkPos + WalkLen(plan.walk) <= plan.end0
  BY Places
<1>4. head.at = base /\ head.len = Mark /\ End(head) = base + Mark
  BY <1>1, HeadIs
<1>5. skip.at = base + plan.end0 /\ End(skip) = base + plan.end0 + Mark
  BY <1>1, SkipIs
<1>6. tail.at = base + End1 /\ End(tail) = base + End1 + Mark
  BY <1>1 DEF TailAt, Extent, End
<1>7. walk.at = base + plan.walkPos /\ End(walk) = base + plan.walkPos + WalkLen(plan.walk)
  BY <1>1 DEF WalkOf, Extent, End
<1>8. file \in SUBSET Exts /\ pend \in Seq(Exts) /\ size \in Nat
  BY DEF TInv, FileTyped
<1> HIDE DEF head, skip, tail, walk
<1>9. CASE TailIsPending
  <2>1. TailOK(at)
    BY <1>9 DEF RecoverOK, Skipping, Writing
  <2>2. /\ pend = <<tail>> /\ head \in file /\ skip \in file /\ walk \in file
        /\ plan.inPlace => size = base + plan.end
        /\ ~plan.inPlace => size = base + End1
    BY <2>1 DEF TailOK, head, skip, tail, walk
  <2>3. tail \in Exts
    BY <1>8, <2>2
  <2>4. Image = Written(file, tail) /\ FileSize = Longest(size, tail) /\ tail \in Image
    BY <2>2, <2>3, OneDone
  <2>5. ~Overlap(tail, head) /\ ~Overlap(tail, skip) /\ ~Overlap(tail, walk)
    BY <1>1, <1>3, <1>4, <1>5, <1>6, <1>7, InOrder
  <2>6. head \in Image /\ skip \in Image /\ walk \in Image
    BY <1>8, <2>2, <2>3, <2>4, <2>5, WrittenIs
  <2>7. FileSize = base + End2
    BY <1>1, <1>2, <1>6, <2>2, <2>4 DEF Longest
  <2> QED BY <2>4, <2>6, <2>7 DEF head, skip, tail, walk
<1>10. CASE ~TailIsPending
  <2>1. DoneOK
    BY <1>10 DEF RecoverOK, Skipping, Writing
  <2>2. /\ head \in file /\ skip \in file /\ walk \in file /\ tail \in file /\ size = base + End2
        /\ pend = << >> \/ pend = <<head>>
    BY <2>1 DEF DoneOK, head, skip, tail, walk
  <2>3. CASE pend = << >>
    BY <2>2, <2>3, ImageIsFile DEF head, skip, tail, walk
  <2>4. CASE pend = <<head>>
    <3>1. head \in Exts
      BY <1>8, <2>4
    <3>2. Image = Written(file, head) /\ FileSize = Longest(size, head) /\ head \in Image
      BY <2>4, <3>1, OneDone
    <3>3. ~Overlap(head, tail) /\ ~Overlap(head, skip) /\ ~Overlap(head, walk)
      BY <1>1, <1>3, <1>4, <1>5, <1>6, <1>7, InOrder
    <3>4. tail \in Image /\ skip \in Image /\ walk \in Image
      BY <1>8, <2>2, <3>1, <3>2, <3>3, WrittenIs
    <3>5. FileSize = base + End2
      BY <1>1, <1>4, <2>2, <3>2 DEF Longest
    <3> QED BY <3>2, <3>4, <3>5 DEF head, skip, tail, walk
  <2> QED BY <2>2, <2>3, <2>4
<1> QED BY <1>9, <1>10

\* The commit tail: the one write that makes the new version the one found.
LEMMA WriteMark2Keeps ==
  ASSUME TInv, UNCHANGED mode, FileOK, ~failure, NEW at \in Nat, BusyOK(at), WriteMark2, Healthy'
  PROVE  ~failure' /\ FileOK' /\ pc' # "idle" /\ BusyOK(at)'
<1> DEFINE x == TailAt(base, End1, plan.walkPos, plan.walk)
           p == End1
           what == TailMark(plan.walkPos, WalkLen(plan.walk))
<1>1. /\ pc = "mark2" /\ DataWrite(p, Mark, what) /\ SameMemory
      /\ pc' = IF mode = 1 \/ plan.end = 0 THEN "flushTail" ELSE "finish"
  BY DEF WriteMark2, Continue, memvars, SameMemory
<1>2. /\ Mark \in Nat /\ Mark > 1 /\ base \in Nat /\ plan.end \in Nat /\ plan.end0 \in Nat
      /\ p = plan.end0 + Mark /\ p \in Nat
      /\ plan.walkPos \in Nat /\ plan.walkPos >= 1 /\ WalkLen(plan.walk) \in Nat /\ WalkLen(plan.walk) >= 3
  BY <1>1, PlanFacts
<1>3. what \in Whats /\ what.kind # "skip"
  BY <1>2, WhatIs DEF TailMark
<1>4. x = Extent(base + p, Mark, what)
  BY DEF TailAt
<1>5. x.at = base + p /\ x.len = Mark
  BY DEF TailAt, Extent
<1> HIDE DEF x, p, what
<1>6. WriteDone(x) /\ x \in Exts
  BY <1>1, <1>2, <1>3, <1>4, HealthyWrite DEF SameMemory
<1>7. WritingOK(at) /\ pend = << >>
  BY <1>1 DEF BusyOK, RecoverOK, Skipping, Writing, WritingOK
<1>8. Image = file /\ Kept = file
  BY <1>7, ImageIsFile
<1>9. pend' = <<x>> /\ file' = file /\ size' = size
  BY <1>6, <1>7 DEF WriteDone
<1>10. RecoverOK(at)'
  <2>1. End1' = End1
    BY <1>1 DEF SameMemory, End1
  <2>2. mode' = mode /\ mode \in {1, 2} /\ plan' = plan
    BY <1>1 DEF SameMemory, TInv, FileTyped
  <2>3. pc' = "flushTail" => mode = 1 \/ plan.end = 0
    BY <1>1
  <2>4. TailIsPending'
    BY <1>1, <1>2, <2>2 DEF TailIsPending
  <2>5. HeadAt(base) \in file
    BY <1>1, <1>2, <1>7, <1>8 DEF WritingOK, MarksOK
  <2>6. TailOK(at)'
    BY <1>1, <1>7, <1>8, <1>9, <2>1, <2>2, <2>3, <2>5 DEF TailOK, WritingOK, MarksOK, SameMemory, x
  <2> QED BY <1>1, <2>4, <2>6 DEF RecoverOK, Skipping, Writing
<1>11. plan.end0 >= plan.end - 2 * Mark
  BY <1>1, Places DEF BusyOK
<1>12. /\ \A c \in Cols : plan.old[c].len > 0 => Misses(x, base + plan.old[c].pos, plan.old[c].len)
       /\ \A c \in Cols : plan.walk[c].len > 0 => Misses(x, base + plan.walk[c].pos, plan.walk[c].len)
  <2>1. p >= plan.end - 2 * Mark /\ p >= plan.end0
    BY <1>2, <1>11
  <2> QED BY <1>1, <1>2, <1>5, <2>1, MarkMisses DEF BusyOK
<1>13. x.at >= base
  BY <1>2, <1>5
<1>14. pc' # "idle" /\ pc' \notin Early /\ pc \notin Early
  BY <1>1 DEF Early
<1> QED BY <1>1, <1>6, <1>10, <1>12, <1>13, <1>14, BusyWrites

\* The commit tail is in the file.
LEMMA FlushTailKeeps ==
  ASSUME TInv, UNCHANGED mode, FileOK, ~failure, NEW at \in Nat, BusyOK(at), FlushTail, Healthy'
  PROVE  ~failure' /\ FileOK' /\ pc' # "idle" /\ BusyOK(at)'
<1>1. /\ pc = "flushTail" /\ DataCommit /\ pc' = "header" /\ SameMemory
  BY DEF FlushTail, Continue, memvars, SameMemory
<1>2. FlushDone
  BY <1>1, HealthyFlush
<1>3. /\ HeadAt(base) \in Image /\ SkipAt(base, plan.end0) \in Image
      /\ TailAt(base, End1, plan.walkPos, plan.walk) \in Image
      /\ WalkOf(base, plan.walkPos, plan.walk) \in Image
      /\ FileSize = base + End2
  BY <1>1, NewVersionSeen DEF BusyOK
<1>4. TailOK(at)
  BY <1>1 DEF BusyOK, RecoverOK, Skipping, Writing, TailIsPending
<1>5. RecoverOK(at)'
  <2>1. End1' = End1 /\ End2' = End2
    BY <1>1 DEF SameMemory, End1, End2
  <2>2. DoneOK'
    BY <1>1, <1>2, <1>3, <1>4, <2>1 DEF DoneOK, TailOK, FlushDone, SameMemory
  <2>3. ~TailIsPending'
    BY <1>1 DEF TailIsPending
  <2> QED BY <1>1, <2>2, <2>3 DEF RecoverOK, Skipping, Writing
<1> QED BY <1>1, <1>2, <1>5, BusyFlushes DEF Early

\* The header is written over one that is the same, or over none.
LEMMA WriteHeaderKeeps ==
  ASSUME TInv, UNCHANGED mode, FileOK, ~failure, NEW at \in Nat, BusyOK(at), WriteHeader, Healthy'
  PROVE  ~failure' /\ FileOK' /\ pc' # "idle" /\ BusyOK(at)'
<1> DEFINE x == HeadAt(base)
<1>1. /\ pc = "header" /\ DataWrite(0, Mark, HeadMark) /\ pc' = "finish" /\ SameMemory
  BY DEF WriteHeader, Continue, memvars, SameMemory
<1>2. Mark \in Nat /\ Mark > 1 /\ base \in Nat /\ base + 0 = base
  BY <1>1, PlanFacts
<1>3. HeadMark \in Whats /\ HeadMark.kind # "skip"
  BY WhatIs DEF HeadMark
<1>4. WriteDone(x) /\ x \in Exts
  <2>1. 0 \in Int /\ base + 0 >= 0 /\ Mark > 0
    BY <1>2
  <2>2. WriteDone(Extent(base + 0, Mark, HeadMark)) /\ Extent(base + 0, Mark, HeadMark) \in Exts
    BY <1>1, <1>2, <1>3, <2>1, HealthyWrite DEF SameMemory
  <2> QED BY <1>2, <2>2 DEF HeadAt
<1>5. x.at = base + 0 /\ x.len = Mark /\ x.at >= base
  BY <1>2, HeadIs
<1> HIDE DEF x
<1>6. DoneOK /\ pend = << >>
  BY <1>1 DEF BusyOK, RecoverOK, Skipping, Writing, TailIsPending, DoneOK
<1>7. pend' = <<x>> /\ file' = file /\ size' = size
  BY <1>4, <1>6 DEF WriteDone
<1>8. RecoverOK(at)'
  <2>1. End1' = End1 /\ End2' = End2
    BY <1>1 DEF SameMemory, End1, End2
  <2>2. DoneOK'
    BY <1>1, <1>6, <1>7, <2>1 DEF DoneOK, SameMemory, x
  <2>3. ~TailIsPending'
    BY <1>1, <1>6 DEF TailIsPending, DoneOK, SameMemory
  <2> QED BY <1>1, <2>2, <2>3 DEF RecoverOK, Skipping, Writing
<1>9. /\ \A c \in Cols : plan.old[c].len > 0 => Misses(x, base + plan.old[c].pos, plan.old[c].len)
      /\ \A c \in Cols : plan.walk[c].len > 0 => Misses(x, base + plan.walk[c].pos, plan.walk[c].len)
  BY <1>1, <1>5, MarkMisses DEF BusyOK
<1> QED BY <1>1, <1>4, <1>5, <1>8, <1>9, BusyWrites DEF Early

\* What is being saved is what the process reads, once the columns are written.
LEMMA AttemptSeen ==
  ASSUME TInv, pc \in {"flushTail", "header", "finish"}, ColsOK
  PROVE  \A c \in Cols : ContentAt(Image, base, plan.walk[c]) = attempt[c]
<1> SUFFICES ASSUME NEW c \in Cols PROVE ContentAt(Image, base, plan.walk[c]) = attempt[c]
  OBVIOUS
<1>1. CASE ~col[c].dirty
  BY <1>1 DEF ColsOK
<1>2. CASE col[c].dirty
  <2>1. attempt[c] = Content(col[c].len, col[c].tag) /\ col[c].len = 0
    BY <1>2 DEF ColsOK, Early
  <2>2. plan.walk[c].len = 0 /\ col[c].tag = NoTag
    BY <1>2, <2>1, PlanFacts DEF TInv, MemTyped
  <2> QED BY <2>1, <2>2 DEF ContentAt, NoContent
<1> QED BY <1>1, <1>2

\* The new version is the one saved, and its space the one in use.
LEMMA FinishCommitKeeps ==
  ASSUME TInv, UNCHANGED mode, FileOK, ~failure, NEW at \in Nat, BusyOK(at), FinishCommit, Healthy'
  PROVE  ~failure' /\ FileOK' /\ pc' = "idle" /\ saved' = attempt /\ \E a \in Nat : IdleOK(a)'
<1>1. /\ pc = "finish" /\ DataCommit /\ pc' = "idle"
      /\ space' = IF mode = 1 THEN plan.next ELSE {}
      /\ mode' = mode /\ base' = base /\ col' = col /\ known' = known /\ rootWalk' = rootWalk
      /\ saved' = IF ~failure' THEN attempt ELSE saved
  BY DEF FinishCommit, Return
<1>2. FlushDone
  BY <1>1, HealthyFlush
<1>3. file' = Image /\ size' = FileSize /\ pend' = << >> /\ failure' = failure
  BY <1>2 DEF FlushDone
<1>4. ~failure' /\ saved' = attempt
  BY <1>1, <1>3
<1>5. FileOK'
  BY <1>1, <1>2, FlushKeepsFile
<1>6. /\ LayOK(at) /\ SpaceOK /\ ColsOK /\ RecoverOK(at)
  BY DEF BusyOK
<1>7. /\ HeadAt(base) \in Image /\ SkipAt(base, plan.end0) \in Image
      /\ TailAt(base, End1, plan.walkPos, plan.walk) \in Image
      /\ WalkOf(base, plan.walkPos, plan.walk) \in Image
      /\ FileSize = base + End2
  BY <1>1, <1>6, NewVersionSeen
<1>8. /\ Mark \in Nat /\ Mark > 1 /\ base \in Nat /\ plan.end0 \in Nat /\ plan.walkPos \in Nat
      /\ End1 = plan.end0 + Mark /\ End2 = plan.end0 + 2 * Mark
  BY <1>1, PlanFacts
<1>9. rootWalk = plan.walk /\ (mode = 1 => known = Cols /\ Claims(plan.next, Cols, plan.walk, plan.walkPos, End2))
  BY <1>1, <1>6 DEF SpaceOK, NextOK, Early
<1>10. size' - base' = End2 /\ End2 # 0 /\ End2 - 2 * Mark = plan.end0 /\ End2 - Mark = End1
  BY <1>1, <1>3, <1>7, <1>8
<1>11. Version(Image, base, End2, plan.walk, plan.walkPos)
  BY <1>6, <1>7, <1>10 DEF Version, LayOK
<1>12. attempt = ContentsOf(Image, base, plan.walk)
  <2>1. attempt = [c \in Cols |-> attempt[c]]
    BY DEF TInv, HistoryTyped, Contents
  <2> QED BY <1>1, <1>6, <2>1, AttemptSeen DEF ContentsOf
<1>13. \A c \in Cols : ~col[c].dirty => col[c] = Clean(plan.walk[c])
  BY <1>6 DEF ColsOK
<1>14. PICK a \in Nat : a = plan.walkPos
  BY <1>8
<1>15. /\ Version(Image, base, End2, plan.walk, a)
       /\ mode = 1 => Claims(plan.next, Cols, plan.walk, a, End2)
  BY <1>9, <1>11, <1>14
<1>16. IdleOK(a)'
  BY <1>1, <1>3, <1>4, <1>9, <1>10, <1>12, <1>13, <1>15 DEF IdleOK
<1> QED BY <1>1, <1>4, <1>5, <1>16

----------------------------------------------------------------------------
\* The blocks of a version, as bytes.
LEMMA LaidBytes ==
  ASSUME NEW w \in Maps, NEW at \in Nat, NEW top \in Int, Laid(w, at, top)
  PROVE  /\ \A c \in Cols : BytesOf(w[c]) \subseteq Mark .. top - 1
         /\ Bytes(at, WalkLen(w)) \subseteq Mark .. top - 1
         /\ Mark <= at /\ at + WalkLen(w) <= top
         /\ \A c \in Cols, d \in Cols : c # d => BytesOf(w[c]) \cap BytesOf(w[d]) = {}
         /\ \A c \in Cols : BytesOf(w[c]) \cap Bytes(at, WalkLen(w)) = {}
<1>1. \A c \in Cols : w[c].len \in Nat /\ w[c].pos \in Nat
  BY DEF Maps, Walks
<1>2. WalkLen(w) \in Nat /\ WalkLen(w) >= 3 /\ Mark \in Nat
  BY WalkLenIs, DatafileAssumption
<1>3. /\ 0 \in Blocks /\ \A c \in Cols : c \in Blocks /\ c # 0 /\ Block(w, at, c) = w[c]
      /\ Block(w, at, 0).len = WalkLen(w) /\ Block(w, at, 0).pos = at
  BY DatafileAssumption DEF Blocks, Cols, Block, Location
<1>4. ASSUME NEW c \in Cols PROVE BytesOf(w[c]) \subseteq Mark .. top - 1
  <2>1. w[c].len > 0 => Mark <= w[c].pos /\ w[c].pos + w[c].len <= top
    BY <1>3 DEF Laid
  <2> QED BY <1>1, <1>2, <2>1 DEF BytesOf, Bytes
<1>5. Mark <= at /\ at + WalkLen(w) <= top
  BY <1>2, <1>3 DEF Laid
<1>6. Bytes(at, WalkLen(w)) \subseteq Mark .. top - 1
  BY <1>2, <1>5 DEF Bytes
<1>7. ASSUME NEW c \in Cols, NEW d \in Cols, c # d
      PROVE  BytesOf(w[c]) \cap BytesOf(w[d]) = {}
  <2>1. w[c].len > 0 /\ w[d].len > 0 => Apart(w[c].pos, w[c].len, w[d].pos, w[d].len)
    BY <1>3, <1>7 DEF Laid, Aside
  <2> QED BY <1>1, <2>1 DEF BytesOf, Bytes, Apart
<1>8. ASSUME NEW c \in Cols PROVE BytesOf(w[c]) \cap Bytes(at, WalkLen(w)) = {}
  <2>1. w[c].len > 0 => Apart(w[c].pos, w[c].len, at, WalkLen(w))
    BY <1>2, <1>3 DEF Laid, Aside
  <2> QED BY <1>1, <1>2, <2>1 DEF BytesOf, Bytes, Apart
<1> QED BY <1>4, <1>5, <1>6, <1>7, <1>8

\* What is claimed when a file is opened: the walk, or nothing.
LEMMA WalkClaims ==
  ASSUME NEW w \in Maps, NEW at \in Nat, NEW end \in Nat, Laid(w, at, end - 2 * Mark)
  PROVE  Claims(Bytes(at, WalkLen(w)), {}, w, at, end)
<1> DEFINE u == Bytes(at, WalkLen(w))
<1>1. Mark \in Nat
  BY DatafileAssumption
<1>2. u \subseteq Mark .. end - 2 * Mark - 1 /\ \A c \in Cols : BytesOf(w[c]) \cap u = {}
  <2>1. end - 2 * Mark \in Int
    BY <1>1
  <2> QED BY <2>1, LaidBytes
<1> HIDE DEF u
<1>3. Bytes(1, Mark - 1) \cap u = {} /\ Bytes(end - 2 * Mark, 2 * Mark) \cap u = {} /\ Bytes(end, Mark) \cap u = {}
  BY <1>1, <1>2 DEF Bytes
<1>4. Claims(u, {}, w, at, end)
  BY <1>2, <1>3 DEF Claims, AllOrNone, u
<1> QED BY <1>4 DEF u

\* In an empty file nothing is claimed.
LEMMA NoClaims ==
  ASSUME NEW set \in SUBSET Cols, NEW at \in Nat
  PROVE  Claims({}, set, EmptyWalk, at, 0)
<1>1. \A c \in Cols : BytesOf(EmptyWalk[c]) = {}
  BY EmptyWalkIs DEF BytesOf, Bytes
<1> QED BY <1>1 DEF Claims, AllOrNone

\* A complete version at the end of a file is found.
LEMMA VersionFound ==
  ASSUME NEW f \in SUBSET Exts, Disjoint(f), SkipsBack(f), NEW sz \in Nat, NEW b \in Nat,
         NEW w \in Maps, NEW at \in Nat, sz # b, Version(f, b, sz - b, w, at)
  PROVE  /\ EndOfData(f, sz) = [found |-> TRUE, base |-> b, pos |-> at, len |-> WalkLen(w)]
         /\ WalkAt(f, b + at, WalkLen(w)) = w
         /\ Recovered(f, sz) = ContentsOf(f, b, w)
<1> DEFINE p == sz - 2 * Mark
           d == EndOfData(f, sz)
<1>1. Mark \in Nat /\ sz - b # 0 /\ b \in Int
  BY DatafileAssumption
<1>2. /\ HeadAt(b) \in f /\ SkipAt(b, sz - b - 2 * Mark) \in f
      /\ TailAt(b, sz - b - Mark, at, w) \in f /\ WalkOf(b, at, w) \in f
  BY <1>1 DEF Version
<1>3. /\ b + (sz - b - 2 * Mark) = p /\ sz - b - 2 * Mark = p - b
      /\ b + (sz - b - Mark) = sz - Mark
  BY <1>1
<1>4. Extent(p, Mark, SkipMark(p - b)) \in f
  BY <1>2, <1>3 DEF SkipAt
<1>5. Extent(sz - Mark, Mark, TailMark(at, WalkLen(w))) \in f
  BY <1>2, <1>3 DEF TailAt
<1>6. Extent(b, Mark, HeadMark) \in f
  BY <1>2 DEF HeadAt
<1>7. d = [found |-> TRUE, base |-> b, pos |-> at, len |-> WalkLen(w)]
  BY <1>1, <1>4, <1>5, <1>6, CommitIsFound
<1>8. Extent(b + at, WalkLen(w), WalkData(w)) \in f
  BY <1>2 DEF WalkOf
<1>9. WalkIntact(f, b + at, WalkLen(w)) /\ WalkAt(f, b + at, WalkLen(w)) = w
  BY <1>8, WalkIsRead
<1> HIDE DEF d
<1>10. d.found = TRUE /\ d.base = b /\ d.pos = at /\ d.len = WalkLen(w)
  BY <1>7
<1>11. Recovered(f, sz) = IF d.found THEN ContentsOf(f, d.base, WalkAt(f, d.base + d.pos, d.len))
                          ELSE Empty
  BY <1>9, <1>10 DEF Recovered, d
<1> QED BY <1>7, <1>9, <1>10, <1>11 DEF d

\* Opening such a file gives that version.
LEMMA OpenedFound ==
  ASSUME mode \in {1, 2}, UNCHANGED mode, NEW f \in SUBSET Exts, Disjoint(f), SkipsBack(f),
         NEW sz \in Nat, NEW stale, Load(f, sz, stale), NEW b \in Nat, NEW w \in Maps, NEW at \in Nat,
         sz # b, b <= sz, Version(f, b, sz - b, w, at), Dead(f, b), \A e \in f : End(e) <= sz,
         file' = f, size' = sz, pend' = << >>, saved' = ContentsOf(f, b, w)
  PROVE  FileOK' /\ IdleOK(at)' /\ base' = b /\ rootWalk' = w
<1> DEFINE d == EndOfData(f, sz)
<1>1. /\ d.found = TRUE /\ d.base = b /\ d.pos = at /\ d.len = WalkLen(w)
      /\ WalkAt(f, b + at, WalkLen(w)) = w
  BY VersionFound
<1>2. /\ base' = IF d.found THEN d.base ELSE sz
      /\ known' = {}
      /\ space' = IF mode = 1 /\ d.found THEN Occupied({}, d.pos, d.len) ELSE {}
      /\ col' = [c \in Cols |-> Clean((IF d.found THEN WalkAt(f, d.base + d.pos, d.len) ELSE EmptyWalk)[c])]
      /\ rootWalk' = IF d.found THEN (IF d.found THEN WalkAt(f, d.base + d.pos, d.len) ELSE EmptyWalk) ELSE stale
  BY DEF Load
<1> HIDE DEF d
<1>3. /\ base' = b /\ known' = {} /\ rootWalk' = w
      /\ space' = IF mode = 1 THEN Occupied({}, at, WalkLen(w)) ELSE {}
      /\ \A c \in Cols : col'[c] = Clean(w[c])
  BY <1>1, <1>2
<1>4. FileOK'
  <2>1. \A i \in DOMAIN << >> : FALSE
    OBVIOUS
  <2>2. \A i \in DOMAIN pend' : pend'[i].at >= base'
    BY <2>1
  <2> QED BY <1>3, <2>2 DEF FileOK
<1>5. sz - b \in Nat /\ sz - b # 0
  OBVIOUS
<1>6. Laid(w, at, sz - b - 2 * Mark)
  BY <1>5 DEF Version
<1>7. Claims(Bytes(at, WalkLen(w)), {}, w, at, sz - b)
  BY <1>5, <1>6, WalkClaims
<1>8. Occupied({}, at, WalkLen(w)) = Bytes(at, WalkLen(w))
  <2>1. Mark <= at /\ WalkLen(w) \in Nat /\ Mark > 1 /\ Mark \in Nat
    <3>1. sz - b - 2 * Mark \in Int
      BY DatafileAssumption
    <3> QED BY <1>6, <3>1, LaidBytes, WalkLenIs, DatafileAssumption
  <2>2. at >= 1
    BY <2>1
  <2>3. AllOrNone({}, Bytes(at, WalkLen(w)))
    BY DEF AllOrNone
  <2>4. Occupied({}, at, WalkLen(w)) = {} \cup Bytes(at, WalkLen(w))
    BY <2>1, <2>2, <2>3, NoSpace, OccupiedIs
  <2> QED BY <2>4
<1>9. mode = 1 => space' = Bytes(at, WalkLen(w))
  BY <1>3, <1>8
<1>10. IdleOK(at)'
  BY <1>3, <1>7, <1>9 DEF IdleOK
<1> QED BY <1>3, <1>4, <1>10

\* Where nothing is found, the storage opens empty, and what there is is left alone.
LEMMA OpenedDead ==
  ASSUME mode \in {1, 2}, UNCHANGED mode, NEW f \in SUBSET Exts, Disjoint(f), SkipsBack(f),
         NEW sz \in Nat, Load(f, sz, EmptyWalk), Dead(f, sz), \A e \in f : End(e) <= sz,
         file' = f, size' = sz, pend' = << >>, saved' = Empty
  PROVE  FileOK' /\ IdleOK(0)' /\ base' = sz /\ rootWalk' = EmptyWalk
<1> DEFINE d == EndOfData(f, sz)
<1>1. ~d.found
  BY DeadIs DEF NoData
<1>2. /\ base' = IF d.found THEN d.base ELSE sz
      /\ known' = {}
      /\ space' = IF mode = 1 /\ d.found THEN Occupied({}, d.pos, d.len) ELSE {}
      /\ col' = [c \in Cols |-> Clean((IF d.found THEN WalkAt(f, d.base + d.pos, d.len) ELSE EmptyWalk)[c])]
      /\ rootWalk' = IF d.found THEN (IF d.found THEN WalkAt(f, d.base + d.pos, d.len) ELSE EmptyWalk) ELSE EmptyWalk
  BY DEF Load
<1> HIDE DEF d
<1>3. /\ base' = sz /\ known' = {} /\ rootWalk' = EmptyWalk /\ space' = {}
      /\ \A c \in Cols : col'[c] = Clean(EmptyWalk[c])
  BY <1>1, <1>2
<1>4. FileOK'
  <2>1. \A i \in DOMAIN << >> : FALSE
    OBVIOUS
  <2>2. \A i \in DOMAIN pend' : pend'[i].at >= base'
    BY <2>1
  <2>3. sz <= sz
    OBVIOUS
  <2> QED BY <1>3, <2>2, <2>3 DEF FileOK
<1>5. size' - base' = 0
  BY <1>3
<1>6. Claims({}, {}, EmptyWalk, 0, 0)
  <2>1. {} \in SUBSET Cols /\ 0 \in Nat
    OBVIOUS
  <2> QED BY <2>1, NoClaims
<1>7. saved' = ContentsOf(file', base', EmptyWalk)
  BY EmptyContents
<1>8. Version(file', base', 0, EmptyWalk, 0)
  BY DEF Version
<1>9. IdleOK(0)'
  BY <1>3, <1>5, <1>6, <1>7, <1>8 DEF IdleOK
<1> QED BY <1>3, <1>4, <1>9

----------------------------------------------------------------------------
\* Crashes.  What the next open finds: a version with given contents, or nothing.
Finds(f, sz, v) ==
  \/ /\ sz # base
     /\ \E w \in Maps, at \in Nat : Version(f, base, sz - base, w, at) /\ v = ContentsOf(f, base, w)
  \/ v = Empty /\ Dead(f, sz)

\* The contents that a crash can leave.
Survivors == IF pc = "idle" THEN {saved}
             ELSE {saved, attempt} \cup IF plan.inPlace THEN {} ELSE {Empty}

\* A complete version, or an empty file, is found.
LEMMA FoundVersion ==
  ASSUME NEW f \in SUBSET Exts, NEW sz \in Nat, base \in Nat, Dead(f, base), NEW end \in Nat, sz = base + end,
         NEW w \in Maps, NEW at \in Nat, Version(f, base, end, w, at)
  PROVE  Finds(f, sz, ContentsOf(f, base, w))
<1>1. sz - base = end
  OBVIOUS
<1>2. CASE end = 0
  <2>1. sz = base /\ w = EmptyWalk
    BY <1>2 DEF Version
  <2> QED BY <2>1, EmptyContents DEF Finds
<1>3. CASE end # 0
  BY <1>1, <1>3 DEF Finds
<1> QED BY <1>2, <1>3

\* A skip mark at the end, which leads back to where the data starts: nothing is found.
LEMMA FoundNothing ==
  ASSUME NEW f \in SUBSET Exts, Disjoint(f), NEW sz \in Nat, base \in Nat, Dead(f, base), NEW p \in Nat,
         SkipAt(base, p) \in f, sz = base + p + Mark
  PROVE  Finds(f, sz, Empty)
<1> DEFINE e == SkipAt(base, p)
<1>1. /\ e.at = base + p /\ e.len = Mark /\ e.what.kind = "skip" /\ e.what.off = p /\ End(e) = sz
  BY SkipIs
<1> HIDE DEF e
<1>2. e.at - e.what.off = base
  BY <1>1
<1>3. Dead(f, End(e))
  BY <1>1, <1>2, SkipIsDead DEF e
<1> QED BY <1>1, <1>3 DEF Finds

\* Whatever becomes of the writes, the file is one that can be opened.
LEMMA CrashFile ==
  ASSUME TInv, FileOK, NEW fate, Possible(pend, fate),
         NEW f, f = FileAfter(file, pend, fate), NEW sz, sz = SizeAfter(size, pend, fate)
  PROVE  /\ f \in SUBSET Exts /\ Disjoint(f) /\ SkipsBack(f) /\ sz \in Nat
         /\ Dead(f, base) /\ base <= sz /\ \A e \in f : End(e) <= sz
<1>1. /\ file \in SUBSET Exts /\ size \in Nat /\ pend \in Seq(Exts) /\ Disjoint(file)
      /\ SkipsBack(file) /\ base \in Nat /\ fate \in FatesOf(pend)
      /\ \A i \in DOMAIN pend : PointsBack(pend[i])
  BY DEF TInv, FileTyped, MemTyped, Possible
<1>2. /\ f \in SUBSET Exts /\ Disjoint(f)
      /\ \A e \in f : e \in file \/ \E i \in DOMAIN pend : e = pend[i]
  BY <1>1, FileAfterIs
<1>3. SkipsBack(f)
  BY <1>1, <1>2 DEF SkipsBack
<1>4. /\ Dead(file, base) /\ base <= size /\ \A e \in file : End(e) <= size
      /\ \A i \in DOMAIN pend : pend[i].at >= base
  BY DEF FileOK
<1>5. /\ sz \in Nat /\ size <= sz /\ \A e \in f : End(e) <= sz
  BY <1>1, <1>4, SizeAfterIs
<1>6. \A e \in f : e.at < base => e \in file
  <2>1. \A i \in DOMAIN pend : pend[i] \in Exts
    BY <1>1
  <2>2. \A i \in DOMAIN pend : ~(pend[i].at < base)
    BY <1>1, <1>4, <2>1 DEF Exts
  <2> QED BY <1>2, <2>2
<1>7. Dead(f, base)
  BY <1>1, <1>2, <1>4, <1>6, DeadStays
<1> QED BY <1>1, <1>2, <1>3, <1>4, <1>5, <1>7

\* Between commits.
LEMMA IdleLeaves ==
  ASSUME TInv, FileOK, NEW at \in Nat, IdleOK(at), NEW fate, Possible(pend, fate),
         NEW f, f = FileAfter(file, pend, fate), NEW sz, sz = SizeAfter(size, pend, fate)
  PROVE  Finds(f, sz, saved)
<1>1. /\ file \in SUBSET Exts /\ size \in Nat /\ base \in Nat /\ rootWalk \in Maps
      /\ pend = << >> /\ fate \in FatesOf(<< >>)
  BY DEF TInv, FileTyped, MemTyped, Possible, IdleOK
<1>2. f = file /\ sz = size
  BY <1>1, NothingPending
<1>3. Dead(file, base) /\ base <= size
  BY DEF FileOK
<1>4. PICK end \in Nat : end = size - base
  BY <1>1, <1>3
<1>5. Version(file, base, end, rootWalk, at) /\ saved = ContentsOf(file, base, rootWalk)
  BY <1>4 DEF IdleOK
<1>6. size = base + end
  BY <1>1, <1>4
<1> QED BY <1>1, <1>2, <1>3, <1>5, <1>6, FoundVersion

\* Before the first flush of a commit that makes the file grow.
LEMMA SkipLeaves ==
  ASSUME TInv, FileOK, NEW at \in Nat, BusyOK(at), pc \in Skipping, NEW fate, Possible(pend, fate),
         NEW f, f = FileAfter(file, pend, fate), NEW sz, sz = SizeAfter(size, pend, fate)
  PROVE  Finds(f, sz, saved) \/ (~plan.inPlace /\ Finds(f, sz, Empty))
<1> DEFINE x == SkipAt(base, plan.limit)
<1>1. /\ file \in SUBSET Exts /\ size \in Nat /\ base \in Nat /\ plan.old \in Maps
      /\ Mark \in Nat /\ plan.end \in Nat /\ plan.limit \in Nat /\ fate \in FatesOf(pend)
      /\ pend \in Seq(Exts)
  BY PlanFacts DEF TInv, FileTyped, Skipping, Possible
<1>2. SkipOK(at) /\ SavedOK /\ LayOK(at)
  BY DEF BusyOK, RecoverOK
<1>3. Version(file, base, plan.end, plan.old, at) /\ size = base + plan.end
  BY <1>2 DEF SkipOK
<1>4. saved = ContentsOf(file, base, plan.old)
  BY <1>2 DEF SavedOK
<1>5. Dead(file, base)
  BY DEF FileOK
<1>6. Finds(file, size, saved)
  BY <1>1, <1>3, <1>4, <1>5, FoundVersion
<1>7. CASE pend = << >>
  <2>1. f = file /\ sz = size
    BY <1>1, <1>7, NothingPending
  <2> QED BY <1>6, <2>1
<1>8. CASE pend = <<x>>
  <2>1. x.what.kind = "skip" /\ End(x) = base + plan.limit + Mark
    BY <1>1, SkipIs
  <2> HIDE DEF x
  <2>2. x \in Exts /\ 1 \in DOMAIN pend /\ pend[1] = x
    BY <1>1, <1>8
  <2>3. fate[1] \in {"done", "lost"}
    BY <2>1, <2>2 DEF Possible, Fates
  <2>4. f = Survive(file, x, fate[1]) /\ sz = IF fate[1] = "lost" THEN size ELSE Longest(size, x)
    BY <1>1, <1>8, <2>2, OnePending
  <2>5. CASE fate[1] = "lost"
    BY <1>6, <2>4, <2>5 DEF Survive
  <2>6. CASE fate[1] = "done"
    <3>1. f = Written(file, x) /\ sz = Longest(size, x)
      BY <2>4, <2>6 DEF Survive
    <3>2. x \in f
      BY <1>1, <2>2, <3>1, WrittenIs
    <3>3. ~plan.inPlace
      BY DEF TInv, PlanTyped, Skipping
    <3>4. sz = base + plan.limit + Mark
      BY <1>1, <1>2, <1>3, <2>1, <3>1, <3>3 DEF Longest, LayOK
    <3>5. Dead(f, base) /\ Disjoint(f) /\ f \in SUBSET Exts /\ sz \in Nat
      BY CrashFile
    <3>6. Finds(f, sz, Empty)
      BY <1>1, <3>2, <3>4, <3>5, FoundNothing DEF x
    <3> QED BY <3>3, <3>6
  <2> QED BY <2>3, <2>5, <2>6
<1> QED BY <1>2, <1>7, <1>8 DEF SkipOK, Skipping

\* While the columns are written.
LEMMA WritingLeaves ==
  ASSUME TInv, FileOK, NEW at \in Nat, BusyOK(at), pc \in Writing, NEW fate, Possible(pend, fate),
         NEW f, f = FileAfter(file, pend, fate), NEW sz, sz = SizeAfter(size, pend, fate)
  PROVE  Finds(f, sz, saved) \/ (~plan.inPlace /\ Finds(f, sz, Empty))
<1>1. /\ size \in Nat /\ base \in Nat /\ plan.old \in Maps
      /\ Mark \in Nat /\ plan.end \in Nat /\ plan.end0 \in Nat /\ fate \in FatesOf(pend)
      /\ End1 = plan.end0 + Mark
  BY PlanFacts DEF TInv, FileTyped, Writing, Possible
<1>2. MarksOK(at) /\ SavedOK /\ LayOK(at)
  BY DEF BusyOK, RecoverOK, Writing, Skipping, WritingOK
<1>3. \A y \in Kept : y \in f
  BY KeptSurvives
<1>4. f \in SUBSET Exts /\ Disjoint(f) /\ Dead(f, base)
  BY CrashFile
<1>5. sz = size
  BY <1>1, <1>2, SizeStays DEF MarksOK
<1>6. CASE plan.inPlace
  <2>1. /\ SkipAt(base, plan.end0) \in f /\ TailAt(base, End1, at, plan.old) \in f
        /\ WalkOf(base, at, plan.old) \in f /\ size = base + plan.end
        /\ plan.end > 0 => HeadAt(base) \in f
    BY <1>2, <1>3, <1>6 DEF MarksOK
  <2>2. plan.end0 = plan.end - 2 * Mark /\ plan.end > 2 * Mark
    BY <1>6 DEF TInv, PlanTyped, Writing
  <2>3. End1 = plan.end - Mark /\ plan.end > 0 /\ plan.end # 0
    BY <1>1, <2>2
  <2>4. Laid(plan.old, at, plan.end - 2 * Mark)
    BY <1>2, <2>3 DEF LayOK
  <2>5. Version(f, base, plan.end, plan.old, at)
    BY <2>1, <2>2, <2>3, <2>4 DEF Version
  <2>6. ContentsOf(f, base, plan.old) = saved
    BY <1>1, <1>2, SavedStays
  <2>7. Finds(f, sz, ContentsOf(f, base, plan.old))
    BY <1>1, <1>4, <1>5, <2>1, <2>5, FoundVersion
  <2> QED BY <2>6, <2>7
<1>7. CASE ~plan.inPlace
  <2>1. SkipAt(base, plan.end0) \in f /\ size = base + End1
    BY <1>2, <1>3, <1>7 DEF MarksOK
  <2>2. sz \in Nat /\ sz = base + plan.end0 + Mark
    BY <1>1, <1>5, <2>1
  <2> QED BY <1>1, <1>4, <1>7, <2>1, <2>2, FoundNothing
<1> QED BY <1>6, <1>7

\* A file that has all of the new version.
LEMMA NewVersionFound ==
  ASSUME TInv, NEW at \in Nat, LayOK(at), pc # "idle",
         NEW f \in SUBSET Exts, NEW sz \in Nat, Dead(f, base), sz = base + End2,
         HeadAt(base) \in f, SkipAt(base, plan.end0) \in f,
         TailAt(base, End1, plan.walkPos, plan.walk) \in f, WalkOf(base, plan.walkPos, plan.walk) \in f
  PROVE  Finds(f, sz, ContentsOf(f, base, plan.walk))
<1>1. /\ Mark \in Nat /\ Mark > 1 /\ base \in Nat /\ plan.end0 \in Nat /\ plan.walkPos \in Nat
      /\ plan.walk \in Maps /\ End1 = plan.end0 + Mark /\ End2 = plan.end0 + 2 * Mark
  BY PlanFacts
<1>2. End2 \in Nat /\ End2 # 0 /\ End2 - 2 * Mark = plan.end0 /\ End2 - Mark = End1
  BY <1>1
<1>3. Version(f, base, End2, plan.walk, plan.walkPos)
  BY <1>2 DEF Version, LayOK
<1> QED BY <1>1, <1>2, <1>3, FoundVersion

\* The process sees the new version: so does the next open, when all is written.
LEMMA ImageLeaves ==
  ASSUME TInv, NEW at \in Nat, BusyOK(at), pc \in {"flushTail", "header", "finish"},
         Dead(Image, base)
  PROVE  Finds(Image, FileSize, attempt)
<1>1. /\ HeadAt(base) \in Image /\ SkipAt(base, plan.end0) \in Image
      /\ TailAt(base, End1, plan.walkPos, plan.walk) \in Image
      /\ WalkOf(base, plan.walkPos, plan.walk) \in Image
      /\ FileSize = base + End2
  BY NewVersionSeen DEF BusyOK
<1>2. Image \in SUBSET Exts /\ FileSize \in Nat
  BY ImageIs DEF TInv
<1>3. Finds(Image, FileSize, ContentsOf(Image, base, plan.walk))
  BY <1>1, <1>2, NewVersionFound DEF BusyOK
<1>4. attempt = ContentsOf(Image, base, plan.walk)
  <2>1. attempt = [c \in Cols |-> attempt[c]]
    BY DEF TInv, HistoryTyped, Contents
  <2> QED BY <2>1, AttemptSeen DEF ContentsOf, BusyOK
<1> QED BY <1>3, <1>4

\* When the commit tail is the one write that is pending.
LEMMA TailLeaves ==
  ASSUME TInv, FileOK, NEW at \in Nat, BusyOK(at), TailIsPending, NEW fate, Possible(pend, fate),
         NEW f, f = FileAfter(file, pend, fate), NEW sz, sz = SizeAfter(size, pend, fate)
  PROVE  Finds(f, sz, saved) \/ Finds(f, sz, attempt) \/ (~plan.inPlace /\ Finds(f, sz, Empty))
<1> DEFINE x == TailAt(base, End1, plan.walkPos, plan.walk)
<1>1. /\ file \in SUBSET Exts /\ size \in Nat /\ base \in Nat /\ plan.old \in Maps
      /\ Mark \in Nat /\ plan.end \in Nat /\ plan.end0 \in Nat /\ fate \in FatesOf(pend)
      /\ End1 = plan.end0 + Mark /\ Disjoint(file) /\ pend \in Seq(Exts)
  BY PlanFacts DEF TInv, FileTyped, TailIsPending, Possible
<1>2. TailOK(at) /\ SavedOK /\ LayOK(at)
  BY DEF BusyOK, RecoverOK, Writing, Skipping, TailIsPending
<1>3. pend = <<x>>
  BY <1>2 DEF TailOK
<1>4. x.what.kind = "tail"
  BY DEF TailAt, Extent, TailMark
<1> HIDE DEF x
<1>5. x \in Exts /\ 1 \in DOMAIN pend /\ pend[1] = x
  BY <1>1, <1>3
<1>6. fate[1] \in {"done", "lost"}
  BY <1>4, <1>5 DEF Possible, Fates
<1>7. f = Survive(file, x, fate[1]) /\ sz = IF fate[1] = "lost" THEN size ELSE Longest(size, x)
  <2>1. file \in SUBSET Exts /\ size \in Nat /\ fate \in FatesOf(pend)
    BY <1>1
  <2>2. /\ FileAfter(file, pend, fate) = Survive(file, x, fate[1])
        /\ SizeAfter(size, pend, fate) = IF fate[1] = "lost" THEN size ELSE Longest(size, x)
    BY <1>3, <1>5, <2>1, OnePending
  <2> QED BY <2>2
<1>8. CASE fate[1] = "done"
  <2>1. f = Image /\ sz = FileSize
    BY <1>3, <1>5, <1>7, <1>8, OneDone DEF Survive
  <2>2. Dead(f, base)
    BY CrashFile
  <2> QED BY <2>1, <2>2, ImageLeaves DEF TailIsPending
<1>9. CASE fate[1] = "lost"
  <2>1. f = file /\ sz = size /\ Dead(file, base)
    BY <1>7, <1>9 DEF Survive, FileOK
  <2>2. CASE plan.inPlace
    <3>1. /\ HeadAt(base) \in file /\ SkipAt(base, plan.end0) \in file
          /\ size = base + plan.end /\ TailAt(base, End1, at, plan.old) \in file
          /\ WalkOf(base, at, plan.old) \in file
      BY <1>2, <2>2 DEF TailOK
    <3>2. plan.end0 = plan.end - 2 * Mark /\ plan.end > 2 * Mark
      BY <2>2 DEF TInv, PlanTyped, TailIsPending
    <3>3. End1 = plan.end - Mark /\ plan.end > 0 /\ plan.end # 0
      BY <1>1, <3>2
    <3>4. Laid(plan.old, at, plan.end - 2 * Mark)
      BY <1>2, <3>3 DEF LayOK
    <3>5. Version(file, base, plan.end, plan.old, at)
      BY <3>1, <3>2, <3>3, <3>4 DEF Version
    <3>6. ContentsOf(file, base, plan.old) = saved
      BY <1>2 DEF SavedOK
    <3>7. Finds(file, size, ContentsOf(file, base, plan.old))
      BY <1>1, <2>1, <3>1, <3>5, FoundVersion
    <3> QED BY <2>1, <3>6, <3>7
  <2>3. CASE ~plan.inPlace
    <3>1. SkipAt(base, plan.end0) \in file /\ size = base + plan.end0 + Mark
      BY <1>1, <1>2, <2>3 DEF TailOK
    <3> QED BY <1>1, <2>1, <2>3, <3>1, FoundNothing
  <2> QED BY <2>2, <2>3
<1> QED BY <1>6, <1>8, <1>9

\* After the commit tail is flushed: only the header may be pending.
LEMMA DoneLeaves ==
  ASSUME TInv, FileOK, NEW at \in Nat, BusyOK(at), pc \in {"header", "finish"}, ~TailIsPending,
         NEW fate, Possible(pend, fate),
         NEW f, f = FileAfter(file, pend, fate), NEW sz, sz = SizeAfter(size, pend, fate)
  PROVE  Finds(f, sz, attempt)
<1> DEFINE head == HeadAt(base)
<1>1. /\ file \in SUBSET Exts /\ size \in Nat /\ base \in Nat /\ plan.walk \in Maps
      /\ Mark \in Nat /\ plan.end0 \in Nat /\ fate \in FatesOf(pend) /\ Disjoint(file)
      /\ pend \in Seq(Exts)
  BY PlanFacts DEF TInv, FileTyped, Possible
<1>2. DoneOK /\ LayOK(at)
  BY DEF BusyOK, RecoverOK, Writing, Skipping
<1>3. /\ head \in file /\ SkipAt(base, plan.end0) \in file
      /\ TailAt(base, End1, plan.walkPos, plan.walk) \in file
      /\ WalkOf(base, plan.walkPos, plan.walk) \in file
      /\ size = base + End2 /\ (pend = << >> \/ pend = <<head>>)
  BY <1>2 DEF DoneOK
<1>4. head.at = base /\ head.len = Mark /\ head.what.kind = "head"
  BY <1>1, HeadIs
<1>5. Dead(f, base) /\ f \in SUBSET Exts /\ Disjoint(f) /\ Dead(file, base)
  BY CrashFile DEF FileOK
<1> HIDE DEF head
<1>6. CASE pend = << >>
  <2>1. f = file /\ sz = size /\ Image = file /\ FileSize = size
    BY <1>1, <1>6, NothingPending, ImageIsFile
  <2> QED BY <1>5, <2>1, ImageLeaves
<1>7. CASE pend = <<head>>
  <2>1. head \in Exts /\ 1 \in DOMAIN pend /\ pend[1] = head
    BY <1>1, <1>7
  <2>2. fate[1] \in {"done", "lost"}
    BY <1>4, <2>1 DEF Possible, Fates
  <2>3. f = Survive(file, head, fate[1]) /\ sz = IF fate[1] = "lost" THEN size ELSE Longest(size, head)
    BY <1>1, <1>7, <2>1, OnePending
  <2>4. Image = Written(file, head) /\ FileSize = Longest(size, head)
    BY <1>7, <2>1, OneDone
  <2>5. CASE fate[1] = "done"
    <3>1. f = Image /\ sz = FileSize
      BY <2>3, <2>4, <2>5 DEF Survive
    <3> QED BY <1>5, <3>1, ImageLeaves
  <2>6. CASE fate[1] = "lost"
    <3>1. f = file /\ sz = size
      BY <2>3, <2>6 DEF Survive
    <3>2. Finds(file, size, ContentsOf(file, base, plan.walk))
      BY <1>1, <1>2, <1>3, <1>5, NewVersionFound DEF head
    <3>3. ASSUME NEW c \in Cols
          PROVE  ContentAt(file, base, plan.walk[c]) = ContentAt(Image, base, plan.walk[c])
      <4>1. plan.walk[c].len \in Nat /\ plan.walk[c].pos \in Nat
        BY <1>2, Places
      <4>2. plan.walk[c].len > 0 => Misses(head, base + plan.walk[c].pos, plan.walk[c].len)
        <5>1. head.at = base + 0
          BY <1>1, <1>4
        <5> QED BY <1>2, <1>4, <5>1, MarkMisses
      <4>3. Image \in SUBSET Exts /\ Disjoint(Image)
        BY ImageIs DEF TInv
      <4>4. AllDone(pend) \in FatesOf(pend) /\ Image = FileAfter(file, pend, AllDone(pend))
        BY <1>1, DoneIsPossible DEF Image
      <4>5. \A i \in DOMAIN pend : pend[i] = head
        BY <1>7
      <4>6. plan.walk[c].len > 0 =>
              \A x : x.at = base + plan.walk[c].pos /\ x.len = plan.walk[c].len => (x \in file <=> x \in Image)
        <5>1. SUFFICES ASSUME plan.walk[c].len > 0, NEW x, x.at = base + plan.walk[c].pos, x.len = plan.walk[c].len
                       PROVE  x \in file <=> x \in Image
          OBVIOUS
        <5>2. \A i \in DOMAIN pend : Misses(pend[i], base + plan.walk[c].pos, plan.walk[c].len)
          BY <4>2, <4>5, <5>1
        <5>3. base + plan.walk[c].pos \in Int
          BY <1>1, <4>1
        <5> QED BY <1>1, <4>1, <4>4, <5>1, <5>2, <5>3, MissedStays
      <4> QED BY <1>1, <4>3, <4>6, SameContent
    <3>4. attempt = ContentsOf(file, base, plan.walk)
      <4>1. attempt = [c \in Cols |-> attempt[c]]
        BY DEF TInv, HistoryTyped, Contents
      <4>2. \A c \in Cols : ContentAt(Image, base, plan.walk[c]) = attempt[c]
        BY AttemptSeen DEF BusyOK
      <4> QED BY <3>3, <4>1, <4>2 DEF ContentsOf
    <3> QED BY <3>1, <3>2, <3>4
  <2> QED BY <2>2, <2>5, <2>6
<1> QED BY <1>3, <1>6, <1>7

\* A crash leaves the version last committed, or the one that is being saved, or
\* nothing when the commit makes the file grow.
LEMMA CrashLeaves ==
  ASSUME TInv, SoundOK, NEW fate, Possible(pend, fate),
         NEW f, f = FileAfter(file, pend, fate), NEW sz, sz = SizeAfter(size, pend, fate)
  PROVE  \E v \in Survivors : Finds(f, sz, v)
<1>1. FileOK
  BY DEF SoundOK
<1>2. PICK at \in Nat : IF pc = "idle" THEN IdleOK(at) ELSE BusyOK(at)
  BY DEF SoundOK
<1>3. CASE pc = "idle"
  <2>1. Finds(f, sz, saved)
    BY <1>1, <1>2, <1>3, IdleLeaves
  <2> QED BY <1>3, <2>1 DEF Survivors
<1>4. CASE pc # "idle"
  <2>1. BusyOK(at) /\ pc \in Steps
    BY <1>2, <1>4 DEF TInv, PlanTyped
  <2>2. Finds(f, sz, saved) \/ Finds(f, sz, attempt) \/ (~plan.inPlace /\ Finds(f, sz, Empty))
    <3>1. CASE pc \in Skipping
      BY <1>1, <2>1, <3>1, SkipLeaves
    <3>2. CASE pc \in Writing
      BY <1>1, <2>1, <3>2, WritingLeaves
    <3>3. CASE TailIsPending
      BY <1>1, <2>1, <3>3, TailLeaves
    <3>4. CASE pc \in {"header", "finish"} /\ ~TailIsPending
      BY <1>1, <2>1, <3>4, DoneLeaves
    <3> QED BY <1>4, <2>1, <3>1, <3>2, <3>3, <3>4 DEF Steps, Skipping, Writing, TailIsPending
  <2> QED BY <1>4, <2>2 DEF Survivors
<1> QED BY <1>3, <1>4

\* Opening a file in which something is found gives just that.
LEMMA OpenedIs ==
  ASSUME mode \in {1, 2}, UNCHANGED mode, base \in Nat, NEW f \in SUBSET Exts, Disjoint(f), SkipsBack(f),
         NEW sz \in Nat, base <= sz, Load(f, sz, EmptyWalk), Dead(f, base), \A e \in f : End(e) <= sz,
         NEW v, Finds(f, sz, v),
         file' = f, size' = sz, pend' = << >>, saved' = Recovered(f, sz) \/ saved' = v
  PROVE  saved' = v /\ FileOK' /\ \E at \in Nat : IdleOK(at)'
<1>1. CASE v = Empty /\ Dead(f, sz)
  <2>1. Recovered(f, sz) = Empty
    BY <1>1, DeadIs DEF Recovered, NoData
  <2>2. saved' = Empty
    BY <1>1, <2>1
  <2>3. FileOK' /\ IdleOK(0)'
    BY <1>1, <2>2, OpenedDead
  <2>4. 0 \in Nat
    OBVIOUS
  <2> QED BY <1>1, <2>2, <2>3, <2>4
<1>2. CASE sz # base /\ \E w \in Maps, at \in Nat : Version(f, base, sz - base, w, at) /\ v = ContentsOf(f, base, w)
  <2>1. PICK w \in Maps, at \in Nat : Version(f, base, sz - base, w, at) /\ v = ContentsOf(f, base, w)
    BY <1>2
  <2>2. Recovered(f, sz) = ContentsOf(f, base, w)
    BY <1>2, <2>1, VersionFound
  <2>3. saved' = ContentsOf(f, base, w)
    BY <2>1, <2>2
  <2>4. FileOK' /\ IdleOK(at)'
    BY <1>2, <2>1, <2>3, OpenedFound
  <2> QED BY <2>1, <2>3, <2>4
<1> QED BY <1>1, <1>2 DEF Finds

\* After a crash the storage is open on one of the versions that may survive.
LEMMA CrashKeeps ==
  ASSUME TInv, UNCHANGED mode, SoundOK, Crash
  PROVE  /\ ~failure' /\ FileOK' /\ pc' = "idle" /\ \E at \in Nat : IdleOK(at)'
         /\ saved' \in Survivors
<1>1. PICK fate \in [DOMAIN pend -> {"done", "torn", "lost"}] :
        /\ \A i \in DOMAIN pend : fate[i] \in Fates(pend[i])
        /\ file' = FileAfter(file, pend, fate) /\ size' = SizeAfter(size, pend, fate)
        /\ Load(file', size', EmptyWalk)
        /\ saved' = Recovered(file', size') /\ attempt' = saved'
  BY DEF Crash
<1>2. pend' = << >> /\ failure' = FALSE /\ pc' = "idle" /\ mode \in {1, 2} /\ base \in Nat
  BY DEF Crash, TInv, FileTyped, MemTyped
<1>3. Possible(pend, fate) /\ FileOK
  BY <1>1 DEF Possible, FatesOf, SoundOK
<1>4. PICK f : f = file'
  OBVIOUS
<1>5. PICK sz : sz = size'
  OBVIOUS
<1>6. /\ f = FileAfter(file, pend, fate) /\ sz = SizeAfter(size, pend, fate)
      /\ Load(f, sz, EmptyWalk) /\ saved' = Recovered(f, sz)
  BY <1>1, <1>4, <1>5
<1>7. /\ f \in SUBSET Exts /\ Disjoint(f) /\ SkipsBack(f) /\ sz \in Nat
      /\ Dead(f, base) /\ base <= sz /\ \A e \in f : End(e) <= sz
  BY <1>3, <1>6, CrashFile
<1>8. PICK v \in Survivors : Finds(f, sz, v)
  BY <1>3, <1>6, CrashLeaves
<1>9. saved' = v /\ FileOK' /\ \E at \in Nat : IdleOK(at)'
  BY <1>2, <1>4, <1>5, <1>6, <1>7, <1>8, OpenedIs
<1> QED BY <1>2, <1>8, <1>9

\* Rollback finds the version last committed.
LEMMA RollbackKeeps ==
  ASSUME TInv, UNCHANGED mode, SoundOK, Rollback
  PROVE  /\ ~failure' /\ FileOK' /\ pc' = "idle" /\ saved' = saved /\ \E at \in Nat : IdleOK(at)'
<1>1. /\ file' = file /\ size' = size /\ pend' = pend /\ failure' = failure
      /\ pc = "idle" /\ pc' = pc /\ saved' = saved /\ Load(Image, FileSize, rootWalk)
  BY DEF Rollback, filevars
<1>2. ~failure /\ FileOK /\ mode \in {1, 2} /\ base \in Nat
  BY DEF SoundOK, TInv, FileTyped, MemTyped
<1>3. PICK at \in Nat : IdleOK(at)
  BY <1>1 DEF SoundOK
<1>4. pend = << >>
  BY <1>3 DEF IdleOK
<1>5. Image = file /\ FileSize = size
  BY <1>4, ImageIsFile
<1>6. Load(file, size, EmptyWalk) \/ (size # base /\ Load(file, size, rootWalk))
  <2>1. CASE size = base
    <3>1. size - base = 0
      BY <1>2, <2>1
    <3>2. rootWalk = EmptyWalk
      BY <1>3, <3>1 DEF IdleOK, Version
    <3> QED BY <1>1, <1>5, <3>2
  <2>2. CASE size # base
    BY <1>1, <1>5, <2>2
  <2> QED BY <2>1, <2>2
<1>7. /\ file \in SUBSET Exts /\ Disjoint(file) /\ SkipsBack(file) /\ size \in Nat /\ rootWalk \in Maps
      /\ Dead(file, base) /\ base <= size /\ \A e \in file : End(e) <= size
  BY DEF TInv, FileTyped, MemTyped, SoundOK, FileOK
<1>8. Version(file, base, size - base, rootWalk, at) /\ saved = ContentsOf(file, base, rootWalk)
  BY <1>3 DEF IdleOK
<1>9. CASE size # base
  <2>1. FileOK' /\ IdleOK(at)'
    BY <1>1, <1>2, <1>4, <1>6, <1>7, <1>8, <1>9, OpenedFound
  <2> QED BY <1>1, <1>2, <2>1
<1>10. CASE size = base
  <2>1. size - base = 0
    BY <1>2, <1>10
  <2>2. rootWalk = EmptyWalk
    BY <1>8, <2>1 DEF Version
  <2>3. saved = Empty
    BY <1>8, <2>2, EmptyContents
  <2>4. FileOK' /\ IdleOK(0)'
    BY <1>1, <1>2, <1>4, <1>6, <1>7, <1>10, <2>3, OpenedDead
  <2>5. 0 \in Nat
    OBVIOUS
  <2> QED BY <1>1, <1>2, <2>4, <2>5
<1> QED BY <1>9, <1>10

----------------------------------------------------------------------------
\* One column more is claimed: it is apart from everything else.
LEMMA ClaimsGrow ==
  ASSUME NEW u, NEW set \in SUBSET Cols, NEW w \in Maps, NEW at \in Nat, NEW end \in Nat,
         Claims(u, set, w, at, end), NEW c \in Cols,
         IF end = 0 THEN w = EmptyWalk ELSE Laid(w, at, end - 2 * Mark)
  PROVE  Claims(u \cup BytesOf(w[c]), set \cup {c}, w, at, end)
<1> DEFINE block == BytesOf(w[c])
<1>1. Mark \in Nat
  BY DatafileAssumption
<1>2. CASE end = 0
  <2>1. block = {}
    BY <1>2, EmptyWalkIs DEF BytesOf, Bytes
  <2> HIDE DEF block
  <2>2. u \cup block = u
    BY <2>1
  <2>3. block \subseteq u
    BY <2>1
  <2> QED BY <1>2, <2>2, <2>3 DEF Claims, block
<1>3. CASE end # 0
  <2>1. end - 2 * Mark \in Int /\ Laid(w, at, end - 2 * Mark)
    BY <1>1, <1>3
  <2>2. /\ block \subseteq Mark .. end - 2 * Mark - 1
        /\ \A d \in Cols : d # c => block \cap BytesOf(w[d]) = {}
    BY <2>1, LaidBytes
  <2> HIDE DEF block
  <2>3. block \cap Bytes(1, Mark - 1) = {} /\ block \cap Bytes(end - 2 * Mark, 2 * Mark) = {}
        /\ block \cap Bytes(end, Mark) = {}
    BY <1>1, <2>2 DEF Bytes
  <2>4. \A b : AllOrNone(u, b) /\ block \cap b = {} => AllOrNone(u \cup block, b)
    BY DEF AllOrNone
  <2>5. \A d \in Cols : AllOrNone(u \cup block, BytesOf(w[d]))
    <3>1. SUFFICES ASSUME NEW d \in Cols PROVE AllOrNone(u \cup block, BytesOf(w[d]))
      OBVIOUS
    <3>2. CASE d = c
      BY <3>2 DEF AllOrNone, block
    <3>3. CASE d # c
      BY <2>2, <2>4, <3>3 DEF Claims
    <3> QED BY <3>2, <3>3
  <2>6. \A d \in set \cup {c} : BytesOf(w[d]) \subseteq u \cup block
    BY DEF Claims, block
  <2>7. Claims(u \cup block, set \cup {c}, w, at, end)
    BY <2>3, <2>4, <2>5, <2>6 DEF Claims
  <2> QED BY <2>7 DEF block
<1> QED BY <1>2, <1>3

\* A column that is changed is claimed first: the version saved still has it there.
LEMMA ModifyKeeps ==
  ASSUME TInv, UNCHANGED mode, SoundOK, NEW c \in Cols, NEW len, NEW tag, Modify(c, len, tag)
  PROVE  ~failure' /\ FileOK' /\ pc' = "idle" /\ \E at \in Nat : IdleOK(at)'
<1>1. /\ file' = file /\ size' = size /\ pend' = pend /\ failure' = failure /\ base' = base
      /\ pc = "idle" /\ pc' = pc /\ saved' = saved /\ rootWalk' = rootWalk /\ mode' = mode
      /\ known' = known \cup {c} /\ space' = Claimed(space, c)
      /\ col' = [col EXCEPT ![c] = Changed(len, tag)]
  BY DEF Modify, filevars
<1>2. ~failure /\ FileOK
  BY DEF SoundOK
<1>3. PICK at \in Nat : IdleOK(at)
  BY <1>1 DEF SoundOK
<1>4. FileOK'
  BY <1>1, <1>2 DEF FileOK
<1>5. /\ ColumnsTyped /\ known \in SUBSET Cols /\ space \in Spaces /\ base \in Nat /\ size \in Nat
      /\ rootWalk \in Maps /\ base <= size
  BY DEF TInv, MemTyped, FileTyped, SoundOK, FileOK
<1>6. \A d \in Cols : ~col'[d].dirty => col'[d] = Clean(rootWalk[d])
  <2>1. SUFFICES ASSUME NEW d \in Cols, ~col'[d].dirty PROVE col'[d] = Clean(rootWalk[d])
    OBVIOUS
  <2>2. col'[c] = Changed(len, tag) /\ Changed(len, tag).dirty
    BY <1>1, <1>5 DEF ColumnsTyped, Changed
  <2>3. d # c
    BY <2>1, <2>2
  <2>4. col'[d] = col[d]
    BY <1>1, <1>5, <2>3 DEF ColumnsTyped
  <2> QED BY <1>3, <2>1, <2>4 DEF IdleOK
<1>7. PICK end \in Nat : end = size - base
  BY <1>5
<1>8. IF end = 0 THEN rootWalk = EmptyWalk ELSE Laid(rootWalk, at, end - 2 * Mark)
  BY <1>3, <1>7 DEF IdleOK, Version
<1>9. ASSUME mode = 1 PROVE Claims(space', known', rootWalk, at, end)
  <2>1. Claims(space, known, rootWalk, at, end)
    BY <1>3, <1>7, <1>9 DEF IdleOK
  <2>2. CASE c \in known
    <3>1. space' = space /\ known' = known
      BY <1>1, <1>5, <2>2, ClaimedIs
    <3> QED BY <2>1, <3>1
  <2>3. CASE c \notin known
    <3>1. ~col[c].dirty
      BY <1>5, <2>3 DEF ColumnsTyped
    <3>2. col[c].pos = rootWalk[c].pos /\ col[c].len = rootWalk[c].len
      <4>1. col[c] = Clean(rootWalk[c])
        BY <1>3, <3>1 DEF IdleOK
      <4> QED BY <4>1 DEF Clean
    <3>3. AllOrNone(space, Bytes(col[c].pos, col[c].len))
      BY <2>1, <3>2 DEF Claims, BytesOf
    <3>4. Claimed(space, c) = space \cup Bytes(col[c].pos, col[c].len)
      BY <1>5, <1>9, <2>3, <3>3, ClaimedIs
    <3>5. space' = space \cup BytesOf(rootWalk[c])
      BY <1>1, <3>2, <3>4 DEF BytesOf
    <3>6. Claims(space \cup BytesOf(rootWalk[c]), known \cup {c}, rootWalk, at, end)
      BY <1>5, <1>8, <2>1, ClaimsGrow
    <3> QED BY <1>1, <3>5, <3>6
  <2> QED BY <2>2, <2>3
<1>10. IdleOK(at)'
  BY <1>1, <1>3, <1>6, <1>7, <1>9 DEF IdleOK
<1> QED BY <1>1, <1>2, <1>4, <1>10

\* A new file.
LEMMA InitKeeps ==
  ASSUME Init
  PROVE  SoundOK /\ pc = "idle"
<1>1. /\ file = {} /\ size = 0 /\ pend = << >> /\ failure = FALSE /\ base = 0
      /\ col = [c \in Cols |-> Clean(Location(0, 0))] /\ known = {} /\ space = {}
      /\ rootWalk = EmptyWalk /\ pc = "idle" /\ saved = Empty
  BY DEF Init
<1>2. \A i \in DOMAIN << >> : FALSE
  OBVIOUS
<1>3. Dead({}, 0)
  BY NothingIsDead
<1>4. FileOK
  <2>1. \A i \in DOMAIN pend : pend[i].at >= base
    BY <1>1, <1>2
  <2>2. base <= size /\ Dead(file, base) /\ \A e \in file : End(e) <= size
    BY <1>1, <1>3
  <2> QED BY <2>1, <2>2 DEF FileOK
<1>5. size - base = 0
  BY <1>1
<1>6. Version(file, base, 0, rootWalk, 0)
  BY <1>1 DEF Version
<1>7. saved = ContentsOf(file, base, rootWalk)
  BY <1>1, EmptyContents
<1>8. \A c \in Cols : col[c] = Clean(rootWalk[c])
  BY <1>1 DEF EmptyWalk
<1>9. Claims(space, known, rootWalk, 0, 0)
  BY <1>1, NoClaims
<1>10. IdleOK(0)
  BY <1>1, <1>5, <1>6, <1>7, <1>8, <1>9 DEF IdleOK
<1> QED BY <1>1, <1>4, <1>10 DEF SoundOK

----------------------------------------------------------------------------
\* The start of a commit: what there is.
LEMMA StartFrom ==
  ASSUME TInv, FileOK, NEW at \in Nat, IdleOK(at)
  PROVE  /\ pend = << >> /\ Image = file /\ FileSize = size /\ Kept = file
         /\ DataEnd \in Nat /\ size = base + DataEnd
         /\ Version(file, base, DataEnd, rootWalk, at) /\ saved = ContentsOf(file, base, rootWalk)
         /\ \A c \in Cols : ~col[c].dirty => col[c].pos = rootWalk[c].pos /\ col[c].len = rootWalk[c].len
         /\ mode = 1 => Claims(space, known, rootWalk, at, DataEnd)
         /\ DataEnd = 0 => rootWalk = EmptyWalk
         /\ DataEnd > 0 => /\ Laid(rootWalk, at, DataEnd - 2 * Mark) /\ DataEnd - 2 * Mark \in Nat
                           /\ DataEnd >= 3 * Mark + 3
<1>1. pend = << >>
  BY DEF IdleOK
<1>2. Image = file /\ FileSize = size /\ Kept = file
  BY <1>1, ImageIsFile
<1>3. base \in Nat /\ size \in Nat /\ base <= size /\ rootWalk \in Maps /\ Mark \in Nat
  BY DatafileAssumption DEF TInv, FileTyped, MemTyped, FileOK
<1>4. DataEnd = size - base /\ DataEnd \in Nat /\ size = base + DataEnd
  BY <1>2, <1>3 DEF DataEnd
<1>5. PICK end \in Nat : end = DataEnd
  BY <1>4
<1>6. /\ Version(file, base, end, rootWalk, at) /\ saved = ContentsOf(file, base, rootWalk)
      /\ mode = 1 => Claims(space, known, rootWalk, at, end)
  BY <1>4, <1>5 DEF IdleOK
<1>7. ASSUME NEW c \in Cols, ~col[c].dirty
      PROVE  col[c].pos = rootWalk[c].pos /\ col[c].len = rootWalk[c].len
  <2>1. col[c] = Clean(rootWalk[c])
    BY <1>7 DEF IdleOK
  <2> QED BY <2>1 DEF Clean
<1>8. ASSUME end > 0
      PROVE  Laid(rootWalk, at, end - 2 * Mark) /\ end - 2 * Mark \in Nat /\ end >= 3 * Mark + 3
  <2>1. Laid(rootWalk, at, end - 2 * Mark)
    BY <1>6, <1>8 DEF Version
  <2>2. Mark <= at /\ at + WalkLen(rootWalk) <= end - 2 * Mark
    BY <1>3, <2>1, LaidBytes
  <2>3. WalkLen(rootWalk) \in Nat /\ WalkLen(rootWalk) >= 3
    BY <1>3, WalkLenIs
  <2> QED BY <1>3, <2>1, <2>2, <2>3
<1>9. end = 0 => rootWalk = EmptyWalk
  BY <1>6 DEF Version
<1> QED BY <1>1, <1>2, <1>4, <1>5, <1>6, <1>7, <1>8, <1>9

\* What is reserved, and in mode 1 what is claimed, has all of the old version in it,
\* and each of its clean columns as a whole or not at all.
StartSpaces(at) ==
  /\ NextUse \subseteq InUse /\ (mode # 1 => InUse = NextUse)
  /\ NextUse = ReservedBlocks(DataEnd)
  /\ \A c \in Cols : /\ BytesOf(rootWalk[c]) \subseteq InUse
                     /\ AllOrNone(NextUse, BytesOf(rootWalk[c]))
  /\ DataEnd > 0 => Bytes(at, WalkLen(rootWalk)) \subseteq InUse

\* The claims of all columns together.
LEMMA AllClaims ==
  ASSUME TInv, FileOK, NEW at \in Nat, IdleOK(at), mode = 1
  PROVE  /\ AllClaimed \in Spaces /\ space \subseteq AllClaimed
         /\ \A c \in Cols : BytesOf(rootWalk[c]) \subseteq AllClaimed
         /\ AllOrNone(AllClaimed, Bytes(1, Mark - 1))
         /\ DataEnd > 0 => /\ AllOrNone(AllClaimed, Bytes(DataEnd - 2 * Mark, 2 * Mark))
                           /\ AllOrNone(AllClaimed, Bytes(DataEnd, Mark))
<1>1. /\ ColumnsTyped /\ space \in Spaces /\ rootWalk \in Maps /\ Mark \in Nat
  BY DatafileAssumption DEF TInv, MemTyped
<1>2. PICK end \in Nat : end = DataEnd
  BY StartFrom
<1>3. /\ Claims(space, known, rootWalk, at, end)
      /\ \A c \in Cols : ~col[c].dirty => col[c].pos = rootWalk[c].pos /\ col[c].len = rootWalk[c].len
      /\ end = 0 => rootWalk = EmptyWalk
      /\ end > 0 => Laid(rootWalk, at, end - 2 * Mark) /\ end - 2 * Mark \in Nat
  BY <1>2, StartFrom
<1>4. \A c \in Cols \ known : Bytes(col[c].pos, col[c].len) = BytesOf(rootWalk[c])
  BY <1>1, <1>3 DEF ColumnsTyped, BytesOf
<1>5. /\ \A c \in Cols, d \in Cols : c # d => BytesOf(rootWalk[c]) \cap BytesOf(rootWalk[d]) = {}
      /\ \A c \in Cols : BytesOf(rootWalk[c]) \subseteq Mark .. end - 2 * Mark - 1
  <2>1. CASE end = 0
    <3>1. \A c \in Cols : BytesOf(rootWalk[c]) = {}
      BY <1>3, <2>1, EmptyWalkIs DEF BytesOf, Bytes
    <3> QED BY <3>1
  <2>2. CASE end > 0
    <3>1. Laid(rootWalk, at, end - 2 * Mark) /\ end - 2 * Mark \in Int
      BY <1>1, <1>3, <2>2
    <3> QED BY <1>1, <3>1, LaidBytes
  <2>3. end = 0 \/ end > 0
    OBVIOUS
  <2> QED BY <2>1, <2>2, <2>3
<1>6. \A c \in Cols \ known : AllOrNone(space, Bytes(col[c].pos, col[c].len))
  BY <1>3, <1>4 DEF Claims
<1>7. \A c \in Cols \ known, d \in Cols \ known :
        c # d => Bytes(col[c].pos, col[c].len) \cap Bytes(col[d].pos, col[d].len) = {}
  BY <1>4, <1>5
<1>8. /\ AllClaimed \in Spaces /\ space \subseteq AllClaimed
      /\ \A c \in Cols \ known : Bytes(col[c].pos, col[c].len) \subseteq AllClaimed
      /\ \A b \in AllClaimed : b \in space \/ \E c \in Cols \ known : b \in Bytes(col[c].pos, col[c].len)
  BY <1>1, <1>6, <1>7, AllClaimedIs
<1>9. \A c \in Cols : BytesOf(rootWalk[c]) \subseteq AllClaimed
  BY <1>3, <1>4, <1>8 DEF Claims
<1>10. \A b \in AllClaimed : b \in space \/ b \in Mark .. end - 2 * Mark - 1
  BY <1>4, <1>5, <1>8
<1>11. ASSUME NEW block, AllOrNone(space, block), block \cap (Mark .. end - 2 * Mark - 1) = {}
       PROVE  AllOrNone(AllClaimed, block)
  BY <1>8, <1>10, <1>11 DEF AllOrNone
<1>12. AllOrNone(AllClaimed, Bytes(1, Mark - 1))
  <2>1. Bytes(1, Mark - 1) \cap (Mark .. end - 2 * Mark - 1) = {}
    BY <1>1 DEF Bytes
  <2> QED BY <1>3, <1>11, <2>1 DEF Claims
<1>13. ASSUME end > 0
       PROVE  /\ AllOrNone(AllClaimed, Bytes(end - 2 * Mark, 2 * Mark))
              /\ AllOrNone(AllClaimed, Bytes(end, Mark))
  <2>1. /\ Bytes(end - 2 * Mark, 2 * Mark) \cap (Mark .. end - 2 * Mark - 1) = {}
        /\ Bytes(end, Mark) \cap (Mark .. end - 2 * Mark - 1) = {}
    BY <1>1 DEF Bytes
  <2> QED BY <1>3, <1>11, <1>13, <2>1 DEF Claims
<1> QED BY <1>2, <1>8, <1>9, <1>12, <1>13

\* What a commit starts from when it allocates.
LEMMA StartSpacesAre ==
  ASSUME TInv, FileOK, NEW at \in Nat, IdleOK(at)
  PROVE  StartSpaces(at)
<1>1. /\ rootWalk \in Maps /\ Mark \in Nat /\ Mark > 1 /\ mode \in {1, 2}
  BY DatafileAssumption DEF TInv, MemTyped, FileTyped
<1>2. PICK end \in Nat : end = DataEnd
  BY StartFrom
<1>3. /\ mode = 1 => Claims(space, known, rootWalk, at, end)
      /\ end = 0 => rootWalk = EmptyWalk
      /\ end > 0 => Laid(rootWalk, at, end - 2 * Mark) /\ end - 2 * Mark \in Nat /\ end >= 3 * Mark + 3
  BY <1>2, StartFrom
<1>4. end = 0 \/ end >= 3 * Mark
  BY <1>1, <1>3
<1>5. {} \in Spaces /\ \A block : AllOrNone({}, block)
  BY NoSpace DEF AllOrNone
<1>6. Reserved({}, end) = {} \cup ReservedBlocks(end)
  BY <1>4, <1>5, ReservedIs
<1>7. NextUse = ReservedBlocks(end)
  BY <1>1, <1>2, <1>6 DEF NextUse, InUse
<1>8. end = 0 => \A c \in Cols : BytesOf(rootWalk[c]) = {}
  BY <1>3, EmptyWalkIs DEF BytesOf, Bytes
<1>9. end > 0 => /\ \A c \in Cols : BytesOf(rootWalk[c]) \subseteq Mark .. end - 2 * Mark - 1
                 /\ Bytes(at, WalkLen(rootWalk)) \subseteq Mark .. end - 2 * Mark - 1
  <2>1. SUFFICES ASSUME end > 0
                 PROVE  /\ \A c \in Cols : BytesOf(rootWalk[c]) \subseteq Mark .. end - 2 * Mark - 1
                        /\ Bytes(at, WalkLen(rootWalk)) \subseteq Mark .. end - 2 * Mark - 1
    OBVIOUS
  <2>2. Laid(rootWalk, at, end - 2 * Mark) /\ end - 2 * Mark \in Int
    BY <1>1, <1>3, <2>1
  <2> QED BY <1>1, <2>2, LaidBytes
<1>10. CASE mode = 1
  <2>1. /\ AllClaimed \in Spaces /\ space \subseteq AllClaimed
        /\ \A c \in Cols : BytesOf(rootWalk[c]) \subseteq AllClaimed
        /\ AllOrNone(AllClaimed, Bytes(1, Mark - 1))
        /\ end > 0 => /\ AllOrNone(AllClaimed, Bytes(end - 2 * Mark, 2 * Mark))
                      /\ AllOrNone(AllClaimed, Bytes(end, Mark))
    BY <1>2, <1>10, AllClaims
  <2>2. Reserved(AllClaimed, end) = AllClaimed \cup ReservedBlocks(end)
    BY <1>4, <1>10, <2>1, ReservedIs
  <2>3. InUse = AllClaimed \cup ReservedBlocks(end)
    BY <1>2, <1>10, <2>2 DEF InUse
  <2>4. end > 0 => Bytes(at, WalkLen(rootWalk)) \subseteq space
    BY <1>3, <1>10 DEF Claims
  <2>5. \A c \in Cols : AllOrNone(ReservedBlocks(end), BytesOf(rootWalk[c]))
    <3>1. SUFFICES ASSUME NEW c \in Cols PROVE AllOrNone(ReservedBlocks(end), BytesOf(rootWalk[c]))
      OBVIOUS
    <3>2. CASE end = 0
      BY <1>8, <3>2 DEF AllOrNone
    <3>3. CASE end > 0
      <4>1. ReservedBlocks(end) = Bytes(1, Mark - 1) \cup Bytes(end - 2 * Mark, 3 * Mark)
        BY <1>10, <3>3 DEF ReservedBlocks
      <4>2. BytesOf(rootWalk[c]) \subseteq Mark .. end - 2 * Mark - 1
        BY <1>9, <3>3
      <4>3. /\ Bytes(1, Mark - 1) \cap (Mark .. end - 2 * Mark - 1) = {}
            /\ Bytes(end - 2 * Mark, 3 * Mark) \cap (Mark .. end - 2 * Mark - 1) = {}
        BY <1>1 DEF Bytes
      <4> QED BY <4>1, <4>2, <4>3 DEF AllOrNone
    <3> QED BY <3>2, <3>3
  <2> QED BY <1>2, <1>7, <1>10, <2>1, <2>3, <2>4, <2>5 DEF StartSpaces
<1>11. CASE mode = 2
  <2>1. InUse = ReservedBlocks(end)
    BY <1>2, <1>6, <1>11 DEF InUse
  <2>2. end > 0 => Mark .. end - 2 * Mark - 1 \subseteq ReservedBlocks(end)
    <3>1. SUFFICES ASSUME end > 0 PROVE Mark .. end - 2 * Mark - 1 \subseteq ReservedBlocks(end)
      OBVIOUS
    <3>2. Bytes(1, end - 1) \subseteq ReservedBlocks(end)
      BY <1>11, <3>1 DEF ReservedBlocks
    <3>3. Mark .. end - 2 * Mark - 1 \subseteq Bytes(1, end - 1)
      BY <1>1 DEF Bytes
    <3> QED BY <3>2, <3>3
  <2>3. \A c \in Cols : BytesOf(rootWalk[c]) \subseteq ReservedBlocks(end)
    <3>1. CASE end = 0
      BY <1>8, <3>1
    <3>2. CASE end > 0
      BY <1>9, <2>2, <3>2
    <3>3. end = 0 \/ end > 0
      OBVIOUS
    <3> QED BY <3>1, <3>2, <3>3
  <2> QED BY <1>2, <1>7, <1>9, <2>1, <2>2, <2>3 DEF StartSpaces, AllOrNone
<1> QED BY <1>1, <1>10, <1>11

\* What is decided: every column, and the walk, has a place that the next version
\* uses, the changed ones and the walk one that was free.
Decided ==
  /\ First.walk \in Maps /\ Root.at \in Nat /\ Root.at >= 1
  /\ NextUse \subseteq Root.next /\ Root.next \subseteq Root.space /\ InUse \subseteq Root.space
  /\ \A c \in Cols :
       /\ BytesOf(First.walk[c]) \subseteq Root.next
       /\ ~col[c].dirty => First.walk[c] = Location(col[c].len, col[c].pos)
       /\ col[c].dirty => BytesOf(First.walk[c]) \cap InUse = {}
       /\ BytesOf(First.walk[c]) \cap Bytes(Root.at, WalkLen(First.walk)) = {}
  /\ \A c \in Cols, d \in Cols : c # d => BytesOf(First.walk[c]) \cap BytesOf(First.walk[d]) = {}
  /\ Bytes(Root.at, WalkLen(First.walk)) \subseteq Root.next
  /\ Bytes(Root.at, WalkLen(First.walk)) \cap InUse = {}

\* The first pass decides a place for every column, and then for the walk.
LEMMA PassDecides ==
  ASSUME TInv, pc = "idle", FileOK, NEW at \in Nat, IdleOK(at)
  PROVE  Decided
<1> DEFINE w == First.walk
           len == WalkLen(First.walk)
<1>1. /\ InUse \in Spaces /\ NextUse \in Spaces /\ First \in PassStates
      /\ len \in Nat /\ len >= 3 /\ Root.at \in Nat /\ Root.at >= 1
  BY StartTyped
<1>2. StartSpaces(at) /\ ColumnsTyped
  BY StartSpacesAre DEF TInv, MemTyped
<1>3. \A c \in Cols : ~col[c].dirty => BytesOf(col[c]) = BytesOf(rootWalk[c])
  <2>1. \A c \in Cols : ~col[c].dirty => col[c].pos = rootWalk[c].pos /\ col[c].len = rootWalk[c].len
    BY StartFrom
  <2> QED BY <2>1 DEF BytesOf
<1>4. \A c \in Cols, d \in Cols : c # d => BytesOf(rootWalk[c]) \cap BytesOf(rootWalk[d]) = {}
  <2>1. rootWalk \in Maps
    BY DEF TInv, MemTyped
  <2>2. PICK end \in Nat : end = DataEnd
    BY StartFrom
  <2>3. CASE end = 0
    <3>1. \A c \in Cols : BytesOf(rootWalk[c]) = {}
      BY <2>2, <2>3, StartFrom, EmptyWalkIs DEF BytesOf, Bytes
    <3> QED BY <3>1
  <2>4. CASE end > 0
    <3>1. Laid(rootWalk, at, end - 2 * Mark) /\ end - 2 * Mark \in Int
      BY <2>2, <2>4, StartFrom
    <3> QED BY <2>1, <3>1, LaidBytes
  <2>5. end = 0 \/ end > 0
    OBVIOUS
  <2> QED BY <2>3, <2>4, <2>5
<1>5. PassStart(InUse, NextUse)
  BY <1>2, <1>3, <1>4 DEF PassStart, StartSpaces
<1>6. PassDone(First, InUse, NextUse, Cols)
  BY <1>1, <1>2, <1>5, FirstPassIs DEF First
<1>7. /\ First.space \in Spaces /\ First.next \in Spaces /\ w \in Maps
  BY <1>1 DEF PassStates
<1>8. /\ First.next \subseteq First.space /\ (mode # 1 => First.space = First.next)
      /\ InUse \subseteq First.space /\ NextUse \subseteq First.next
      /\ \A c \in Cols : /\ BytesOf(w[c]) \subseteq First.next
                         /\ ~col[c].dirty => w[c] = Location(col[c].len, col[c].pos)
                         /\ col[c].dirty => BytesOf(w[c]) \cap InUse = {}
      /\ \A c \in Cols, d \in Cols : c # d => BytesOf(w[c]) \cap BytesOf(w[d]) = {}
  BY <1>6 DEF PassDone
<1>9. /\ Root.space = First.space \cup Bytes(Root.at, len)
      /\ Root.next = First.next \cup Bytes(Root.at, len)
      /\ Bytes(Root.at, len) \cap First.space = {}
  <2>1. len > 0 /\ 0 \in Nat /\ TRUE \in BOOLEAN
    BY <1>1
  <2> HIDE DEF len
  <2>2. LET q == Placed(First, len, TRUE, 0)
        IN  /\ q.space = First.space \cup Bytes(q.at, len)
            /\ q.next = First.next \cup Bytes(q.at, len)
            /\ TRUE => Bytes(q.at, len) \cap First.space = {}
    BY <1>1, <1>7, <1>8, <2>1, PlacedIs
  <2>3. Root = Placed(First, len, TRUE, 0)
    BY DEF Root, len
  <2> QED BY <2>2, <2>3
<1> HIDE DEF w, len
<1>10. /\ Root.next \subseteq Root.space /\ InUse \subseteq Root.space /\ NextUse \subseteq Root.next
       /\ Bytes(Root.at, len) \subseteq Root.next /\ Bytes(Root.at, len) \cap InUse = {}
  BY <1>8, <1>9
<1>11. \A c \in Cols : BytesOf(w[c]) \subseteq Root.next /\ BytesOf(w[c]) \cap Bytes(Root.at, len) = {}
  BY <1>8, <1>9
<1> QED BY <1>1, <1>7, <1>8, <1>10, <1>11 DEF Decided, w, len

\* A block that is allocated is after the header; when the data does not grow it is
\* before the tails.
LEMMA NewBlock ==
  ASSUME TInv, pc = "idle", FileOK, NEW at \in Nat, IdleOK(at),
         NEW p \in Nat, p >= 1, NEW n \in Nat, n > 0, Bytes(p, n) \subseteq Root.next,
         Bytes(p, n) \cap InUse = {}
  PROVE  /\ Mark <= p /\ p + n <= DataLimit
         /\ FitsInside => DataEnd > 0 /\ p + n <= DataEnd - 2 * Mark
<1>1. PICK end \in Nat : end = DataEnd
  BY StartFrom
<1>2. PICK limit \in Nat : limit = DataLimit /\ \A b \in Root.next : b < limit
  BY StartTyped
<1>3. Mark \in Nat /\ Mark > 1
  BY DatafileAssumption
<1>4. ReservedBlocks(end) \subseteq InUse
  BY <1>1, StartSpacesAre DEF StartSpaces
<1>5. Bytes(1, Mark - 1) \subseteq InUse /\ (end > 0 => Bytes(end - 2 * Mark, 3 * Mark) \subseteq InUse)
  BY <1>4 DEF ReservedBlocks
<1>6. Mark <= p
  <2>1. p \in Bytes(p, n)
    BY DEF Bytes
  <2>2. p \notin Bytes(1, Mark - 1)
    BY <1>5, <2>1
  <2> QED BY <1>3, <2>2 DEF Bytes
<1>7. p + n <= limit
  <2>1. p + n - 1 \in Bytes(p, n)
    BY DEF Bytes
  <2>2. p + n - 1 < limit
    BY <1>2, <2>1
  <2> QED BY <2>2
<1>8. ASSUME end = limit - Mark PROVE end > 0 /\ p + n <= end - 2 * Mark
  <2>1. end > 0
    BY <1>3, <1>6, <1>7, <1>8
  <2>2. p + n - 1 \in Bytes(p, n)
    BY DEF Bytes
  <2>3. p + n - 1 \notin Bytes(end - 2 * Mark, 3 * Mark)
    BY <1>5, <2>1, <2>2
  <2> QED BY <1>3, <1>7, <1>8, <2>1, <2>3 DEF Bytes
<1> QED BY <1>1, <1>2, <1>6, <1>7, <1>8 DEF FitsInside

\* The layout of the new version, next to the old one.
NewLayout(at) ==
  /\ Laid(First.walk, Root.at, DataLimit) /\ DataLimit >= Mark + 3
  /\ FitsInside => Laid(First.walk, Root.at, DataEnd - 2 * Mark) /\ DataEnd > 0
  /\ DataEnd > 0 => /\ DataEnd + Mark <= DataLimit
                    /\ \A c \in Blocks : c = 0 \/ col[c].dirty =>
                         \A d \in Blocks : Aside(Block(First.walk, Root.at, c), Block(rootWalk, at, d))

\* So the new version is laid out beside the old one.
LEMMA StartLaid ==
  ASSUME TInv, pc = "idle", FileOK, NEW at \in Nat, IdleOK(at)
  PROVE  NewLayout(at)
<1> DEFINE w == First.walk
           len == WalkLen(First.walk)
           pos == Root.at
<1>1. Decided /\ StartSpaces(at)
  BY PassDecides, StartSpacesAre
<1>2. PICK end \in Nat : end = DataEnd
  BY StartFrom
<1>3. PICK limit \in Nat : limit = DataLimit /\ \A b \in Root.next : b < limit
  BY StartTyped
<1>4. /\ Mark \in Nat /\ Mark > 1 /\ w \in Maps /\ pos \in Nat /\ pos >= 1
      /\ len \in Nat /\ len >= 3 /\ rootWalk \in Maps
  BY <1>1, StartTyped, DatafileAssumption DEF Decided, TInv, MemTyped
<1>5. /\ \A c \in Cols : w[c].len \in Nat /\ w[c].pos \in Nat /\ (w[c].len > 0 => w[c].pos >= 1)
      /\ \A c \in Cols : rootWalk[c].len \in Nat /\ rootWalk[c].pos \in Nat
  <2>1. SUFFICES ASSUME NEW c \in Cols
                 PROVE  /\ w[c].len \in Nat /\ w[c].pos \in Nat /\ (w[c].len > 0 => w[c].pos >= 1)
                        /\ rootWalk[c].len \in Nat /\ rootWalk[c].pos \in Nat
    OBVIOUS
  <2>2. w[c] \in [len : Nat, pos : Nat] /\ (w[c].len = 0 <=> w[c].pos = 0)
    BY <1>4 DEF Maps, Walks
  <2>3. rootWalk[c] \in [len : Nat, pos : Nat]
    BY <1>4 DEF Maps, Walks
  <2> QED BY <2>2, <2>3
<1>6. /\ \A c \in Cols : /\ BytesOf(w[c]) \subseteq Root.next
                         /\ ~col[c].dirty => w[c] = Location(col[c].len, col[c].pos)
                         /\ col[c].dirty => BytesOf(w[c]) \cap InUse = {}
                         /\ BytesOf(w[c]) \cap Bytes(pos, len) = {}
      /\ \A c \in Cols, d \in Cols : c # d => BytesOf(w[c]) \cap BytesOf(w[d]) = {}
      /\ Bytes(pos, len) \subseteq Root.next /\ Bytes(pos, len) \cap InUse = {}
      /\ NextUse \subseteq Root.next
  BY <1>1 DEF Decided
<1> HIDE DEF w, len, pos
<1>7. /\ Mark <= pos /\ pos + len <= limit
      /\ FitsInside => end > 0 /\ pos + len <= end - 2 * Mark
  <2>1. len > 0
    BY <1>4
  <2> QED BY <1>2, <1>3, <1>4, <1>6, <2>1, NewBlock
<1>8. ASSUME NEW c \in Cols, w[c].len > 0
      PROVE  /\ Mark <= w[c].pos /\ w[c].pos + w[c].len <= limit
             /\ FitsInside => w[c].pos + w[c].len <= end - 2 * Mark
  <2>1. CASE col[c].dirty
    <3>1. Bytes(w[c].pos, w[c].len) \subseteq Root.next /\ Bytes(w[c].pos, w[c].len) \cap InUse = {}
      BY <1>6, <2>1 DEF BytesOf
    <3> QED BY <1>2, <1>3, <1>5, <1>8, <3>1, NewBlock
  <2>2. CASE ~col[c].dirty
    <3>1. w[c].len = rootWalk[c].len /\ w[c].pos = rootWalk[c].pos
      <4>1. w[c] = Location(col[c].len, col[c].pos)
        BY <1>6, <2>2
      <4>2. col[c].pos = rootWalk[c].pos /\ col[c].len = rootWalk[c].len
        BY <2>2, StartFrom
      <4> QED BY <4>1, <4>2 DEF Location
    <3>2. end > 0
      <4>1. end = 0 => rootWalk[c].len = 0
        BY <1>2, StartFrom, EmptyWalkIs
      <4> QED BY <1>5, <1>8, <3>1, <4>1
    <3>3. Laid(rootWalk, at, end - 2 * Mark)
      BY <1>2, <3>2, StartFrom
    <3>4. c \in Blocks /\ c # 0
      BY DatafileAssumption DEF Cols, Blocks
    <3>5. Mark <= rootWalk[c].pos /\ rootWalk[c].pos + rootWalk[c].len <= end - 2 * Mark
      <4>1. Block(rootWalk, at, c) = rootWalk[c]
        BY <3>4 DEF Block
      <4> QED BY <1>8, <3>1, <3>3, <3>4, <4>1 DEF Laid
    <3>6. w[c].pos + w[c].len <= limit
      <4>1. w[c].pos + w[c].len - 1 \in BytesOf(w[c])
        BY <1>5, <1>8 DEF BytesOf, Bytes
      <4>2. w[c].pos + w[c].len - 1 < limit
        BY <1>3, <1>6, <4>1
      <4> QED BY <1>5, <4>2
    <3> QED BY <3>1, <3>5, <3>6
  <2> QED BY <2>1, <2>2
<1>9. /\ 0 \in Blocks /\ \A c \in Blocks : c = 0 \/ (c \in Cols /\ c # 0)
      /\ \A c \in Cols : c # 0
      /\ \A c \in Cols : \A v, a : Block(v, a, c) = v[c]
      /\ Block(w, pos, 0).pos = pos /\ Block(w, pos, 0).len = len
  <2>1. \A c \in Cols : c # 0
    BY DEF Cols
  <2>2. 0 \in Blocks /\ \A c \in Blocks : c = 0 \/ c \in Cols
    BY DatafileAssumption DEF Cols, Blocks
  <2>3. \A c \in Cols : \A v, a : Block(v, a, c) = v[c]
    BY <2>1 DEF Block
  <2>4. Block(w, pos, 0) = [len |-> len, pos |-> pos]
    BY DEF Block, Location, len, w
  <2>5. Block(w, pos, 0).pos = pos /\ Block(w, pos, 0).len = len
    BY <2>4
  <2> QED BY <2>1, <2>2, <2>3, <2>5
<1>10. \A c \in Blocks : BytesOf(Block(w, pos, c)) = IF c = 0 THEN Bytes(pos, len) ELSE BytesOf(w[c])
  BY <1>9 DEF BytesOf
<1>11. \A c \in Blocks : Block(w, pos, c).len \in Nat /\ Block(w, pos, c).pos \in Nat
  BY <1>4, <1>5, <1>9
<1>12. ASSUME NEW c \in Blocks, NEW d \in Blocks, c # d
       PROVE  Aside(Block(w, pos, c), Block(w, pos, d))
  <2>1. BytesOf(Block(w, pos, c)) \cap BytesOf(Block(w, pos, d)) = {}
    BY <1>6, <1>9, <1>10, <1>12
  <2> QED BY <1>11, <2>1, ApartBytes DEF Aside, BytesOf
<1>13. ASSUME NEW top \in Int, pos + len <= top, \A c \in Cols : w[c].len > 0 => w[c].pos + w[c].len <= top
       PROVE  Laid(w, pos, top)
  <2>1. \A c \in Blocks : Block(w, pos, c).len > 0 =>
          Mark <= Block(w, pos, c).pos /\ Block(w, pos, c).pos + Block(w, pos, c).len <= top
    BY <1>7, <1>8, <1>9, <1>13
  <2> QED BY <1>12, <2>1 DEF Laid
<1>14. Laid(w, pos, limit) /\ limit >= Mark + 3
  <2>1. Laid(w, pos, limit)
    BY <1>7, <1>8, <1>13
  <2> QED BY <1>4, <1>7, <2>1
<1>15. FitsInside => Laid(w, pos, end - 2 * Mark) /\ end > 0
  <2>1. end - 2 * Mark \in Int
    BY <1>4
  <2> QED BY <1>7, <1>8, <1>13, <2>1
<1>16. ASSUME end > 0 PROVE end + Mark <= limit
  <2>1. Bytes(end, Mark) \subseteq Root.next
    <3>1. Bytes(end - 2 * Mark, 3 * Mark) \subseteq NextUse
      BY <1>1, <1>2, <1>16 DEF StartSpaces, ReservedBlocks
    <3>2. Bytes(end, Mark) \subseteq Bytes(end - 2 * Mark, 3 * Mark)
      BY <1>4 DEF Bytes
    <3> QED BY <1>6, <3>1, <3>2
  <2>2. end + Mark - 1 \in Bytes(end, Mark)
    BY <1>4 DEF Bytes
  <2>3. end + Mark - 1 < limit
    BY <1>3, <2>1, <2>2
  <2> QED BY <1>4, <2>3
<1>17. ASSUME end > 0, NEW c \in Blocks, c = 0 \/ col[c].dirty, NEW d \in Blocks
       PROVE  Aside(Block(w, pos, c), Block(rootWalk, at, d))
  <2>1. BytesOf(Block(w, pos, c)) \cap InUse = {}
    BY <1>6, <1>9, <1>10, <1>17
  <2>2. BytesOf(Block(rootWalk, at, d)) \subseteq InUse
    <3>1. CASE d = 0
      BY <1>1, <1>2, <1>17, <3>1 DEF StartSpaces, Block, BytesOf, Location
    <3>2. CASE d # 0
      BY <1>1, <1>9, <3>2 DEF StartSpaces
    <3> QED BY <3>1, <3>2
  <2>3. Block(rootWalk, at, d).len \in Nat /\ Block(rootWalk, at, d).pos \in Nat
    <3>1. CASE d = 0
      BY <1>4, <3>1, WalkLenIs DEF Block, Location
    <3>2. CASE d # 0
      BY <1>5, <1>9, <3>2
    <3> QED BY <3>1, <3>2
  <2>4. BytesOf(Block(w, pos, c)) \cap BytesOf(Block(rootWalk, at, d)) = {}
    BY <2>1, <2>2
  <2> QED BY <1>11, <2>3, <2>4, ApartBytes DEF Aside, BytesOf
<1> QED BY <1>2, <1>3, <1>14, <1>15, <1>16, <1>17 DEF NewLayout, w, pos

\* A commit without changes has nothing to write: what the user reads was saved.
LEMMA NothingChanged ==
  ASSUME TInv, pc = "idle", FileOK, NEW at \in Nat, IdleOK(at), NoChange
  PROVE  /\ First.walk = rootWalk /\ (IsBlank => DataEnd = 0)
         /\ Working = saved
<1>1. Decided /\ StartSpaces(at) /\ NewLayout(at)
  BY PassDecides, StartSpacesAre, StartLaid
<1>2. PICK end \in Nat : end = DataEnd
  BY StartFrom
<1>3. PICK limit \in Nat : limit = DataLimit
  BY StartTyped
<1>4. /\ Mark \in Nat /\ Mark > 1 /\ First.walk \in Maps /\ Root.at \in Nat
      /\ WalkLen(First.walk) \in Nat /\ WalkLen(First.walk) >= 3 /\ rootWalk \in Maps
  BY <1>1, StartTyped, DatafileAssumption DEF Decided, TInv, MemTyped
<1>5. ASSUME IsBlank PROVE end = 0 /\ First.walk = EmptyWalk /\ rootWalk = EmptyWalk
  <2>1. limit <= Mark + 3
    BY <1>3, <1>5 DEF IsBlank, EmptyLimit
  <2>2. end = 0
    <3>1. SUFFICES ASSUME end > 0 PROVE FALSE
      OBVIOUS
    <3>2. end + Mark <= limit /\ end >= 3 * Mark + 3
      BY <1>1, <1>2, <1>3, <3>1, StartFrom DEF NewLayout
    <3> QED BY <1>4, <2>1, <3>2
  <2>3. Laid(First.walk, Root.at, limit)
    BY <1>1, <1>3 DEF NewLayout
  <2>4. Mark <= Root.at /\ Root.at + WalkLen(First.walk) <= limit
    BY <1>4, <2>3, LaidBytes
  <2>5. WalkLen(First.walk) = 3
    BY <1>4, <2>1, <2>4
  <2>6. First.walk = EmptyWalk
    BY <1>4, <2>5, WalkLenIs
  <2>7. rootWalk = EmptyWalk
    BY <1>2, <2>2, StartFrom
  <2> QED BY <2>2, <2>6, <2>7
<1>6. First.walk = rootWalk
  BY <1>5 DEF NoChange
<1>7. ASSUME NEW c \in Cols, col[c].dirty PROVE col[c].len = 0
  <2>1. BytesOf(rootWalk[c]) = {}
    BY <1>1, <1>6, <1>7 DEF Decided, StartSpaces
  <2>2. rootWalk[c].len = col[c].len
    BY <1>6, StartTyped
  <2>3. rootWalk[c].len \in Nat /\ rootWalk[c].pos \in Nat
    BY <1>4 DEF Maps, Walks
  <2>4. rootWalk[c].len > 0 => rootWalk[c].pos \in BytesOf(rootWalk[c])
    BY <2>3 DEF BytesOf, Bytes
  <2> QED BY <2>1, <2>2, <2>3, <2>4
<1>8. Image = file /\ saved = ContentsOf(file, base, rootWalk)
  BY StartFrom
<1>9. ASSUME NEW c \in Cols
      PROVE  (IF col[c].dirty THEN Content(col[c].len, col[c].tag)
              ELSE ContentAt(Image, base, Location(col[c].len, col[c].pos)))
               = ContentAt(file, base, rootWalk[c])
  <2>1. CASE col[c].dirty
    <3>1. col[c].len = 0 /\ col[c].tag = NoTag
      BY <1>7, <2>1 DEF TInv, MemTyped
    <3>2. rootWalk[c].len = 0
      BY <1>6, <3>1, StartTyped
    <3>3. ContentAt(file, base, rootWalk[c]) = NoContent
      BY <3>2 DEF ContentAt
    <3> QED BY <2>1, <3>1, <3>3 DEF NoContent
  <2>2. CASE ~col[c].dirty
    <3>1. Location(col[c].len, col[c].pos) = rootWalk[c]
      BY <1>1, <1>6, <2>2 DEF Decided
    <3> QED BY <1>8, <2>2, <3>1
  <2> QED BY <2>1, <2>2
<1>10. Working = saved
  BY <1>8, <1>9 DEF Working, ContentsOf
<1> QED BY <1>2, <1>5, <1>6, <1>10

\* A commit that has nothing to write.
LEMMA NoCommitKeeps ==
  ASSUME TInv, UNCHANGED mode, FileOK, ~failure, NEW at \in Nat, IdleOK(at), StartCommit, NoChange
  PROVE  ~failure' /\ FileOK' /\ pc' = "idle" /\ saved' = saved /\ IdleOK(at)'
<1>1. /\ pc = "idle" /\ known' = (IF mode = 1 THEN Cols ELSE known) /\ rootWalk' = First.walk
      /\ space' = IF mode = 2 \/ IsBlank THEN {} ELSE Root.space
      /\ saved' = Working /\ pc' = "idle" /\ failure' = FALSE
      /\ file' = file /\ size' = size /\ pend' = pend /\ base' = base /\ col' = col
      /\ mode' = mode
  BY StartCommitIs
<1>2. First.walk = rootWalk /\ (IsBlank => DataEnd = 0) /\ Working = saved
  BY <1>1, NothingChanged
<1>3. FileOK'
  BY <1>1 DEF FileOK
<1>4. Decided /\ StartSpaces(at)
  BY <1>1, PassDecides, StartSpacesAre
<1>5. PICK end \in Nat : end = DataEnd
  BY StartFrom
<1>6. size - base = end
  BY <1>5, StartFrom DEF TInv, MemTyped
<1>7. ASSUME mode = 1 PROVE Claims(space', Cols, rootWalk, at, end)
  <2>1. CASE IsBlank
    <3>1. space' = {} /\ end = 0 /\ rootWalk = EmptyWalk
      BY <1>1, <1>2, <1>5, <2>1, StartFrom
    <3>2. Claims({}, Cols, EmptyWalk, at, 0)
      BY NoClaims
    <3> QED BY <3>1, <3>2
  <2>2. CASE ~IsBlank
    <3>1. space' = Root.space
      BY <1>1, <1>7, <2>2
    <3>2. InUse \subseteq space' /\ NextUse \subseteq space'
      BY <1>4, <3>1 DEF Decided
    <3>3. \A c \in Cols : BytesOf(rootWalk[c]) \subseteq space'
      BY <1>4, <3>2 DEF StartSpaces
    <3>4. Bytes(1, Mark - 1) \subseteq space'
      BY <1>4, <3>2 DEF StartSpaces, ReservedBlocks
    <3>5. ASSUME end > 0
          PROVE  /\ Bytes(at, WalkLen(rootWalk)) \subseteq space'
                 /\ Bytes(end - 2 * Mark, 2 * Mark) \subseteq space'
                 /\ Bytes(end, Mark) \subseteq space'
      <4>1. Bytes(at, WalkLen(rootWalk)) \subseteq space'
        BY <1>4, <1>5, <3>2, <3>5 DEF StartSpaces
      <4>2. Bytes(end - 2 * Mark, 3 * Mark) \subseteq space'
        BY <1>4, <1>5, <3>2, <3>5 DEF StartSpaces, ReservedBlocks
      <4>3. /\ Bytes(end - 2 * Mark, 2 * Mark) \subseteq Bytes(end - 2 * Mark, 3 * Mark)
            /\ Bytes(end, Mark) \subseteq Bytes(end - 2 * Mark, 3 * Mark)
        BY DatafileAssumption DEF Bytes
      <4> QED BY <4>1, <4>2, <4>3
    <3> QED BY <3>3, <3>4, <3>5 DEF Claims, AllOrNone
  <2> QED BY <2>1, <2>2
<1>8. IdleOK(at)'
  BY <1>1, <1>2, <1>6, <1>7 DEF IdleOK
<1> QED BY <1>1, <1>2, <1>3, <1>8

\* What the user reads of a column.
LEMMA WorkingOf ==
  ASSUME NEW c \in Cols
  PROVE  Working[c] = IF col[c].dirty THEN Content(col[c].len, col[c].tag)
                      ELSE ContentAt(Image, base, Location(col[c].len, col[c].pos))
BY DEF Working

\* A commit that has something to write starts from what the last one left.
LEMMA CommitStarts ==
  ASSUME TInv, UNCHANGED mode, FileOK, ~failure, NEW at \in Nat, IdleOK(at), StartCommit, ~NoChange
  PROVE  ~failure' /\ FileOK' /\ pc' # "idle" /\ saved' = saved /\ BusyOK(at)'
<1>1. /\ pc = "idle" /\ known' = (IF mode = 1 THEN Cols ELSE known) /\ rootWalk' = First.walk
      /\ attempt' = Working /\ saved' = saved /\ pc' = (IF FitsInside THEN "reserve" ELSE "skip")
      /\ plan' = NewPlan /\ failure' = FALSE
      /\ file' = file /\ size' = size /\ pend' = pend /\ base' = base /\ col' = col
      /\ mode' = mode
  BY StartCommitIs
<1>2. PICK end \in Nat : end = DataEnd
  BY StartFrom
<1>3. PICK limit \in Nat : limit = DataLimit /\ \A b \in Root.next : b < limit
  BY <1>1, StartTyped
<1>4. PICK inPlace \in BOOLEAN : inPlace = FitsInside
  BY DEF FitsInside
<1>5. PICK end0 : end0 = IF inPlace THEN end - 2 * Mark ELSE limit
  OBVIOUS
<1>6. PICK w : w = First.walk
  OBVIOUS
<1>7. PICK pos : pos = Root.at
  OBVIOUS
<1>8. plan' = [end |-> end, limit |-> limit, inPlace |-> inPlace, end0 |-> end0,
               walk |-> w, walkPos |-> pos, next |-> Root.next, old |-> rootWalk, k |-> 1]
  BY <1>1, <1>2, <1>3, <1>4, <1>5, <1>6, <1>7 DEF NewPlan
<1>9. /\ plan'.end = end /\ plan'.limit = limit /\ plan'.inPlace = inPlace /\ plan'.end0 = end0
      /\ plan'.walk = w /\ plan'.walkPos = pos /\ plan'.next = Root.next /\ plan'.old = rootWalk
  BY <1>8
<1>10. /\ Decided /\ StartSpaces(at) /\ NewLayout(at)
  BY <1>1, PassDecides, StartSpacesAre, StartLaid
<1>11. /\ Mark \in Nat /\ Mark > 1 /\ base \in Nat /\ size \in Nat /\ rootWalk \in Maps
       /\ w \in Maps /\ pos \in Nat
  BY <1>6, <1>7, <1>10, DatafileAssumption DEF TInv, MemTyped, FileTyped, Decided
<1>12. /\ pend = << >> /\ Image = file /\ Kept = file /\ size = base + end
       /\ Version(file, base, end, rootWalk, at) /\ saved = ContentsOf(file, base, rootWalk)
       /\ end = 0 => rootWalk = EmptyWalk
       /\ end > 0 => Laid(rootWalk, at, end - 2 * Mark)
  BY <1>2, StartFrom
<1>13. /\ Laid(w, pos, limit) /\ (inPlace => Laid(w, pos, end - 2 * Mark) /\ end > 0)
       /\ inPlace => end = limit - Mark
       /\ end > 0 => /\ end + Mark <= limit
                     /\ \A c \in Blocks : c = 0 \/ col[c].dirty =>
                          \A d \in Blocks : Aside(Block(w, pos, c), Block(rootWalk, at, d))
  BY <1>2, <1>3, <1>4, <1>6, <1>7, <1>10 DEF NewLayout, FitsInside
<1>14. pc' \in Early /\ pc' # "idle"
  BY <1>1 DEF Early
<1>15. FileOK'
  BY <1>1 DEF FileOK
<1>16. \A i \in DOMAIN << >> : FALSE
  OBVIOUS
<1>17. LayOK(at)'
  <2>1. Laid(w, pos, end0)
    BY <1>5, <1>13
  <2>2. inPlace => limit = end + Mark
    BY <1>11, <1>13
  <2> QED BY <1>9, <1>12, <1>13, <2>1, <2>2 DEF LayOK
<1>18. FreshOK(at)'
  BY <1>1, <1>9, <1>13 DEF FreshOK
<1>19. SpaceOK'
  <2>1. Bytes(1, Mark - 1) \subseteq Root.next
    BY <1>10 DEF Decided, StartSpaces, ReservedBlocks
  <2>2. \A c \in Blocks : BytesOf(Block(w, pos, c)) \subseteq Root.next
    <3>1. SUFFICES ASSUME NEW c \in Blocks PROVE BytesOf(Block(w, pos, c)) \subseteq Root.next
      OBVIOUS
    <3>2. CASE c = 0
      BY <1>6, <1>7, <1>10, <3>2 DEF Decided, Block, BytesOf, Location
    <3>3. CASE c # 0
      <4>1. c \in Cols /\ Block(w, pos, c) = w[c]
        BY <3>3 DEF Blocks, Cols, Block
      <4> QED BY <1>6, <1>10, <4>1 DEF Decided
    <3> QED BY <3>2, <3>3
  <2>3. inPlace => Bytes(end0, 3 * Mark) \subseteq Root.next
    BY <1>2, <1>5, <1>10, <1>13 DEF Decided, StartSpaces, ReservedBlocks
  <2>4. NextOK'
    BY <1>3, <1>9, <1>14, <2>1, <2>2, <2>3 DEF NextOK
  <2> QED BY <1>1, <1>6, <1>9, <2>4 DEF SpaceOK
<1>20. ColsOK'
  <2>1. Image' = Image
    BY <1>1 DEF Image
  <2>2. ASSUME NEW c \in Cols, col[c].dirty
        PROVE  attempt'[c] = Content(col[c].len, col[c].tag)
    BY <1>1, <2>2, WorkingOf
  <2>3. ASSUME NEW c \in Cols, ~col[c].dirty
        PROVE  /\ col[c] = Clean(w[c]) /\ ContentAt(Image, base, w[c]) = attempt'[c]
               /\ w[c] = rootWalk[c]
    <3>1. w[c] = Location(col[c].len, col[c].pos)
      BY <1>6, <1>10, <2>3 DEF Decided
    <3>2. col[c] = Clean(rootWalk[c])
      BY <2>3 DEF IdleOK
    <3>3. rootWalk[c] \in [len : Nat, pos : Nat]
      BY <1>11 DEF Maps, Walks
    <3>4. col[c].len = rootWalk[c].len /\ col[c].pos = rootWalk[c].pos
      BY <3>2 DEF Clean
    <3>5. w[c] = rootWalk[c]
      BY <3>1, <3>3, <3>4 DEF Location
    <3>6. attempt'[c] = ContentAt(Image, base, w[c])
      BY <1>1, <2>3, <3>1, WorkingOf
    <3> QED BY <3>2, <3>5, <3>6
  <2> QED BY <1>1, <1>9, <1>14, <2>1, <2>2, <2>3 DEF ColsOK
<1>21. SavedOK'
  <2>1. \A i \in DOMAIN pend' : FALSE
    BY <1>1, <1>12, <1>16
  <2>2. saved' = ContentsOf(file', base', plan'.old)
    BY <1>1, <1>9, <1>12
  <2> QED BY <2>1, <2>2 DEF SavedOK
<1>22. RecoverOK(at)'
  <2>1. CASE ~inPlace
    <3>1. pc' = "skip"
      BY <1>1, <1>4, <2>1
    <3>2. SkipOK(at)'
      BY <1>1, <1>9, <1>12, <3>1 DEF SkipOK
    <3> QED BY <3>1, <3>2 DEF RecoverOK, Skipping
  <2>2. CASE inPlace
    <3>1. pc' = "reserve"
      BY <1>1, <1>4, <2>2
    <3>2. end > 0 /\ end # 0 /\ end0 = end - 2 * Mark /\ End1' = end - Mark
      <4>1. End1' = end0 + Mark
        BY <1>9 DEF End1
      <4> QED BY <1>5, <1>11, <1>13, <2>2, <4>1
    <3>3. Kept' = file
      BY <1>1, <1>12 DEF Kept
    <3>4. /\ HeadAt(base) \in file /\ SkipAt(base, end0) \in file
          /\ TailAt(base, end - Mark, at, rootWalk) \in file /\ WalkOf(base, at, rootWalk) \in file
      BY <1>12, <3>2 DEF Version
    <3>5. \A i \in DOMAIN pend' : FALSE
      BY <1>1, <1>12, <1>16
    <3>6. MarksOK(at)'
      BY <1>1, <1>9, <1>12, <2>2, <3>2, <3>3, <3>4, <3>5 DEF MarksOK
    <3>7. WritingOK(at)'
      BY <1>9, <3>1, <3>2, <3>6 DEF WritingOK
    <3> QED BY <3>1, <3>7 DEF RecoverOK, Skipping, Writing
  <2> QED BY <1>4, <2>1, <2>2
<1> QED BY <1>1, <1>14, <1>15, <1>17, <1>18, <1>19, <1>20, <1>21, <1>22 DEF BusyOK

----------------------------------------------------------------------------
\* All steps together.  A failure is never forgotten.
LEMMA FailsStay ==
  ASSUME TInv, [Next]_vars, Healthy'
  PROVE  Healthy
<1>1. used \in [commits : Nat, crashes : Nat, rollbacks : Nat, fails : Nat]
  BY DEF TInv, UsedTyped
<1>2. ASSUME Fails PROVE FALSE
  <2>1. used' = [used EXCEPT !.fails = @ + 1]
    BY <1>2 DEF Fails
  <2>2. used'.fails = used.fails + 1 /\ used.fails \in Nat
    BY <1>1, <2>1
  <2> QED BY <2>2 DEF Healthy
<1>3. ASSUME NEW pos, NEW len, NEW what, DataWrite(pos, len, what) PROVE used' = used
  BY <1>2, <1>3 DEF DataWrite
<1>4. ASSUME DataCommit PROVE used' = used
  BY <1>2, <1>4 DEF DataCommit
<1>5. ASSUME SaveIt PROVE used' = used
  <2>1. CASE WriteSkip
    BY <1>3, <2>1 DEF WriteSkip
  <2>2. CASE FlushSkip
    BY <1>4, <2>2 DEF FlushSkip
  <2>3. CASE WriteHead
    BY <1>3, <2>3 DEF WriteHead
  <2>4. CASE WriteMark1
    BY <1>3, <2>4 DEF WriteMark1
  <2>5. CASE ReserveTails
    BY <2>5 DEF ReserveTails
  <2>6. CASE WriteColumn
    BY <1>3, <2>6, WriteColumnIs
  <2>7. CASE WriteWalk
    BY <1>3, <2>7 DEF WriteWalk
  <2>8. CASE FlushData
    BY <1>4, <2>8 DEF FlushData
  <2>9. CASE WriteMark2
    BY <1>3, <2>9 DEF WriteMark2
  <2>10. CASE FlushTail
    BY <1>4, <2>10 DEF FlushTail
  <2>11. CASE WriteHeader
    BY <1>3, <2>11 DEF WriteHeader
  <2>12. CASE FinishCommit
    BY <1>4, <2>12 DEF FinishCommit
  <2> QED BY <1>5, <2>1, <2>2, <2>3, <2>4, <2>5, <2>6, <2>7, <2>8, <2>9, <2>10, <2>11, <2>12 DEF SaveIt
<1>6. used'.fails = used.fails
  <2>1. CASE \E c \in Cols : \E len \in ColLens : \E tag \in Tags \cup {NoTag} : Modify(c, len, tag)
    BY <2>1 DEF Modify
  <2>2. CASE Rollback
    <3>1. used' = [used EXCEPT !.rollbacks = @ + 1]
      BY <2>2 DEF Rollback
    <3> QED BY <1>1, <3>1
  <2>3. CASE StartCommit
    <3>1. used' = [used EXCEPT !.commits = @ + 1]
      BY <2>3, StartCommitIs
    <3> QED BY <1>1, <3>1
  <2>4. CASE SaveIt
    BY <1>5, <2>4
  <2>5. CASE Crash
    <3>1. used' = [used EXCEPT !.crashes = @ + 1]
      BY <2>5 DEF Crash
    <3> QED BY <1>1, <3>1
  <2>6. CASE UNCHANGED vars
    BY <2>6 DEF vars
  <2> QED BY <2>1, <2>2, <2>3, <2>4, <2>5, <2>6 DEF Next
<1> QED BY <1>6 DEF Healthy

\* A step of a commit without an I/O error.
LEMMA SaveItKeeps ==
  ASSUME TInv, UNCHANGED mode, SoundOK, SaveIt, Healthy'
  PROVE  SoundOK'
<1>1. ~failure /\ FileOK /\ pc # "idle"
  BY DEF SoundOK, SaveIt, WriteSkip, FlushSkip, WriteHead, WriteMark1, ReserveTails, WriteColumn,
         WriteWalk, FlushData, WriteMark2, FlushTail, WriteHeader, FinishCommit
<1>2. PICK at \in Nat : BusyOK(at)
  BY <1>1 DEF SoundOK
<1>3. ASSUME ~failure' /\ FileOK' /\ pc' # "idle" /\ BusyOK(at)' PROVE SoundOK'
  BY <1>3 DEF SoundOK
<1>4. CASE WriteSkip
  BY <1>1, <1>2, <1>3, <1>4, WriteSkipKeeps
<1>5. CASE FlushSkip
  BY <1>1, <1>2, <1>3, <1>5, FlushSkipKeeps
<1>6. CASE WriteHead
  BY <1>1, <1>2, <1>3, <1>6, WriteHeadKeeps
<1>7. CASE WriteMark1
  BY <1>1, <1>2, <1>3, <1>7, WriteMark1Keeps
<1>8. CASE ReserveTails
  BY <1>1, <1>2, <1>3, <1>8, ReserveTailsKeeps
<1>9. CASE WriteColumn
  BY <1>1, <1>2, <1>3, <1>9, WriteColumnKeeps
<1>10. CASE WriteWalk
  BY <1>1, <1>2, <1>3, <1>10, WriteWalkKeeps
<1>11. CASE FlushData
  BY <1>1, <1>2, <1>3, <1>11, FlushDataKeeps
<1>12. CASE WriteMark2
  BY <1>1, <1>2, <1>3, <1>12, WriteMark2Keeps
<1>13. CASE FlushTail
  BY <1>1, <1>2, <1>3, <1>13, FlushTailKeeps
<1>14. CASE WriteHeader
  BY <1>1, <1>2, <1>3, <1>14, WriteHeaderKeeps
<1>15. CASE FinishCommit
  <2>1. ~failure' /\ FileOK' /\ pc' = "idle" /\ \E a \in Nat : IdleOK(a)'
    BY <1>1, <1>2, <1>15, FinishCommitKeeps
  <2> QED BY <2>1 DEF SoundOK
<1> QED BY <1>4, <1>5, <1>6, <1>7, <1>8, <1>9, <1>10, <1>11, <1>12, <1>13, <1>14, <1>15 DEF SaveIt

\* Every step keeps the invariant.
LEMMA StepKeeps ==
  ASSUME TInv, IInv, [Next]_vars
  PROVE  IInv'
<1> SUFFICES ASSUME Healthy' PROVE SoundOK'
  BY DEF IInv
<1>1. SoundOK
  BY FailsStay DEF IInv
<1>2. ASSUME ~failure' /\ FileOK' /\ pc' = "idle" /\ \E at \in Nat : IdleOK(at)' PROVE SoundOK'
  BY <1>2 DEF SoundOK
<1>3. CASE Next
  <2>1. UNCHANGED mode
    BY <1>3 DEF Next
  <2>2. CASE \E c \in Cols : \E len \in ColLens : \E tag \in Tags \cup {NoTag} : Modify(c, len, tag)
    BY <1>1, <1>2, <2>1, <2>2, ModifyKeeps
  <2>3. CASE Rollback
    BY <1>1, <1>2, <2>1, <2>3, RollbackKeeps
  <2>4. CASE StartCommit
    <3>1. ~failure /\ FileOK /\ pc = "idle"
      BY <1>1, <2>4, StartCommitIs DEF SoundOK
    <3>2. PICK at \in Nat : IdleOK(at)
      BY <1>1, <3>1 DEF SoundOK
    <3>3. CASE NoChange
      BY <1>2, <2>1, <2>4, <3>1, <3>2, <3>3, NoCommitKeeps
    <3>4. CASE ~NoChange
      <4>1. ~failure' /\ FileOK' /\ pc' # "idle" /\ BusyOK(at)'
        BY <2>1, <2>4, <3>1, <3>2, <3>4, CommitStarts
      <4> QED BY <4>1 DEF SoundOK
    <3> QED BY <3>3, <3>4
  <2>5. CASE SaveIt
    BY <1>1, <2>1, <2>5, SaveItKeeps
  <2>6. CASE Crash
    BY <1>1, <1>2, <2>1, <2>6, CrashKeeps
  <2> QED BY <1>3, <2>2, <2>3, <2>4, <2>5, <2>6 DEF Next
<1>4. CASE UNCHANGED vars
  BY <1>1, <1>4 DEF vars, filevars, memvars, SoundOK, FileOK, IdleOK, BusyOK, LayOK, FreshOK, SpaceOK, NextOK,
     ColsOK, SavedOK, RecoverOK, SkipOK, WritingOK, MarksOK, TailOK, DoneOK, TailIsPending, Kept, Image,
     End1, End2
<1> QED BY <1>3, <1>4

----------------------------------------------------------------------------
\* The types of all variables follow: in particular every extent, in the file and
\* in the buffer, is somewhere in the file and not empty.
LEMMA TypesFollow ==
  ASSUME TInv, mode \in Modes
  PROVE  TypeOK
<1>1. /\ file \in SUBSET Exts /\ pend \in Seq(Exts) /\ size \in Nat /\ failure \in BOOLEAN
      /\ base \in Nat /\ known \subseteq Cols /\ space \in Spaces /\ rootWalk \in Maps /\ pc \in Steps
      /\ col \in [Cols -> [len : Nat, pos : Nat, tag : Tags \cup {NoTag}, dirty : BOOLEAN]]
      /\ saved \in Contents /\ attempt \in Contents
  BY DEF TInv, FileTyped, MemTyped, HistoryTyped, PlanTyped, ColumnsTyped
<1>2. Range(pend) \subseteq Exts
  BY <1>1 DEF Range
<1>3. \A e \in file \cup Range(pend) : e.at \in Nat /\ e.len \in Nat \ {0}
  BY <1>1, <1>2 DEF Exts
<1>4. space \subseteq Nat \ {0} /\ rootWalk \in Walks
  BY <1>1 DEF Spaces, Maps
<1> QED BY <1>1, <1>3, <1>4 DEF TypeOK

\* Without I/O errors, what is written while a commit is under way is written beside
\* the version last committed.
LEMMA NeverOverwritesFollows ==
  ASSUME TInv, IInv
  PROVE  NeverOverwrites
<1> SUFFICES ASSUME pc # "idle", Healthy
             PROVE  ContentsOf(file, base, plan.old) = saved /\ ContentsOf(Image, base, plan.old) = saved
  BY DEF NeverOverwrites
<1>1. SavedOK
  BY DEF IInv, SoundOK, BusyOK
<1> QED BY <1>1, SavedInImage DEF SavedOK

\* Without I/O errors, between commits the columns that are set up are claimed.
LEMMA LiveSpaceFollows ==
  ASSUME TInv, IInv, mode \in Modes
  PROVE  LiveSpaceClaimed
<1>1. TypeOK
  BY TypesFollow
<1>2. ASSUME pc = "idle", mode = 1, Healthy, NEW c \in known, ~col[c].dirty
      PROVE  Bytes(col[c].pos, col[c].len) \subseteq space
  <2>1. PICK at \in Nat : IdleOK(at)
    BY <1>2 DEF IInv, SoundOK
  <2>2. c \in Cols
    BY DEF TInv, MemTyped
  <2>3. col[c] = Clean(rootWalk[c])
    BY <1>2, <2>1, <2>2 DEF IdleOK
  <2>4. col[c].pos = rootWalk[c].pos /\ col[c].len = rootWalk[c].len
    BY <2>3 DEF Clean
  <2>5. BytesOf(rootWalk[c]) \subseteq space
    BY <1>2, <2>1 DEF IdleOK, Claims
  <2> QED BY <2>4, <2>5 DEF BytesOf
<1> QED BY <1>1, <1>2 DEF LiveSpaceClaimed

\* The inductive invariant holds in every state: the types, and as long as no write
\* and no flush has failed, what the file and the buffer hold of the old version and
\* of the new one at each step of a commit, and what the next commit goes by.
THEOREM InvariantHolds == Spec => [](TInv /\ IInv /\ mode \in Modes)
<1>1. Init => TInv /\ IInv /\ mode \in Modes
  BY InitTyped, InitKeeps DEF IInv, Init
<1>2. TInv /\ IInv /\ mode \in Modes /\ [Next]_vars => (TInv /\ IInv /\ mode \in Modes)'
  <2> SUFFICES ASSUME TInv, IInv, mode \in Modes, [Next]_vars
               PROVE  TInv' /\ IInv' /\ mode' \in Modes
    OBVIOUS
  <2>1. mode' = mode
    BY DEF Next, vars
  <2> QED BY <2>1, StepKeepsTypes, StepKeeps
<1> QED BY <1>1, <1>2, PTL DEF Spec

\* The types of all variables, after I/O errors too.
THEOREM TypesCorrect == Spec => []TypeOK
<1>1. TInv /\ IInv /\ mode \in Modes => TypeOK
  BY TypesFollow
<1> QED BY <1>1, InvariantHolds, PTL

\* Stable storage: for any number of columns and of commits, any lengths, and crashes
\* at any step, no commit writes over what was last committed before its own commit
\* tail is in the file.
THEOREM StableStorage == Spec => []NeverOverwrites
<1>1. TInv /\ IInv /\ mode \in Modes => NeverOverwrites
  BY NeverOverwritesFollows
<1> QED BY <1>1, InvariantHolds, PTL

\* The space of every column that is set up and not changed is claimed whenever no
\* commit is under way, so that the next commit cannot allocate it.
THEOREM SpaceIsClaimed == Spec => []LiveSpaceClaimed
<1>1. TInv /\ IInv /\ mode \in Modes => LiveSpaceClaimed
  BY LiveSpaceFollows
<1> QED BY <1>1, InvariantHolds, PTL

----------------------------------------------------------------------------
(***************************************************************************)
(* The commit protocol implements the promise of DurableStore, for any      *)
(* number of columns, any lengths, and any number of commits and crashes;   *)
(* after the first I/O error nothing is promised.                          *)
(***************************************************************************)

\* The contents that columns can be given.
Items == {NoContent} \cup {Content(n, t) : n \in ColLens \ {0}, t \in Tags}
Versions == [Cols -> Items]

\* A version is saved or being saved, never garbage.
VersionsOK ==
  /\ saved \in Versions
  /\ pc # "idle" => attempt \in Versions
  /\ \A c \in Cols : col[c].dirty => Content(col[c].len, col[c].tag) \in Items

\* The kind of commit that is under way.
Kind == IF pc = "idle" THEN "no" ELSE IF plan.inPlace THEN "inPlace" ELSE "grows"

\* What the steps do to what the user reads, to what is saved, and to that.
Stays   == Working' = Working /\ saved' = saved /\ Kind' = Kind
Changes == /\ Kind = "no" /\ Kind' = "no" /\ saved' = saved /\ Working' \in Versions
           /\ \E c \in Cols : \A d \in Cols \ {c} : Working'[d] = Working[d]
Begins  == /\ Kind = "no" /\ Kind' \in {"inPlace", "grows"}
           /\ Working' = Working /\ saved' = saved
Commits == Kind' = "no" /\ saved' = Working /\ Working' = Working
Reverts == Kind = "no" /\ Kind' = "no" /\ Working' = saved /\ saved' = saved
Crashes == /\ Kind' = "no" /\ Working' = saved'
           /\ saved' \in CASE Kind = "no"      -> {saved}
                           [] Kind = "inPlace" -> {saved, Working}
                           [] Kind = "grows"   -> {saved, Working, Empty}

Promised == Stays \/ Changes \/ Begins \/ Commits \/ Reverts \/ Crashes

----------------------------------------------------------------------------
\* Between commits the user reads what was saved, and the changes since.
LEMMA WorkingIdle ==
  TInv /\ SoundOK /\ pc = "idle" =>
    \A c \in Cols : Working[c] = IF col[c].dirty THEN Content(col[c].len, col[c].tag) ELSE saved[c]
<1> SUFFICES ASSUME TInv, SoundOK, pc = "idle", NEW c \in Cols
             PROVE  Working[c] = IF col[c].dirty THEN Content(col[c].len, col[c].tag) ELSE saved[c]
  OBVIOUS
<1>1. PICK at \in Nat : IdleOK(at)
  BY DEF SoundOK
<1>2. FileOK
  BY DEF SoundOK
<1>3. Image = file /\ saved = ContentsOf(file, base, rootWalk)
  BY <1>1, <1>2, StartFrom
<1>4. CASE col[c].dirty
  BY <1>4, WorkingOf
<1>5. CASE ~col[c].dirty
  <2>1. col[c] = Clean(rootWalk[c])
    BY <1>1, <1>5 DEF IdleOK
  <2>2. col[c].len = rootWalk[c].len /\ col[c].pos = rootWalk[c].pos
    BY <2>1 DEF Clean
  <2>3. rootWalk[c] \in [len : Nat, pos : Nat]
    BY DEF TInv, MemTyped, Maps, Walks
  <2>4. Location(col[c].len, col[c].pos) = rootWalk[c]
    BY <2>2, <2>3 DEF Location
  <2>5. saved[c] = ContentAt(file, base, rootWalk[c])
    BY <1>3 DEF ContentsOf
  <2> QED BY <1>3, <1>5, <2>4, <2>5, WorkingOf
<1> QED BY <1>4, <1>5

\* So without changes it is the version saved.
LEMMA WorkingSaved ==
  TInv /\ SoundOK /\ pc = "idle" /\ (\A c \in Cols : ~col[c].dirty) => Working = saved
<1> SUFFICES ASSUME TInv, SoundOK, pc = "idle", \A c \in Cols : ~col[c].dirty PROVE Working = saved
  OBVIOUS
<1>1. \A c \in Cols : Working[c] = saved[c]
  BY WorkingIdle
<1>2. Working \in Contents /\ saved \in Contents
  BY WorkingIs DEF TInv, HistoryTyped
<1> QED BY <1>1, <1>2 DEF Contents

\* While a commit is under way the user reads what is being saved.
LEMMA WorkingBusy ==
  TInv /\ SoundOK /\ pc # "idle" => Working = attempt
<1> SUFFICES ASSUME TInv, SoundOK, pc # "idle" PROVE Working = attempt
  OBVIOUS
<1>1. ColsOK
  BY DEF SoundOK, BusyOK
<1>2. ASSUME NEW c \in Cols PROVE Working[c] = attempt[c]
  <2>1. CASE col[c].dirty
    BY <1>1, <2>1, WorkingOf DEF ColsOK
  <2>2. CASE ~col[c].dirty
    <3>1. col[c] = Clean(plan.walk[c]) /\ ContentAt(Image, base, plan.walk[c]) = attempt[c]
      BY <1>1, <2>2 DEF ColsOK
    <3>2. col[c].len = plan.walk[c].len /\ col[c].pos = plan.walk[c].pos
      BY <3>1 DEF Clean
    <3>3. plan.walk[c] \in [len : Nat, pos : Nat]
      BY PlanFacts DEF Maps, Walks
    <3>4. Location(col[c].len, col[c].pos) = plan.walk[c]
      BY <3>2, <3>3 DEF Location
    <3> QED BY <2>2, <3>1, <3>4, WorkingOf
  <2> QED BY <2>1, <2>2
<1>3. Working \in Contents /\ attempt \in Contents
  BY WorkingIs DEF TInv, HistoryTyped
<1> QED BY <1>2, <1>3 DEF Contents

\* What the user reads is a version.
LEMMA WorkingVersion ==
  ASSUME TInv, SoundOK, VersionsOK
  PROVE  Working \in Versions
<1>1. CASE pc # "idle"
  BY <1>1, WorkingBusy DEF VersionsOK
<1>2. CASE pc = "idle"
  <2>1. \A c \in Cols : Working[c] \in Items
    BY <1>2, WorkingIdle DEF VersionsOK, Versions
  <2>2. Working = [c \in Cols |-> Working[c]]
    BY WorkingIs DEF Contents
  <2> QED BY <2>1, <2>2 DEF Versions
<1> QED BY <1>1, <1>2

\* So is the empty storage.
LEMMA EmptyVersion == Empty \in Versions
BY DEF Empty, Versions, Items

----------------------------------------------------------------------------
\* The steps of Commit between its first and its last, when no write and no flush
\* fails: the commit stays under way, and what is saved and being saved stays.
LEMMA BusyStep ==
  ASSUME TInv, SoundOK, TInv', SoundOK', SaveIt, ~FinishCommit
  PROVE  /\ pc # "idle" /\ pc' # "idle" /\ saved' = saved /\ attempt' = attempt
         /\ plan'.inPlace = plan.inPlace
         /\ col' = col \/ \E c \in Cols : \E loc : col' = [col EXCEPT ![c] = Clean(loc)]
<1> USE DEF Continue
<1>1. ~failure'
  BY DEF SoundOK
<1>2. plan \in Plans
  BY DEF TInv, PlanTyped
<1>3. CASE WriteSkip
  BY <1>3 DEF WriteSkip, memvars
<1>4. CASE FlushSkip
  BY <1>1, <1>4 DEF FlushSkip, memvars
<1>5. CASE WriteHead
  BY <1>5 DEF WriteHead, memvars
<1>6. CASE WriteMark1
  BY <1>6 DEF WriteMark1, memvars
<1>7. CASE ReserveTails
  <2>1. plan' = [plan EXCEPT !.next = TailsReserved(@)]
    BY <1>7 DEF ReserveTails
  <2>2. plan'.inPlace = plan.inPlace
    BY <1>2, <2>1 DEF Plans
  <2> QED BY <1>7, <2>2 DEF ReserveTails
<1>8. CASE WriteColumn
  <2>1. plan' = [plan EXCEPT !.k = @ + 1]
    BY <1>8 DEF WriteColumn
  <2>2. plan'.inPlace = plan.inPlace
    BY <1>2, <2>1 DEF Plans
  <2>3. pc = "cols" /\ plan.k \in Cols
    BY <1>8 DEF WriteColumn, TInv, PlanTyped
  <2>4. col' = col \/ \E c \in Cols : \E loc : col' = [col EXCEPT ![c] = Clean(loc)]
    BY <1>8, <2>3 DEF WriteColumn
  <2> QED BY <1>8, <2>2, <2>3, <2>4 DEF WriteColumn
<1>9. CASE WriteWalk
  BY <1>1, <1>9 DEF WriteWalk, memvars
<1>10. CASE FlushData
  BY <1>10 DEF FlushData, memvars
<1>11. CASE WriteMark2
  BY <1>11 DEF WriteMark2, memvars
<1>12. CASE FlushTail
  BY <1>12 DEF FlushTail, memvars
<1>13. CASE WriteHeader
  BY <1>13 DEF WriteHeader, memvars
<1> QED BY <1>3, <1>4, <1>5, <1>6, <1>7, <1>8, <1>9, <1>10, <1>11, <1>12, <1>13 DEF SaveIt

\* In such a step the user reads the same.
LEMMA BusyStays ==
  ASSUME TInv, SoundOK, TInv', SoundOK', VersionsOK, SaveIt, ~FinishCommit
  PROVE  Stays /\ VersionsOK'
<1>1. Working = attempt
  BY BusyStep, WorkingBusy
<1>2. (TInv /\ SoundOK /\ pc # "idle" => Working = attempt)'
  BY WorkingBusy, PTL
<1>3. Working' = attempt'
  BY <1>2, BusyStep
<1>4. Stays
  BY <1>1, <1>3, BusyStep DEF Stays, Kind
<1>5. ASSUME NEW c \in Cols, col'[c].dirty PROVE Content(col[c].len, col[c].tag)' \in Items
  <2>1. col'[c] = col[c]
    BY <1>5, BusyStep DEF Clean, TInv, MemTyped, ColumnsTyped
  <2> QED BY <1>5, <2>1 DEF VersionsOK, Content
<1>6. saved' \in Versions /\ attempt' \in Versions
  BY BusyStep DEF VersionsOK
<1>7. VersionsOK'
  BY <1>5, <1>6 DEF VersionsOK
<1> QED BY <1>4, <1>7

\* The last step of a commit that succeeds.
LEMMA FinishIs ==
  ASSUME TInv, SoundOK, VersionsOK, UNCHANGED mode, FinishCommit, Healthy'
  PROVE  Commits /\ VersionsOK'
<1>1. /\ pc = "finish" /\ pc # "idle" /\ DataCommit
      /\ base' = base /\ col' = col /\ attempt' = attempt
  BY DEF FinishCommit
<1>2. PICK at \in Nat : BusyOK(at)
  BY <1>1 DEF SoundOK
<1>3. pc' = "idle" /\ saved' = attempt
  BY <1>2, FinishCommitKeeps DEF SoundOK
<1>4. Image' = Image
  BY <1>1, HealthyFlush DEF FlushDone
<1>5. Working' = Working
  BY <1>1, <1>4 DEF Working
<1>6. saved' = Working
  BY <1>1, <1>3, WorkingBusy
<1>7. Commits
  BY <1>3, <1>5, <1>6 DEF Commits, Kind
<1>8. saved' \in Versions
  BY <1>1, <1>3 DEF VersionsOK
<1>9. VersionsOK'
  BY <1>1, <1>3, <1>8 DEF VersionsOK
<1> QED BY <1>7, <1>9

----------------------------------------------------------------------------
\* A changed column is the only one that reads otherwise.
LEMMA ModifyIs ==
  ASSUME TInv, SoundOK, TInv', SoundOK', VersionsOK,
         NEW c \in Cols, NEW len \in ColLens, NEW tag \in Tags \cup {NoTag}, Modify(c, len, tag)
  PROVE  Changes /\ VersionsOK'
<1>1. /\ pc = "idle" /\ pc' = "idle" /\ (len = 0 <=> tag = NoTag) /\ saved' = saved /\ attempt' = attempt
      /\ file' = file /\ pend' = pend /\ base' = base
      /\ col' = [col EXCEPT ![c] = Changed(len, tag)]
  BY DEF Modify, filevars
<1>2. Image' = Image
  BY <1>1 DEF Image
<1>3. col \in [Cols -> [len : Nat, pos : Nat, tag : Tags \cup {NoTag}, dirty : BOOLEAN]]
  BY DEF TInv, MemTyped, ColumnsTyped
<1>4. col'[c] = Changed(len, tag) /\ \A d \in Cols \ {c} : col'[d] = col[d]
  BY <1>1, <1>3
<1>5. \A d \in Cols \ {c} : Working'[d] = Working[d]
  BY <1>1, <1>2, <1>4 DEF Working
<1>6. Content(len, tag) \in Items
  BY <1>1, TagsAssumption DEF Items, NoContent
<1>7. ASSUME NEW d \in Cols, col'[d].dirty PROVE Content(col[d].len, col[d].tag)' \in Items
  <2>1. CASE d = c
    BY <1>4, <1>6, <2>1 DEF Changed, Content
  <2>2. CASE d # c
    BY <1>4, <1>7, <2>2 DEF VersionsOK, Content
  <2> QED BY <2>1, <2>2
<1>8. VersionsOK'
  BY <1>1, <1>7 DEF VersionsOK
<1>9. (TInv /\ SoundOK /\ VersionsOK => Working \in Versions)'
  BY WorkingVersion, PTL
<1>10. Working' \in Versions
  BY <1>8, <1>9
<1> QED BY <1>1, <1>5, <1>8, <1>10 DEF Changes, Kind

\* After loading nothing is changed.
LEMMA LoadedIs ==
  ASSUME NEW f, NEW sz, NEW stale, Load(f, sz, stale)
  PROVE  \A c \in Cols : ~col'[c].dirty
BY DEF Load, Clean

\* Rollback takes the user back to what is saved.
LEMMA RollbackIs ==
  ASSUME TInv, SoundOK, TInv', SoundOK', VersionsOK, UNCHANGED mode, Rollback
  PROVE  Reverts /\ VersionsOK'
<1>1. pc = "idle" /\ pc' = "idle" /\ saved' = saved
  BY RollbackKeeps DEF Rollback
<1>2. \A c \in Cols : ~col'[c].dirty
  BY LoadedIs DEF Rollback
<1>3. (TInv /\ SoundOK /\ pc = "idle" /\ (\A c \in Cols : ~col[c].dirty) => Working = saved)'
  BY WorkingSaved, PTL
<1>4. Working' = saved'
  BY <1>1, <1>2, <1>3
<1>5. VersionsOK'
  BY <1>1, <1>2 DEF VersionsOK
<1> QED BY <1>1, <1>4, <1>5 DEF Reverts, Kind

\* A commit that has nothing to write succeeds at once.
LEMMA StartIs ==
  ASSUME TInv, SoundOK, VersionsOK, UNCHANGED mode, StartCommit
  PROVE  (Begins \/ Commits) /\ VersionsOK'
<1>1. /\ pc = "idle" /\ file' = file /\ pend' = pend /\ base' = base /\ col' = col
      /\ attempt' = Working
  BY StartCommitIs
<1>2. Working' = Working
  BY <1>1 DEF Working, Image
<1>3. PICK at \in Nat : IdleOK(at)
  BY <1>1 DEF SoundOK
<1>4. ~failure /\ FileOK
  BY DEF SoundOK
<1>5. Working \in Versions
  BY WorkingVersion
<1>6. ASSUME saved' = saved PROVE VersionsOK'
  BY <1>1, <1>5, <1>6 DEF VersionsOK
<1>7. CASE NoChange
  <2>1. pc' = "idle" /\ saved' = saved
    BY <1>3, <1>4, <1>7, NoCommitKeeps
  <2>2. Working = saved
    BY <1>1, <1>3, <1>4, <1>7, NothingChanged
  <2> QED BY <1>2, <1>6, <2>1, <2>2 DEF Commits, Kind
<1>8. CASE ~NoChange
  <2>1. pc' # "idle" /\ saved' = saved
    BY <1>3, <1>4, <1>8, CommitStarts
  <2> QED BY <1>1, <1>2, <1>6, <2>1 DEF Begins, Kind
<1> QED BY <1>7, <1>8

\* A crash leaves one of the versions that the promise allows, and nothing changed.
LEMMA CrashIs ==
  ASSUME TInv, SoundOK, TInv', SoundOK', VersionsOK, UNCHANGED mode, Crash
  PROVE  Crashes /\ VersionsOK'
<1>1. pc' = "idle" /\ saved' \in Survivors
  BY CrashKeeps DEF Crash
<1>2. \A c \in Cols : ~col'[c].dirty
  BY LoadedIs DEF Crash
<1>3. (TInv /\ SoundOK /\ pc = "idle" /\ (\A c \in Cols : ~col[c].dirty) => Working = saved)'
  BY WorkingSaved, PTL
<1>4. Working' = saved'
  BY <1>1, <1>2, <1>3
<1>5. pc # "idle" => Working = attempt
  BY WorkingBusy
<1>6. Crashes
  BY <1>1, <1>4, <1>5 DEF Crashes, Kind, Survivors
<1>7. saved' \in Versions
  BY <1>1, EmptyVersion DEF Survivors, VersionsOK
<1>8. VersionsOK'
  BY <1>1, <1>2, <1>7 DEF VersionsOK
<1> QED BY <1>6, <1>8

----------------------------------------------------------------------------
\* Every step that meets no I/O error keeps the promise.
LEMMA StepPromised ==
  ASSUME TInv, SoundOK, TInv', SoundOK', VersionsOK, [Next]_vars, Healthy'
  PROVE  Promised /\ VersionsOK'
<1>1. UNCHANGED mode
  BY DEF Next, vars
<1>2. CASE UNCHANGED vars
  <2>1. /\ saved' = saved /\ attempt' = attempt /\ pc' = pc /\ plan' = plan /\ col' = col
        /\ file' = file /\ pend' = pend /\ base' = base
    BY <1>2 DEF vars, filevars, memvars
  <2>2. Stays
    BY <2>1 DEF Stays, Kind, Working, Image
  <2>3. VersionsOK'
    BY <2>1 DEF VersionsOK
  <2> QED BY <2>2, <2>3 DEF Promised
<1>3. CASE \E c \in Cols : \E len \in ColLens : \E tag \in Tags \cup {NoTag} : Modify(c, len, tag)
  BY <1>3, ModifyIs DEF Promised
<1>4. CASE Rollback
  BY <1>1, <1>4, RollbackIs DEF Promised
<1>5. CASE StartCommit
  BY <1>1, <1>5, StartIs DEF Promised
<1>6. CASE SaveIt /\ ~FinishCommit
  BY <1>6, BusyStays DEF Promised
<1>7. CASE FinishCommit
  BY <1>1, <1>7, FinishIs DEF Promised
<1>8. CASE Crash
  BY <1>1, <1>8, CrashIs DEF Promised
<1> QED BY <1>2, <1>3, <1>4, <1>5, <1>6, <1>7, <1>8 DEF Next

\* The version saved and the one being saved are versions, as long as that is so.
RInv == Healthy => VersionsOK

\* A new storage is empty, and keeps the promise.
LEMMA InitRefines ==
  Init => RInv /\ Durable!Init
<1> SUFFICES ASSUME Init PROVE VersionsOK /\ Durable!Init
  BY DEF RInv
<1>1. /\ saved = Empty /\ pc = "idle" /\ used.fails = 0
      /\ col = [c \in Cols |-> Clean(Location(0, 0))]
  BY DEF Init
<1>2. \A c \in Cols : ~col[c].dirty
  BY <1>1 DEF Clean
<1>3. VersionsOK
  BY <1>1, <1>2, EmptyVersion DEF VersionsOK
<1>4. TInv /\ SoundOK
  BY InitTyped, InitKeeps
<1>5. Working = saved
  BY <1>1, <1>2, <1>4, WorkingSaved
<1>6. Healthy
  BY <1>1 DEF Healthy
<1>7. Durable!Init
  BY <1>1, <1>5, <1>6 DEF Durable!Init
<1> QED BY <1>3, <1>7

\* A step of Persist is a step of DurableStore, or changes nothing there.
LEMMA StepRefines ==
  ASSUME TInv, IInv, RInv, TInv', IInv', [Next]_vars
  PROVE  RInv' /\ [Durable!Next]_(Durable!vars)
<1>1. CASE ~Healthy
  <2>1. ~Healthy'
    BY <1>1, FailsStay
  <2>2. UNCHANGED Durable!vars
    BY <1>1, <2>1 DEF Durable!vars
  <2> QED BY <2>1, <2>2 DEF RInv
<1>2. CASE Healthy /\ ~Healthy'
  <2>1. Durable!Fail
    BY <1>2 DEF Durable!Fail
  <2> QED BY <1>2, <2>1 DEF RInv, Durable!Next
<1>3. CASE Healthy /\ Healthy'
  <2>1. SoundOK /\ SoundOK' /\ VersionsOK
    BY <1>3 DEF IInv, RInv
  <2>2. Promised /\ VersionsOK'
    BY <1>3, <2>1, StepPromised
  <2>3. RInv'
    BY <2>2 DEF RInv
  <2>4. Kind \in {"no", "inPlace", "grows"} /\ Kind' \in {"no", "inPlace", "grows"}
    BY DEF Kind
  <2>5. CASE Stays
    BY <1>3, <2>5, <2>3 DEF Stays, Kind, Durable!vars
  <2>6. CASE Changes
    <3>1. PICK c \in Cols : \A d \in Cols \ {c} : Working'[d] = Working[d]
      BY <2>6 DEF Changes
    <3>2. Durable!Change
      BY <1>3, <2>6, <3>1 DEF Changes, Kind, Durable!Change, Versions, Items
    <3> QED BY <1>3, <2>6, <2>3, <3>2 DEF Changes, Kind, Durable!Next
  <2>7. CASE Begins
    <3>1. Durable!Begin
      BY <1>3, <2>7 DEF Begins, Kind, Durable!Begin
    <3> QED BY <1>3, <2>7, <2>3, <3>1 DEF Begins, Kind, Durable!Next
  <2>8. CASE Commits
    <3>1. Durable!Commit
      BY <1>3, <2>8 DEF Commits, Kind, Durable!Commit
    <3> QED BY <1>3, <2>4, <2>3, <3>1 DEF Kind, Durable!Next
  <2>9. CASE Reverts
    <3>1. Durable!Revert
      BY <1>3, <2>9 DEF Reverts, Kind, Durable!Revert
    <3> QED BY <1>3, <2>9, <2>3, <3>1 DEF Reverts, Kind, Durable!Next
  <2>10. CASE Crashes
    <3>1. Durable!Crash
      BY <1>3, <2>4, <2>10 DEF Crashes, Kind, Durable!Crash, Durable!Survivors
    <3> QED BY <1>3, <2>4, <2>3, <3>1 DEF Kind, Durable!Next
  <2> QED BY <2>2, <2>5, <2>6, <2>7, <2>8, <2>9, <2>10 DEF Promised
<1> QED BY <1>1, <1>2, <1>3

\* The commit protocol keeps the promise of a durable store.  As long as no write and
\* no flush fails: what the user reads changes by Modify, Rollback and a crash only;
\* when Commit returns, what was read is what is saved; and a crash at any step, with
\* any of the unflushed writes lost or torn, brings up the version saved or the one
\* being saved as a whole, or nothing if the commit makes the file grow.
THEOREM CommitIsDurable == Spec => ImplementsDurableStore
<1>1. Init => RInv /\ Durable!Init
  BY InitRefines
<1>2. TInv /\ IInv /\ RInv /\ (TInv /\ IInv)' /\ [Next]_vars => RInv' /\ [Durable!Next]_(Durable!vars)
  BY StepRefines
<1> QED BY <1>1, <1>2, InvariantHolds, PTL DEF Spec, ImplementsDurableStore, Durable!Spec
=============================================================================
