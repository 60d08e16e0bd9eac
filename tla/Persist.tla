------------------------------ MODULE Persist -------------------------------
(***************************************************************************)
(* A storage and its datafile: opening it, changing columns, and the commit *)
(* protocol of c4_SaveContext::SaveIt with the crashes and I/O failures     *)
(* that can hit it at every step (persist.cpp, viewx.cpp, fileio.cpp).      *)
(*                                                                         *)
(* A column is one nested column of the storage, all the walks on the way   *)
(* to it (the _data columns of c4_FormatV) are folded into one root walk.   *)
(* Writes go to the stdio buffer and are in the file for certain after a    *)
(* DataCommit only; until then a crash may lose any of them.               *)
(*                                                                         *)
(* A definition with an underscore in its name is a faulty variant of the  *)
(* one named before it, which shows that a property can fail.              *)
(***************************************************************************)
EXTENDS Datafile, SpaceOps, SequencesExt

CONSTANTS Modes,        \* the modes of opening: 1 read/write, 2 commit-extend
          ColLens,      \* bound: the lengths a column can be given
          MaxCommits,   \* bound: calls of Commit, for each mode, one less after a failure
          MaxCrashes,   \* bound: crashes, or closing and opening again
          MaxRollbacks, \* bound: calls of Rollback
          MaxFails      \* bound: failing writes and flushes, not in the last commit
                        \* and not in a run with a crash

ASSUME PersistAssumption ==
  /\ Modes \subseteq {1, 2} /\ ColLens \subseteq Nat
  /\ MaxCommits \in [Modes -> Nat] /\ MaxCrashes \in Nat
  /\ MaxRollbacks \in Nat /\ MaxFails \in Nat

VARIABLES
  mode,      \* c4_Persist::_mode
  file,      \* the extents certain to be in the file
  size,      \* its size, counting those only
  pend,      \* the writes since then, in order
  base,      \* c4_Strategy::_baseOffset
  failure,   \* c4_Strategy::_failure # 0
  col,       \* the columns in memory
  known,     \* the columns that were set up: their space was claimed on opening
  space,     \* c4_Persist::_space, the bytes in use (mode 1 only)
  rootWalk,  \* c4_Persist::_rootWalk
  pc,        \* the next step of SaveIt, "idle" outside of it
  plan,      \* the local variables of SaveIt
  saved,     \* history: the version last committed with success, or recovered
  attempt,   \* history: the version that Commit is saving
  used       \* the operations counted by the bounds

filevars == <<file, size, pend, failure>>
memvars  == <<base, col, known, space, rootWalk>>
vars == <<mode, filevars, memvars, pc, plan, saved, attempt, used>>

----------------------------------------------------------------------------
\* What becomes of a write in the buffer: all but the marks, which are too small,
\* may be torn.
Fates(e) == IF e.what.kind \in {"data", "walk"}
            THEN {"done", "torn", "lost"} ELSE {"done", "lost"}

Survive(f, e, fate) == CASE fate = "done" -> Written(f, e)
                         [] fate = "torn" -> Overwritten(f, e)
                         [] fate = "lost" -> f

\* A file, and its size, when that happens to the writes that are pending.
FileAfter(f, writes, fate) ==
  LET after[i \in 0 .. Len(writes)] ==
        IF i = 0 THEN f ELSE Survive(after[i - 1], writes[i], fate[i])
  IN  after[Len(writes)]
SizeAfter(sz, writes, fate) ==
  LET after[i \in 0 .. Len(writes)] ==
        IF i = 0 THEN sz
        ELSE IF fate[i] = "lost" THEN after[i - 1] ELSE Longest(after[i - 1], writes[i])
  IN  after[Len(writes)]

\* The file as this process sees it, buffered writes included.
AllDone(writes) == [i \in DOMAIN writes |-> "done"]
Image    == FileAfter(file, pend, AllDone(pend))
FileSize == SizeAfter(size, pend, AllDone(pend))

\* A column in memory; what a clean one contains is read from the file.
Clean(loc) == [len |-> loc.len, pos |-> loc.pos, tag |-> NoTag, dirty |-> FALSE]
Changed(len, tag) == [len |-> len, pos |-> 0, tag |-> tag, dirty |-> TRUE]

\* The contents of the storage, as its user reads them.
Working ==
  [c \in Cols |-> IF col[c].dirty THEN Content(col[c].len, col[c].tag)
                  ELSE ContentAt(Image, base, Location(col[c].len, col[c].pos))]

\* A root walk takes three bytes and something for each column with data.
WalkLen(w) == 3 + Cardinality({c \in Cols : w[c].len > 0})

\* The logically empty storage: a header and a walk without columns (11 bytes).
EmptyLimit == Mark + 3

NoPlan == [end |-> 0, limit |-> 0, inPlace |-> FALSE, end0 |-> 0,
           walk |-> EmptyWalk, walkPos |-> 0, next |-> {}, old |-> EmptyWalk,
           k |-> 0]

\* PullLocation of a column that is not yet set up claims its space.
Claimed(sp, c) ==
  IF mode = 1 /\ c \notin known /\ col[c].len > 0
  THEN Occupied(sp, col[c].pos, col[c].len) ELSE sp

----------------------------------------------------------------------------
\* LoadAll on a file: where the data starts, the columns by the root walk, and
\* the space of the walk itself.  Nested columns are set up on first use.  When
\* there is no data, what there is becomes a prefix to be left alone (SetBase).
Load(f, sz, stale) ==
  LET d == EndOfData(f, sz)
      w == IF d.found THEN WalkAt(f, d.base + d.pos, d.len) ELSE EmptyWalk
  IN  /\ base' = IF d.found THEN d.base ELSE sz
      /\ col' = [c \in Cols |-> Clean(w[c])]
      /\ known' = {}
      /\ space' = IF mode = 1 /\ d.found THEN Occupied({}, d.pos, d.len) ELSE {}
      /\ rootWalk' = IF d.found THEN w ELSE stale

\* A new, empty file is opened.
Init ==
  /\ mode \in Modes
  /\ file = {} /\ size = 0 /\ pend = <<>> /\ failure = FALSE
  /\ base = 0 /\ col = [c \in Cols |-> Clean(Location(0, 0))]
  /\ known = {} /\ space = {} /\ rootWalk = EmptyWalk
  /\ pc = "idle" /\ plan = NoPlan
  /\ saved = Empty /\ attempt = Empty
  /\ used = [commits |-> 0, crashes |-> 0, rollbacks |-> 0, fails |-> 0]

\* A column gets other contents; it is set up first if it was not.
Modify(c, len, tag) ==
  /\ pc = "idle"
  /\ len = 0 <=> tag = NoTag
  /\ known' = known \cup {c}
  /\ space' = Claimed(space, c)
  /\ col' = [col EXCEPT ![c] = Changed(len, tag)]
  /\ UNCHANGED <<filevars, base, rootWalk, pc, plan, saved, attempt, used>>

\* Rollback: drop everything in memory and load the file again.
Rollback ==
  /\ pc = "idle"
  /\ used.rollbacks < MaxRollbacks                     \* bound
  /\ used' = [used EXCEPT !.rollbacks = @ + 1]
  /\ Load(Image, FileSize, rootWalk)
  /\ UNCHANGED <<filevars, pc, plan, saved, attempt>>

----------------------------------------------------------------------------
(* Commit.  First the walk over all columns that decides where each of them *)
(* will be: a changed one is allocated in what neither the last nor the     *)
(* next version uses (_space), and the next version's use is noted in       *)
(* _nextSpace.  In commit-extend mode both are the same allocator.          *)

\* DetachFromStorage(false) visits every subview, so every column is set up.
AllClaimed_KnownOnly == space

AllClaimed ==
  LET claim[k \in 0 .. NCols] == IF k = 0 THEN space ELSE Claimed(claim[k - 1], k)
  IN  claim[NCols]

\* What SaveIt reserves before it allocates, given the end of the data.
Reserved(sp, end) ==
  LET inside == IF mode = 2 /\ end > 0 THEN Occupied(sp, 1, end - 1) ELSE sp
      header == Occupied(inside, 1, Mark - 1)
      tails  == Occupied(header, end - 2 * Mark, 2 * Mark)
  IN  IF end > 0 THEN Occupied(tails, end, Mark) ELSE header

\* One CommitColumn of the first pass; s.at is what it adds to _newPositions.
Placed_InNextOnly(s, len, dirty, pos) ==
  LET at    == IF dirty THEN FirstFit(s.next, len) ELSE pos
      taken == IF dirty THEN s.space \cup Bytes(at, len) ELSE s.space
      next  == Occupied(IF mode = 1 THEN s.next ELSE taken, at, len)
  IN  [space |-> IF mode = 1 THEN taken ELSE next, next |-> next, at |-> at]

Placed(s, len, dirty, pos) ==
  LET at    == IF dirty THEN FirstFit(s.space, len) ELSE pos
      taken == IF dirty THEN s.space \cup Bytes(at, len) ELSE s.space
      next  == Occupied(IF mode = 1 THEN s.next ELSE taken, at, len)
  IN  [space |-> IF mode = 1 THEN taken ELSE next, next |-> next, at |-> at]

\* The state of both allocators and the walk after the columns 1 .. k.
FirstPass(sp, nx) ==
  LET pass[k \in 0 .. NCols] ==
        IF k = 0
        THEN [space |-> sp, next |-> nx, walk |-> EmptyWalk]
        ELSE LET p == pass[k - 1]
                 q == Placed(p, col[k].len, col[k].dirty, col[k].pos)
             IN  IF col[k].len = 0 THEN p
                 ELSE [space |-> q.space, next |-> q.next,
                       walk  |-> [p.walk EXCEPT ![k] = Location(col[k].len, q.at)]]
  IN  pass[NCols]

\* Commit up to the place "where writing may start".
StartCommit ==
  /\ pc = "idle"
  /\ used.commits + used.fails < MaxCommits[mode]      \* bound
  /\ used' = [used EXCEPT !.commits = @ + 1]
  /\ known' = IF mode = 1 THEN Cols ELSE known
  /\ LET end   == FileSize - base
         sp    == Reserved(IF mode = 1 THEN AllClaimed ELSE {}, end)
         first == FirstPass(sp, IF mode = 1 THEN Reserved({}, end) ELSE sp)
         root  == Placed(first, WalkLen(first.walk), TRUE, 0)
         limit == Limit(root.next)
         blank == limit <= EmptyLimit
         skip  == blank \/ first.walk = rootWalk
     IN  /\ rootWalk' = first.walk
         /\ space' = IF mode = 2 \/ blank THEN {} ELSE root.space
         /\ attempt' = Working
         /\ saved' = IF skip THEN Working ELSE saved
         /\ pc' = CASE skip -> "idle"
                    [] ~skip /\ end = limit - Mark -> "reserve"
                    [] OTHER -> "skip"
         /\ plan' = IF skip THEN NoPlan
                    ELSE [end |-> end, limit |-> limit,
                          inPlace |-> end = limit - Mark,
                          end0 |-> IF end = limit - Mark THEN end - 2 * Mark ELSE limit,
                          walk |-> first.walk, walkPos |-> root.at,
                          next |-> root.next, old |-> rootWalk, k |-> 1]
  /\ failure' = FALSE
  /\ UNCHANGED <<file, size, pend, base, col>>

----------------------------------------------------------------------------
\* A write may fail, which is only remembered in _failure; so may a flush,
\* which then leaves the data in the buffer.
Fails ==
  /\ used.fails < MaxFails /\ used.crashes = 0         \* bound
  /\ used.commits < MaxCommits[mode]                   \* bound
  /\ used' = [used EXCEPT !.fails = @ + 1]
  /\ failure' = TRUE
  /\ UNCHANGED <<file, size, pend>>

DataWrite(pos, len, what) ==
  \/ /\ pend' = Append(pend, Extent(base + pos, len, what))
     /\ UNCHANGED <<file, size, failure, used>>
  \/ Fails

DataCommit_NoFlush == UNCHANGED <<filevars, used>>

DataCommit ==
  \/ /\ file' = Image /\ size' = FileSize /\ pend' = <<>>
     /\ UNCHANGED <<failure, used>>
  \/ Fails

\* The end of a Commit that returns the given result.
Return(ok) ==
  /\ pc' = "idle" /\ plan' = NoPlan
  /\ saved' = IF ok THEN attempt ELSE saved

Continue(next) == pc' = next /\ UNCHANGED <<plan, saved>>

\* Where the file will end: the new tails, one after the other.
End1 == plan.end0 + Mark
End2 == plan.end0 + 2 * Mark

\* The file has to grow.  A skip tail goes where it will end, and is flushed
\* before anything else.
WriteSkip ==
  /\ pc = "skip"
  /\ DataWrite(plan.limit, Mark, SkipMark(plan.limit))
  /\ Continue("flushSkip")
  /\ UNCHANGED <<memvars, attempt>>

FlushSkip ==
  /\ pc = "flushSkip"
  /\ DataCommit
  /\ IF failure' THEN Return(FALSE) ELSE Continue("head")
  /\ UNCHANGED <<memvars, attempt>>

\* The header of what is added, a real one in an empty file.
WriteHead ==
  /\ pc = "head"
  /\ DataWrite(plan.end, Mark, IF plan.end > 0 THEN ExtendMark ELSE HeadMark)
  /\ Continue("mark1")
  /\ UNCHANGED <<memvars, attempt>>

WriteMark1 ==
  /\ pc = "mark1"
  /\ DataWrite(plan.end0, Mark, SkipMark(plan.end0))
  /\ Continue("reserve")
  /\ UNCHANGED <<memvars, attempt>>

\* The space of the tails, in both allocators.
TailsReserved(sp) ==
  Occupied(IF plan.inPlace THEN Released(sp, plan.end, Mark) ELSE sp,
           plan.end0, 2 * Mark)

ReserveTails ==
  /\ pc = "reserve"
  /\ space' = IF mode = 1 THEN TailsReserved(space) ELSE {}
  /\ pc' = "cols"
  /\ plan' = [plan EXCEPT !.next = TailsReserved(@)]
  /\ UNCHANGED <<filevars, base, col, known, rootWalk, saved, attempt, used>>

\* CommitColumn in the second pass: a changed column is written to its new
\* place, and from then on every column with data is the one in the file.
WriteColumn ==
  LET c   == plan.k
      loc == plan.walk[c]
  IN  /\ pc = "cols"
      /\ IF loc.len > 0 /\ col[c].dirty
         THEN DataWrite(loc.pos, loc.len, ColData(col[c].tag))
         ELSE UNCHANGED <<filevars, used>>
      /\ col' = IF loc.len > 0 THEN [col EXCEPT ![c] = Clean(loc)] ELSE col
      /\ plan' = [plan EXCEPT !.k = @ + 1]
      /\ pc' = IF c = NCols THEN "walk" ELSE "cols"
      /\ UNCHANGED <<base, known, space, rootWalk, saved, attempt>>

\* The walk itself, after which a failure so far ends the commit.
WriteWalk_Unchecked ==
  /\ pc = "walk"
  /\ DataWrite(plan.walkPos, WalkLen(plan.walk), WalkData(plan.walk))
  /\ Continue("flushData")
  /\ UNCHANGED <<memvars, attempt>>

WriteWalk ==
  /\ pc = "walk"
  /\ DataWrite(plan.walkPos, WalkLen(plan.walk), WalkData(plan.walk))
  /\ IF failure' THEN Return(FALSE) ELSE Continue("flushData")
  /\ UNCHANGED <<memvars, attempt>>

\* The result of this flush is not looked at.
FlushData_Skipped ==
  /\ pc = "flushData"
  /\ UNCHANGED <<filevars, used>>
  /\ Continue("mark2")
  /\ UNCHANGED <<memvars, attempt>>

FlushData ==
  /\ pc = "flushData"
  /\ DataCommit
  /\ Continue("mark2")
  /\ UNCHANGED <<memvars, attempt>>

\* The commit tail: from here on the new version is the one in the file.
WriteMark2 ==
  /\ pc = "mark2"
  /\ DataWrite(End1, Mark, TailMark(plan.walkPos, WalkLen(plan.walk)))
  /\ Continue(IF mode = 1 \/ plan.end = 0 THEN "flushTail" ELSE "finish")
  /\ UNCHANGED <<memvars, attempt>>

FlushTail ==
  /\ pc = "flushTail"
  /\ DataCommit
  /\ Continue("header")
  /\ UNCHANGED <<memvars, attempt>>

WriteHeader ==
  /\ pc = "header"
  /\ DataWrite(0, Mark, HeadMark)
  /\ Continue("finish")
  /\ UNCHANGED <<memvars, attempt>>

\* The last flush; the next version's use of space becomes the current one.
FinishCommit ==
  /\ pc = "finish"
  /\ DataCommit
  /\ space' = IF mode = 1 THEN plan.next ELSE {}
  /\ Return(~failure')
  /\ UNCHANGED <<base, col, known, rootWalk, attempt>>

SaveIt == \/ WriteSkip \/ FlushSkip \/ WriteHead \/ WriteMark1 \/ ReserveTails
          \/ WriteColumn \/ WriteWalk \/ FlushData \/ WriteMark2 \/ FlushTail
          \/ WriteHeader \/ FinishCommit

----------------------------------------------------------------------------
\* The process or the machine stops, or the storage is closed, and the file is
\* opened again.  Any of the writes since the last flush may be lost or torn.
Crash ==
  /\ used.crashes < MaxCrashes /\ used.fails = 0       \* bound
  /\ used' = [used EXCEPT !.crashes = @ + 1]
  /\ \E fate \in [DOMAIN pend -> {"done", "torn", "lost"}] :
        /\ \A i \in DOMAIN pend : fate[i] \in Fates(pend[i])
        /\ file' = FileAfter(file, pend, fate) /\ size' = SizeAfter(size, pend, fate)
        /\ Load(file', size', EmptyWalk)
        /\ saved' = Recovered(file', size')
        /\ attempt' = saved'
  /\ pend' = <<>> /\ failure' = FALSE
  /\ pc' = "idle" /\ plan' = NoPlan

Next == /\ \/ \E c \in Cols : \E len \in ColLens : \E tag \in Tags \cup {NoTag} :
                 Modify(c, len, tag)
           \/ Rollback \/ StartCommit \/ SaveIt \/ Crash
        /\ UNCHANGED mode

Spec == Init /\ [][Next]_vars

----------------------------------------------------------------------------
Contents == [Cols -> [len : Nat, tag : Tags \cup {NoTag, Garbage}]]
Walks == [Cols -> [len : Nat, pos : Nat]]
Steps == {"idle", "skip", "flushSkip", "head", "mark1", "reserve", "cols", "walk",
          "flushData", "mark2", "flushTail", "header", "finish"}

\* No write or flush has failed so far.
Healthy == used.fails = 0

TypeOK ==
  /\ mode \in Modes
  /\ size \in Nat /\ base \in Nat /\ failure \in BOOLEAN
  /\ \A e \in file \cup Range(pend) : e.at \in Nat /\ e.len \in Nat \ {0}
  /\ col \in [Cols -> [len : Nat, pos : Nat, tag : Tags \cup {NoTag}, dirty : BOOLEAN]]
  /\ known \subseteq Cols /\ space \subseteq Nat \ {0}
  /\ rootWalk \in Walks
  /\ pc \in Steps
  /\ saved \in Contents /\ attempt \in Contents

\* Stable storage: without I/O errors, while a commit is under way nothing is written over the
\* version last committed, neither in the file nor in the buffer, so that a
\* crash finds it and columns that are not changed can be read from it.
NeverOverwrites ==
  pc # "idle" /\ Healthy => /\ ContentsOf(file, base, plan.old) = saved
                 /\ ContentsOf(Image, base, plan.old) = saved

\* Type invariant, and without I/O errors, between commits every byte of the columns that are set
\* up is claimed in _space, whatever the order of loading, changing and committing: the next
\* commit cannot allocate there.
LiveSpaceClaimed ==
  /\ TypeOK
  /\ pc = "idle" /\ mode = 1 /\ Healthy =>
       \A c \in known : ~col[c].dirty => Bytes(col[c].pos, col[c].len) \subseteq space

\* The commit protocol implements the promise of DurableStore: nothing but
\* Modify, Rollback and a crash changes what the user reads, Commit returns true
\* when the file holds exactly that, and a crash never brings up a mixture of two
\* versions; a commit that writes in place is atomic.
Durable == INSTANCE DurableStore WITH
             working <- IF Healthy THEN Working ELSE Empty,
             saved   <- IF Healthy THEN saved ELSE Empty,
             saving  <- CASE ~Healthy                      -> "failed"
                          [] Healthy /\ pc = "idle"        -> "no"
                          [] OTHER -> IF plan.inPlace THEN "inPlace" ELSE "grows",
             Columns <- Cols, NoVersion <- Empty,
             Versions <- [Cols -> {NoContent} \cup
                            {Content(n, t) : n \in ColLens \ {0}, t \in Tags}]
ImplementsDurableStore == Durable!Spec

\* The documented promise ("if anything prevents Commit from completing its task,
\* the last succesfully committed version of the saved data will be recovered on
\* the next open", store.cpp): what a crash leaves is that version or the next.
FailSafe ==
  [][used'.crashes > used.crashes => saved' \in {saved, attempt}]_vars

\* A commit that fails, with one error of the file system, leaves the old version
\* or the new one for the next open; only one that makes the file grow can leave
\* nothing to be found.
FailureKeepsVersion ==
  [][pc # "idle" /\ pc' = "idle" /\ failure' =>
       Recovered(Image, FileSize)' \in
         {saved, attempt} \cup IF plan.inPlace THEN {} ELSE {Empty}]_vars
=============================================================================
