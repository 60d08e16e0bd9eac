---------------------------- MODULE DurableStore ----------------------------
(***************************************************************************)
(* What a storage promises to its user: contents to work on, and the        *)
(* version last committed, which is what opening the file finds.  A commit  *)
(* takes time; a crash in the middle of one keeps the old version or the    *)
(* new one, except that a commit which makes the file grow may also lose    *)
(* both (nothing is found, the storage opens empty).  After an I/O error it  *)
(* promises nothing any more.                                              *)
(***************************************************************************)
EXTENDS Naturals

CONSTANTS Columns, Versions, NoVersion   \* versions are functions on Columns

VARIABLES working,   \* the contents as the user reads them
          saved,     \* the version last committed
          saving     \* "no", the kind of commit under way: "inPlace", "grows",
                     \* or "failed"

vars == <<working, saved, saving>>

Init == working = NoVersion /\ saved = NoVersion /\ saving = "no"

\* One column is given other contents; not while a commit is under way.
Change == \E c \in Columns : \E v \in Versions :
             /\ saving = "no"
             /\ \A d \in Columns \ {c} : v[d] = working[d]
             /\ working' = v
             /\ UNCHANGED <<saved, saving>>

Begin == /\ saving = "no"
         /\ saving' \in {"inPlace", "grows"}
         /\ UNCHANGED <<working, saved>>

\* A commit succeeds; at once when there is nothing to write.
Commit == /\ saving' = "no"
          /\ saved' = working
          /\ UNCHANGED working

\* Back to the version last committed.
Revert == /\ saving = "no"
          /\ working' = saved
          /\ UNCHANGED <<saved, saving>>

\* What the file can hold after a crash.
Survivors == CASE saving = "no"      -> {saved}
               [] saving = "inPlace" -> {saved, working}
               [] saving = "grows"   -> {saved, working, NoVersion}

Crash == /\ saved' \in Survivors
         /\ working' = saved'
         /\ saving' = "no"

\* An I/O error.
Fail == saving' = "failed" /\ working' = NoVersion /\ saved' = NoVersion

Next == \/ saving # "failed" /\ (Change \/ Begin \/ Commit \/ Revert \/ Crash)
        \/ Fail

Spec == Init /\ [][Next]_vars
=============================================================================
