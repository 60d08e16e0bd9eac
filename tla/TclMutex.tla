------------------------------ MODULE TclMutex ------------------------------
(***************************************************************************)
(* The mutex of the Tcl binding.  All interpreters of a process share one  *)
(* recursive mutex: mkMutex is the lock itself, infoMutex guards the two   *)
(* variables that say which interpreter holds it and how many times it has *)
(* been entered.  A command enters it, the type callbacks of cursor values *)
(* that the command runs into enter it again, and mk::loop leaves it while *)
(* the script of its body runs.                                            *)
(*                                                                         *)
(* A thread runs the scripts of the interpreters made in it (ThreadOf).    *)
(* Its cursor values refer to paths that these have made, or, of a storage *)
(* opened with -shared, any other one (PathsOf).                           *)
(*                                                                         *)
(* The two locks are those of Tcl, not recursive and in no order: whoever  *)
(* takes a free lock next is a free choice.                                *)
(***************************************************************************)
EXTENDS Integers, Sequences

CONSTANTS
    Interps,      \* interpreters that have loaded the extension
    Threads,      \* the threads they were made in
    ThreadOf,     \* the thread of each interpreter
    PathsOf,      \* whose paths the cursor values of each thread refer to
    MaxCalls,     \* bound: entries of one command and the callbacks within it
    MaxLoops,     \* bound: loops whose bodies are running one within the other
    None          \* no thread, no interpreter (0 in the code)

ASSUME ThreadsAssumption ==
    /\ ThreadOf \in [Interps -> Threads]
    /\ PathsOf \in [Threads -> SUBSET Interps]
    /\ None \notin Threads \cup Interps

VARIABLES
    infoMutex,    \* the thread that has locked infoMutex, or None
    mkMutex,      \* the thread that has locked mkMutex, or None
    mutex_owner,  \* the interpreter noted as its owner, or None
    mutex_level,  \* how many times that interpreter has entered
    pc,           \* what each thread does next
    ip,           \* the interpreter of the call a thread has made last
    entries,      \* the calls of EnterMutex it has not left yet
    loops         \* the interpreters of the loops whose bodies it runs

vars == <<infoMutex, mkMutex, mutex_owner, mutex_level, pc, ip, entries, loops>>

Init ==
    /\ infoMutex = None
    /\ mkMutex = None
    /\ mutex_owner = None
    /\ mutex_level = 0
    /\ pc = [t \in Threads |-> "run"]
    /\ ip = [t \in Threads |-> None]
    /\ entries = [t \in Threads |-> 0]
    /\ loops = [t \in Threads |-> <<>>]

goto(t, label) == pc' = [pc EXCEPT ![t] = label]

-----------------------------------------------------------------------------
\* EnterMutex(ip_): a look under infoMutex at who holds the lock, then either
\* one more level of it, or the lock itself and infoMutex again.

EnterMutex(t, i) ==
    /\ goto(t, "enter")
    /\ ip' = [ip EXCEPT ![t] = i]

LockInfo(t) ==
    /\ pc[t] = "enter"
    /\ infoMutex = None
    /\ infoMutex' = t
    /\ goto(t, "test")
    /\ UNCHANGED <<mkMutex, mutex_owner, mutex_level, ip, entries, loops>>

\* Variant: whoever holds the lock is taken for the caller.
TestOwner_Any(t) ==
    /\ pc[t] = "test"
    /\ infoMutex' = None
    /\ IF mutex_owner # None
         THEN /\ mutex_level' = mutex_level + 1
              /\ entries' = [entries EXCEPT ![t] = @ + 1]
              /\ goto(t, "run")
         ELSE /\ goto(t, "lock")
              /\ UNCHANGED <<mutex_level, entries>>
    /\ UNCHANGED <<mkMutex, mutex_owner, ip, loops>>

TestOwner(t) ==
    /\ pc[t] = "test"
    /\ infoMutex' = None
    /\ IF ip[t] = mutex_owner
         THEN /\ mutex_level' = mutex_level + 1
              /\ entries' = [entries EXCEPT ![t] = @ + 1]
              /\ goto(t, "run")
         ELSE /\ goto(t, "lock")
              /\ UNCHANGED <<mutex_level, entries>>
    /\ UNCHANGED <<mkMutex, mutex_owner, ip, loops>>

Lock(t) ==
    /\ pc[t] = "lock"
    /\ mkMutex = None
    /\ mkMutex' = t
    /\ goto(t, "own")
    /\ UNCHANGED <<infoMutex, mutex_owner, mutex_level, ip, entries, loops>>

LockInfoAgain(t) ==
    /\ pc[t] = "own"
    /\ infoMutex = None
    /\ infoMutex' = t
    /\ goto(t, "set")
    /\ UNCHANGED <<mkMutex, mutex_owner, mutex_level, ip, entries, loops>>

SetOwner(t) ==
    /\ pc[t] = "set"
    /\ mutex_owner' = ip[t]
    /\ mutex_level' = mutex_level + 1
    /\ entries' = [entries EXCEPT ![t] = @ + 1]
    /\ infoMutex' = None
    /\ goto(t, "run")
    /\ UNCHANGED <<mkMutex, ip, loops>>

-----------------------------------------------------------------------------
\* LeaveMutex(), which is not told by whom it is called.

LockInfoToLeave(t) ==
    /\ pc[t] = "leave"
    /\ infoMutex = None
    /\ infoMutex' = t
    /\ goto(t, "drop")
    /\ UNCHANGED <<mkMutex, mutex_owner, mutex_level, ip, entries, loops>>

\* Variant: the owner stays noted when the lock is given up.
DropLevel_OwnerStays(t) ==
    /\ pc[t] = "drop"
    /\ mutex_level' = mutex_level - 1
    /\ mkMutex' = IF mutex_level = 1 THEN None ELSE mkMutex
    /\ entries' = [entries EXCEPT ![t] = @ - 1]
    /\ infoMutex' = None
    /\ goto(t, "run")
    /\ UNCHANGED <<mutex_owner, ip, loops>>

DropLevel(t) ==
    /\ pc[t] = "drop"
    /\ mutex_level' = mutex_level - 1
    /\ IF mutex_level = 1
         THEN /\ mutex_owner' = None
              /\ mkMutex' = None
         ELSE UNCHANGED <<mutex_owner, mkMutex>>
    /\ entries' = [entries EXCEPT ![t] = @ - 1]
    /\ infoMutex' = None
    /\ goto(t, "run")
    /\ UNCHANGED <<ip, loops>>

-----------------------------------------------------------------------------
\* What the threads do.

\* Execute: a command of the script of an interpreter.
Command(t, i) ==
    /\ pc[t] = "run"
    /\ entries[t] = 0
    /\ ThreadOf[i] = t
    /\ EnterMutex(t, i)
    /\ UNCHANGED <<infoMutex, mkMutex, mutex_owner, mutex_level, entries, loops>>

\* The callbacks of a cursor value that a command runs into, or that Tcl makes
\* when it frees, copies or prints one outside of any command.  The value is a
\* path's, and they enter for the interpreter that has made the path.
Callback(t, i) ==
    /\ pc[t] = "run"
    /\ entries[t] < MaxCalls
    /\ i \in PathsOf[t]
    /\ EnterMutex(t, i)
    /\ UNCHANGED <<infoMutex, mkMutex, mutex_owner, mutex_level, entries, loops>>

\* The end of a command or a callback.
Return(t) ==
    /\ pc[t] = "run"
    /\ entries[t] > 0
    /\ goto(t, "leave")
    /\ UNCHANGED <<infoMutex, mkMutex, mutex_owner, mutex_level, ip, entries, loops>>

\* Variant: the lock is kept while the body of the loop runs.
LoopBody_LockKept(t) ==
    /\ pc[t] = "run"
    /\ entries[t] = 1
    /\ ThreadOf[ip[t]] = t
    /\ Len(loops[t]) < MaxLoops
    /\ loops' = [loops EXCEPT ![t] = Append(@, ip[t])]
    /\ entries' = [entries EXCEPT ![t] = 0]
    /\ UNCHANGED <<infoMutex, mkMutex, mutex_owner, mutex_level, pc, ip>>

\* LoopCmd leaves the mutex and evaluates the body, a script like any other.
LoopBody(t) ==
    /\ pc[t] = "run"
    /\ entries[t] = 1
    /\ ThreadOf[ip[t]] = t
    /\ Len(loops[t]) < MaxLoops
    /\ loops' = [loops EXCEPT ![t] = Append(@, ip[t])]
    /\ goto(t, "leave")
    /\ UNCHANGED <<infoMutex, mkMutex, mutex_owner, mutex_level, ip, entries>>

\* The body has ended: the loop enters again for its own interpreter.
EndBody(t) ==
    /\ pc[t] = "run"
    /\ entries[t] = 0
    /\ loops[t] # <<>>
    /\ EnterMutex(t, loops[t][Len(loops[t])])
    /\ loops' = [loops EXCEPT ![t] = SubSeq(@, 1, Len(@) - 1)]
    /\ UNCHANGED <<infoMutex, mkMutex, mutex_owner, mutex_level, entries>>

\* The steps within EnterMutex and LeaveMutex.
MutexStep(t) ==
    \/ LockInfo(t) \/ TestOwner(t) \/ Lock(t) \/ LockInfoAgain(t) \/ SetOwner(t)
    \/ LockInfoToLeave(t) \/ DropLevel(t)

Next == \E t \in Threads :
    \/ MutexStep(t)
    \/ Return(t)
    \/ LoopBody(t)
    \/ EndBody(t)
    \/ \E i \in Interps : Command(t, i) \/ Callback(t, i)

Spec == Init /\ [][Next]_vars

\* A command, a callback and one pass of a loop take finitely many steps: they
\* get to their end, or to the body, whatever callbacks they make before.  A
\* thread that can step within the two functions does.  Nothing is said of
\* scripts: a command need not be given and the body of a loop need not end.
ReturnsFrom(t, n) == entries[t] = n /\ (Return(t) \/ LoopBody(t))

Fairness == \A t \in Threads :
    /\ WF_vars(MutexStep(t))
    /\ \A n \in 1 .. MaxCalls : SF_vars(ReturnsFrom(t, n))

FairSpec == Spec /\ Fairness

-----------------------------------------------------------------------------
TypeOK ==
    /\ infoMutex \in Threads \cup {None}
    /\ mkMutex \in Threads \cup {None}
    /\ mutex_owner \in Interps \cup {None}
    /\ mutex_level \in Int
    /\ pc \in [Threads -> {"run", "enter", "test", "lock", "own", "set", "leave", "drop"}]
    /\ ip \in [Threads -> Interps \cup {None}]
    /\ entries \in [Threads -> Nat]
    /\ loops \in [Threads -> Seq(Interps)]

\* No two threads are inside at the same time: what a command reads and writes
\* of the workspaces and the storages is its own until it leaves or has a body
\* evaluated.
MutualExclusion ==
    \A s, t \in Threads : entries[s] > 0 /\ entries[t] > 0 => s = t

\* The assertions of EnterMutex and LeaveMutex: whoever has got the lock finds
\* no owner noted, and whoever leaves finds one, and a level.  And the thread
\* that gives the lock up is the one that has it.
AssertionsHold ==
    \A t \in Threads :
      /\ pc[t] = "set" => mutex_owner = None
      /\ pc[t] = "drop" => mutex_owner # None /\ mutex_level > 0 /\ mkMutex = t

\* Whenever a thread waits for the lock, the lock gets free: no command keeps
\* it, and neither does a loop whose body runs for ever.
LockComesFree ==
    (\E t \in Threads : pc[t] = "lock") ~> mkMutex = None

\* "No deadlock is possible" (mk4tcl.cpp:56): no thread waits for the lock that it
\* has itself.  It does where a callback enters for another interpreter than the
\* command it comes in, in whichever thread that one lives.
NoDeadlock ==
    \A t \in Threads : ~(pc[t] = "lock" /\ mkMutex = t)
=============================================================================
