--------------------------- MODULE TclMutexProofs ---------------------------
(***************************************************************************)
(* Proofs about the mutex of the Tcl binding, for any number of threads and *)
(* interpreters, wherever the interpreters were made, and whatever the      *)
(* bounds on callbacks and loops, when no cursor value refers to a path     *)
(* that an interpreter of another thread has made.                          *)
(***************************************************************************)
EXTENDS TclMutex, SequenceTheorems, TLAPS

\* The cursor values of a thread refer to paths made in it.
PathsKept == \A t \in Threads : \A i \in PathsOf[t] : ThreadOf[i] = t

\* The thread that has the lock, or is about to note itself as the owner.
HasLock(t) == pc[t] \in {"own", "set"} \/ entries[t] > 0

\* Calls are made for interpreters of the calling thread only.
CallsInv ==
    /\ \A t \in Threads : ip[t] # None => ThreadOf[ip[t]] = t
    /\ \A t \in Threads : pc[t] # "run" \/ entries[t] > 0 => ip[t] # None
    /\ \A t \in Threads : \A k \in 1 .. Len(loops[t]) : ThreadOf[loops[t][k]] = t

\* infoMutex is with the thread that looks at the owner and the level.
InfoInv ==
    \A t \in Threads : pc[t] \in {"test", "set", "drop"} => infoMutex = t

\* mkMutex is with the thread that is inside.
LockInv ==
    /\ \A t \in Threads : HasLock(t) <=> mkMutex = t
    /\ \A t \in Threads : pc[t] \in {"own", "set"} => entries[t] = 0
    /\ \A t \in Threads : pc[t] \in {"leave", "drop"} => entries[t] > 0

\* What the two variables say of it: the owner is an interpreter of the thread
\* that is inside, and the level is the number of its entries.
OwnerInv ==
    IF mutex_owner = None
      THEN mutex_level = 0 /\ \A t \in Threads : entries[t] = 0
      ELSE /\ mutex_level = entries[ThreadOf[mutex_owner]]
           /\ mutex_level > 0

IInv == TypeOK /\ CallsInv /\ InfoInv /\ LockInv /\ OwnerInv

-----------------------------------------------------------------------------
\* If an owner is noted, it is the thread inside, and its level is known.
LEMMA OwnerIsInside ==
  ASSUME IInv, NEW t \in Threads, mkMutex = t, mutex_owner # None
  PROVE  /\ ThreadOf[mutex_owner] = t
         /\ mutex_level = entries[t] /\ mutex_level > 0
<1>1. mutex_owner \in Interps /\ ThreadOf[mutex_owner] \in Threads
  BY ThreadsAssumption DEF IInv, TypeOK
<1>2. entries[ThreadOf[mutex_owner]] > 0 /\ mutex_level = entries[ThreadOf[mutex_owner]]
  BY DEF IInv, OwnerInv
<1>3. mkMutex = ThreadOf[mutex_owner]
  BY <1>1, <1>2 DEF IInv, LockInv, HasLock
<1> QED BY <1>2, <1>3

\* A thread that is inside has the lock, and an owner is noted.
LEMMA InsideIsOwned ==
  ASSUME IInv, NEW t \in Threads, entries[t] > 0
  PROVE  /\ mkMutex = t /\ mutex_owner # None
         /\ mutex_level = entries[t]
<1>1. mkMutex = t
  BY DEF IInv, LockInv, HasLock
<1>2. mutex_owner # None
  BY DEF IInv, OwnerInv, TypeOK
<1> QED BY <1>1, <1>2, OwnerIsInside

\* No thread is in the lock at first.
LEMMA InitIInv == Init => IInv
<1> SUFFICES ASSUME Init PROVE IInv
  OBVIOUS
<1>1. TypeOK
  <2>1. loops \in [Threads -> Seq(Interps)]
    BY DEF Init
  <2> QED BY <2>1 DEF Init, TypeOK
<1>2. CallsInv
  BY DEF Init, CallsInv
<1>3. InfoInv /\ LockInv /\ OwnerInv
  BY ThreadsAssumption DEF Init, InfoInv, LockInv, OwnerInv, HasLock
<1> QED BY <1>1, <1>2, <1>3 DEF IInv

-----------------------------------------------------------------------------
\* One lemma per kind of step.

\* The steps that only find out where the lock is.
LEMMA LookPreserves ==
  ASSUME IInv, NEW t \in Threads,
         LockInfo(t) \/ LockInfoAgain(t) \/ LockInfoToLeave(t)
  PROVE  IInv'
<1> USE DEF LockInfo, LockInfoAgain, LockInfoToLeave, goto
<1>1. TypeOK'
  BY DEF IInv, TypeOK
<1>2. CallsInv'
  BY DEF IInv, TypeOK, CallsInv
<1>3. InfoInv'
  BY ThreadsAssumption DEF IInv, TypeOK, InfoInv
<1>4. LockInv'
  BY DEF IInv, TypeOK, LockInv, HasLock
<1>5. OwnerInv'
  BY DEF IInv, TypeOK, OwnerInv
<1> QED BY <1>1, <1>2, <1>3, <1>4, <1>5 DEF IInv

\* A thread goes in where its interpreter owns the lock, and else goes to wait for it.
LEMMA TestOwnerPreserves ==
  ASSUME IInv, NEW t \in Threads, TestOwner(t)
  PROVE  IInv'
<1> USE DEF TestOwner, goto
<1>1. ip[t] # None /\ ThreadOf[ip[t]] = t
  BY DEF IInv, CallsInv
<1>2. TypeOK'
  <2>1. /\ pc' \in [Threads -> {"run", "enter", "test", "lock", "own", "set", "leave", "drop"}]
        /\ UNCHANGED <<mkMutex, mutex_owner, ip, loops>> /\ infoMutex' = None
    BY DEF IInv, TypeOK
  <2>2. mutex_level \in Int /\ entries \in [Threads -> Nat]
    BY DEF IInv, TypeOK
  <2>3. CASE ip[t] = mutex_owner
    <3>1. mutex_level' = mutex_level + 1 /\ entries' = [entries EXCEPT ![t] = entries[t] + 1]
      BY <2>3
    <3>2. mutex_level' \in Int /\ entries' \in [Threads -> Nat]
      BY <2>2, <3>1
    <3> QED BY <2>1, <3>2 DEF IInv, TypeOK
  <2>4. CASE ip[t] # mutex_owner
    BY <2>1, <2>4 DEF IInv, TypeOK
  <2> QED BY <2>3, <2>4
<1>3. CallsInv'
  BY <1>1 DEF IInv, TypeOK, CallsInv
<1>4. InfoInv'
  BY ThreadsAssumption DEF IInv, TypeOK, InfoInv
<1>5. CASE ip[t] = mutex_owner
  <2>1. mutex_level = entries[t] /\ mutex_level > 0
    BY <1>1, <1>5 DEF IInv, OwnerInv
  <2>2. LockInv'
    <3>1. entries[t] > 0 /\ mkMutex = t /\ pc' = [pc EXCEPT ![t] = "run"]
          /\ entries' = [entries EXCEPT ![t] = @ + 1] /\ mkMutex' = mkMutex
      BY <1>5, <2>1, InsideIsOwned
    <3>2. entries[t] \in Nat /\ entries'[t] > 0 /\ pc'[t] = "run"
      BY <3>1 DEF IInv, TypeOK
    <3>3. \A s \in Threads : s # t => entries'[s] = entries[s] /\ pc'[s] = pc[s]
      BY <3>1 DEF IInv, TypeOK
    <3> QED BY <3>1, <3>2, <3>3 DEF IInv, LockInv, HasLock
  <2>3. OwnerInv'
    BY <1>1, <1>5, <2>1 DEF IInv, TypeOK, OwnerInv
  <2> QED BY <1>2, <1>3, <1>4, <2>2, <2>3 DEF IInv
<1>6. CASE ip[t] # mutex_owner
  <2>1. LockInv'
    BY <1>6 DEF IInv, TypeOK, LockInv, HasLock
  <2>2. OwnerInv'
    BY <1>6 DEF IInv, TypeOK, OwnerInv
  <2> QED BY <1>2, <1>3, <1>4, <2>1, <2>2 DEF IInv
<1> QED BY <1>5, <1>6

\* The lock is taken when nobody has it.
LEMMA LockPreserves ==
  ASSUME IInv, NEW t \in Threads, Lock(t)
  PROVE  IInv'
<1> USE DEF Lock, goto
<1>1. \A s \in Threads : ~HasLock(s)
  BY ThreadsAssumption DEF IInv, LockInv
<1>2. TypeOK'
  BY DEF IInv, TypeOK
<1>3. CallsInv'
  BY DEF IInv, TypeOK, CallsInv
<1>4. InfoInv'
  BY DEF IInv, TypeOK, InfoInv
<1>5. LockInv'
  BY <1>1 DEF IInv, TypeOK, LockInv, HasLock
<1>6. OwnerInv'
  BY DEF IInv, TypeOK, OwnerInv
<1> QED BY <1>2, <1>3, <1>4, <1>5, <1>6 DEF IInv

\* The thread that has the lock makes itself its owner.
LEMMA SetOwnerPreserves ==
  ASSUME IInv, NEW t \in Threads, SetOwner(t)
  PROVE  IInv'
<1> USE DEF SetOwner, goto
<1>1. mkMutex = t /\ entries[t] = 0
  BY DEF IInv, LockInv, HasLock
<1>2. mutex_owner = None
  BY <1>1, OwnerIsInside
<1>3. mutex_level = 0 /\ \A s \in Threads : entries[s] = 0
  BY <1>2 DEF IInv, OwnerInv
<1>4. ip[t] \in Interps /\ ThreadOf[ip[t]] = t
  BY DEF IInv, CallsInv, TypeOK
<1>5. TypeOK'
  BY <1>4 DEF IInv, TypeOK
<1>6. CallsInv'
  BY <1>4 DEF IInv, TypeOK, CallsInv
<1>7. InfoInv'
  BY ThreadsAssumption DEF IInv, TypeOK, InfoInv
<1>8. LockInv'
  BY <1>1, <1>3 DEF IInv, TypeOK, LockInv, HasLock
<1>9. OwnerInv'
  BY <1>3, <1>4, ThreadsAssumption DEF IInv, TypeOK, OwnerInv
<1> QED BY <1>5, <1>6, <1>7, <1>8, <1>9 DEF IInv

\* One level less; the last one clears the owner before the lock is let go.
LEMMA DropLevelPreserves ==
  ASSUME IInv, NEW t \in Threads, DropLevel(t)
  PROVE  IInv'
<1> USE DEF DropLevel, goto
<1>1. entries[t] > 0
  BY DEF IInv, LockInv
<1>2. mkMutex = t /\ mutex_owner # None /\ mutex_level = entries[t]
  BY <1>1, InsideIsOwned
<1>3. ThreadOf[mutex_owner] = t
  BY <1>2, OwnerIsInside
<1>4. \A s \in Threads : s # t => ~HasLock(s)
  BY <1>2 DEF IInv, LockInv
<1>5. entries[t] \in Nat /\ mutex_level \in Nat
  BY <1>2 DEF IInv, TypeOK
<1>6. TypeOK'
  BY <1>1, <1>5 DEF IInv, TypeOK
<1>7. CallsInv'
  BY <1>1 DEF IInv, TypeOK, CallsInv
<1>8. InfoInv'
  BY ThreadsAssumption DEF IInv, TypeOK, InfoInv
<1>9. LockInv'
  <2>1. /\ pc'[t] = "run" /\ entries'[t] = entries[t] - 1
        /\ \A s \in Threads : s # t => entries'[s] = entries[s] /\ pc'[s] = pc[s]
    BY DEF IInv, TypeOK
  <2>2. CASE mutex_level = 1
    BY <1>2, <1>4, <2>1, <2>2, ThreadsAssumption DEF IInv, LockInv, HasLock
  <2>3. CASE mutex_level # 1
    BY <1>2, <1>4, <1>5, <2>1, <2>3 DEF IInv, LockInv, HasLock
  <2> QED BY <2>2, <2>3
<1>10. OwnerInv'
  <2>1. CASE mutex_level = 1
    <3>1. \A s \in Threads : s # t => entries[s] = 0
      BY <1>4 DEF IInv, TypeOK, HasLock
    <3> QED BY <1>2, <2>1, <3>1 DEF IInv, TypeOK, OwnerInv
  <2>2. CASE mutex_level # 1
    BY <1>1, <1>2, <1>3, <1>5, <2>2 DEF IInv, TypeOK, OwnerInv
  <2> QED BY <2>1, <2>2
<1> QED BY <1>6, <1>7, <1>8, <1>9, <1>10 DEF IInv

\* The steps outside of the two functions touch neither the locks nor what
\* they guard.
LEMMA CallPreserves ==
  ASSUME PathsKept, IInv, NEW t \in Threads, NEW i \in Interps,
         Command(t, i) \/ Callback(t, i)
  PROVE  IInv'
<1> USE DEF Command, Callback, EnterMutex, goto
<1>1. i # None /\ ThreadOf[i] = t
  BY ThreadsAssumption DEF PathsKept
<1>2. TypeOK'
  BY DEF IInv, TypeOK
<1>3. CallsInv'
  <2>1. ip' = [ip EXCEPT ![t] = i] /\ UNCHANGED <<entries, loops>>
    OBVIOUS
  <2>2. ip'[t] = i /\ \A s \in Threads : s # t => ip'[s] = ip[s] /\ pc'[s] = pc[s]
    BY <2>1 DEF IInv, TypeOK
  <2> QED BY <1>1, <2>1, <2>2 DEF IInv, CallsInv
<1>4. InfoInv' /\ LockInv' /\ OwnerInv'
  BY DEF IInv, TypeOK, InfoInv, LockInv, OwnerInv, HasLock
<1> QED BY <1>2, <1>3, <1>4 DEF IInv

\* A command returns.
LEMMA ReturnPreserves ==
  ASSUME IInv, NEW t \in Threads, Return(t)
  PROVE  IInv'
<1> USE DEF Return, goto
<1>1. TypeOK'
  BY DEF IInv, TypeOK
<1>2. CallsInv'
  BY DEF IInv, TypeOK, CallsInv
<1>3. InfoInv' /\ LockInv' /\ OwnerInv'
  BY DEF IInv, TypeOK, InfoInv, LockInv, OwnerInv, HasLock
<1> QED BY <1>1, <1>2, <1>3 DEF IInv

\* The body of a loop runs with the lock held.
LEMMA LoopBodyPreserves ==
  ASSUME IInv, NEW t \in Threads, LoopBody(t)
  PROVE  IInv'
<1> USE DEF LoopBody, goto
<1>1. ip[t] \in Interps /\ ThreadOf[ip[t]] = t
  BY DEF IInv, CallsInv, TypeOK
<1>2. loops[t] \in Seq(Interps)
  BY DEF IInv, TypeOK
<1>3. Append(loops[t], ip[t]) \in Seq(Interps)
  BY <1>1, <1>2, AppendProperties
<1>4. TypeOK'
  BY <1>3 DEF IInv, TypeOK
<1>5. \A k \in 1 .. Len(Append(loops[t], ip[t])) : ThreadOf[Append(loops[t], ip[t])[k]] = t
  <2>1. /\ Len(loops[t]) \in Nat
        /\ Len(Append(loops[t], ip[t])) = Len(loops[t]) + 1
        /\ \A k \in 1 .. Len(loops[t]) : Append(loops[t], ip[t])[k] = loops[t][k]
        /\ Append(loops[t], ip[t])[Len(loops[t]) + 1] = ip[t]
    BY <1>1, <1>2, AppendProperties, LenProperties
  <2> QED BY <1>1, <2>1 DEF IInv, CallsInv
<1>6. CallsInv'
  BY <1>1, <1>5 DEF IInv, TypeOK, CallsInv
<1>7. InfoInv' /\ LockInv' /\ OwnerInv'
  BY DEF IInv, TypeOK, InfoInv, LockInv, OwnerInv, HasLock
<1> QED BY <1>4, <1>6, <1>7 DEF IInv

\* The body of a loop ends.
LEMMA EndBodyPreserves ==
  ASSUME IInv, NEW t \in Threads, EndBody(t)
  PROVE  IInv'
<1> USE DEF EndBody, EnterMutex, goto
<1> DEFINE s == loops[t]
<1>1. s \in Seq(Interps) /\ s # <<>>
  BY DEF IInv, TypeOK
<1>2. /\ Len(s) \in Nat /\ Len(s) >= 1
      /\ s[Len(s)] \in Interps /\ ThreadOf[s[Len(s)]] = t
  BY <1>1, EmptySeq, LenProperties, ElementOfSeq DEF IInv, CallsInv
<1>3. /\ SubSeq(s, 1, Len(s) - 1) \in Seq(Interps)
      /\ Len(SubSeq(s, 1, Len(s) - 1)) = Len(s) - 1
      /\ \A k \in 1 .. Len(s) - 1 : SubSeq(s, 1, Len(s) - 1)[k] = s[k]
  BY <1>1, <1>2, SubSeqProperties
<1>4. s[Len(s)] # None
  BY <1>2, ThreadsAssumption
<1>5. TypeOK'
  BY <1>2, <1>3 DEF IInv, TypeOK
<1>6. \A k \in 1 .. Len(SubSeq(s, 1, Len(s) - 1)) : ThreadOf[SubSeq(s, 1, Len(s) - 1)[k]] = t
  BY <1>2, <1>3 DEF IInv, CallsInv
<1>7. CallsInv'
  BY <1>2, <1>4, <1>6 DEF IInv, TypeOK, CallsInv
<1>8. InfoInv' /\ LockInv' /\ OwnerInv'
  BY DEF IInv, TypeOK, InfoInv, LockInv, OwnerInv, HasLock
<1> QED BY <1>5, <1>7, <1>8 DEF IInv

\* Where nothing changes.
LEMMA StutterPreserves ==
  ASSUME IInv, UNCHANGED vars
  PROVE  IInv'
BY DEF vars, IInv, TypeOK, CallsInv, InfoInv, LockInv, OwnerInv, HasLock

\* Every step keeps the invariant.
LEMMA NextPreserves ==
  ASSUME PathsKept, IInv, [Next]_vars
  PROVE  IInv'
<1>1. ASSUME NEW t \in Threads, MutexStep(t) PROVE IInv'
  BY <1>1, LookPreserves, TestOwnerPreserves, LockPreserves, SetOwnerPreserves,
     DropLevelPreserves DEF MutexStep
<1>2. ASSUME NEW t \in Threads, Return(t) \/ LoopBody(t) \/ EndBody(t) PROVE IInv'
  BY <1>2, ReturnPreserves, LoopBodyPreserves, EndBodyPreserves
<1>3. ASSUME NEW t \in Threads, NEW i \in Interps, Command(t, i) \/ Callback(t, i) PROVE IInv'
  BY <1>3, CallPreserves
<1>4. CASE UNCHANGED vars
  BY <1>4, StutterPreserves
<1> QED BY <1>1, <1>2, <1>3, <1>4 DEF Next

\* The inductive invariant of the mutex.
THEOREM Invariance ==
  ASSUME PathsKept
  PROVE  Spec => []IInv
<1>1. IInv /\ [Next]_vars => IInv'
  BY NextPreserves
<1> QED BY InitIInv, <1>1, PTL DEF Spec

\* No two threads are inside at the same time.
THEOREM Exclusion ==
  ASSUME PathsKept
  PROVE  Spec => []MutualExclusion
<1>1. IInv => MutualExclusion
  BY DEF IInv, LockInv, HasLock, MutualExclusion
<1>2. Spec => []IInv
  BY Invariance
<1> QED BY <1>1, <1>2, PTL

\* The assertions of EnterMutex and LeaveMutex hold.
THEOREM Assertions ==
  ASSUME PathsKept
  PROVE  Spec => []AssertionsHold
<1>1. IInv => AssertionsHold
  <2> SUFFICES ASSUME IInv, NEW t \in Threads
               PROVE  /\ pc[t] = "set" => mutex_owner = None
                      /\ pc[t] = "drop" => mutex_owner # None /\ mutex_level > 0 /\ mkMutex = t
    BY DEF AssertionsHold
  <2>1. ASSUME pc[t] = "set" PROVE mutex_owner = None
    <3>1. mkMutex = t /\ entries[t] = 0
      BY <2>1 DEF IInv, LockInv, HasLock
    <3> QED BY <3>1, OwnerIsInside
  <2>2. ASSUME pc[t] = "drop" PROVE mutex_owner # None /\ mutex_level > 0 /\ mkMutex = t
    <3>1. entries[t] > 0
      BY <2>2 DEF IInv, LockInv
    <3> QED BY <3>1, InsideIsOwned
  <2> QED BY <2>1, <2>2
<1>2. Spec => []IInv
  BY Invariance
<1> QED BY <1>1, <1>2, PTL

-----------------------------------------------------------------------------
\* Where a thread enters for one interpreter only, whoever finds another owner is
\* not inside.  That takes both: paths of its own threads only, PathsKept, and one
\* interpreter in each.
WaitsOutside ==
    \A t \in Threads : pc[t] = "lock" => entries[t] = 0

Alone == \A i, j \in Interps : ThreadOf[i] = ThreadOf[j] => i = j

\* Then no step makes a thread wait that is inside.
LEMMA WaitsOutsideStep ==
  ASSUME Alone, IInv, WaitsOutside, [Next]_vars
  PROVE  WaitsOutside'
<1>1. ASSUME NEW t \in Threads, TestOwner(t) PROVE WaitsOutside'
  <2>1. ip[t] \in Interps /\ ThreadOf[ip[t]] = t
    BY <1>1 DEF TestOwner, IInv, CallsInv, TypeOK
  <2>2. ASSUME entries[t] # 0 PROVE ip[t] = mutex_owner
    <3>1. entries[t] > 0
      BY <2>2 DEF IInv, TypeOK
    <3>2. mutex_owner \in Interps /\ ThreadOf[mutex_owner] = t
      BY <3>1, InsideIsOwned, OwnerIsInside DEF IInv, TypeOK
    <3> QED BY <2>1, <3>2 DEF Alone
  <2>3. CASE ip[t] = mutex_owner
    BY <1>1, <2>3 DEF TestOwner, goto, WaitsOutside, IInv, TypeOK
  <2>4. CASE ip[t] # mutex_owner
    BY <1>1, <2>2, <2>4 DEF TestOwner, goto, WaitsOutside, IInv, TypeOK
  <2> QED BY <2>3, <2>4
<1>2. ASSUME NEW t \in Threads,
             LockInfo(t) \/ Lock(t) \/ LockInfoAgain(t) \/ SetOwner(t)
               \/ LockInfoToLeave(t) \/ DropLevel(t)
      PROVE  WaitsOutside'
  BY <1>2 DEF LockInfo, Lock, LockInfoAgain, SetOwner, LockInfoToLeave, DropLevel, goto,
     WaitsOutside, IInv, TypeOK
<1>3. ASSUME NEW t \in Threads, Return(t) \/ LoopBody(t) \/ EndBody(t)
      PROVE  WaitsOutside'
  BY <1>3 DEF Return, LoopBody, EndBody, EnterMutex, goto, WaitsOutside, IInv, TypeOK
<1>4. ASSUME NEW t \in Threads, NEW i \in Interps, Command(t, i) \/ Callback(t, i)
      PROVE  WaitsOutside'
  BY <1>4 DEF Command, Callback, EnterMutex, goto, WaitsOutside, IInv, TypeOK
<1>5. CASE UNCHANGED vars
  BY <1>5 DEF vars, WaitsOutside
<1> QED BY <1>1, <1>2, <1>3, <1>4, <1>5 DEF Next, MutexStep

\* A thread whose commands and cursors enter for one and the same interpreter
\* never waits for the lock that it has itself: one interpreter in each thread,
\* and cursor values of paths made by that interpreter only (EnterMutex and the
\* callbacks of mkCursorType).  Neither condition can go: cursors of a shared
\* storage's paths break the second with an interpreter per thread too.
THEOREM NoDeadlockForOneInterp ==
  ASSUME PathsKept, Alone
  PROVE  Spec => []NoDeadlock
<1>1. Init => WaitsOutside
  BY DEF Init, WaitsOutside
<1>2. IInv /\ WaitsOutside /\ [Next]_vars => WaitsOutside'
  BY WaitsOutsideStep
<1>3. IInv /\ WaitsOutside => NoDeadlock
  <2> SUFFICES ASSUME IInv, WaitsOutside, NEW t \in Threads, pc[t] = "lock", mkMutex = t
               PROVE  FALSE
    BY DEF NoDeadlock
  <2>1. entries[t] = 0
    BY DEF WaitsOutside
  <2>2. HasLock(t)
    BY DEF IInv, LockInv
  <2> QED BY <2>1, <2>2 DEF HasLock
<1>4. Spec => []IInv
  BY Invariance
<1> QED BY <1>1, <1>2, <1>3, <1>4, PTL DEF Spec
=============================================================================
