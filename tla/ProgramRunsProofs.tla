--------------------------- MODULE ProgramRunsProofs ---------------------------
(***************************************************************************)
(* What a run leaves behind: nothing it had acquired, and no thread, for   *)
(* any number of threads, any arguments and any calls that fail; and that  *)
(* a sweep makes all its runs (SweepRunsAll).                              *)
(***************************************************************************)
EXTENDS ProgramRunsProperties, FiniteSetTheorems, TLAPS

(* The types of what the proofs speak of.                                  *)
MainPCs == {"start", "run", "privilege", "startUp", "create", "readCount", "writeCount",
            "waitThreads", "cleanup", "returned", "undefined", "exit"}
ThreadStates == {"none", "running", "waiting", "counting", "leaving", "done"}

RunTyped ==
    /\ mainPC \in MainPCs
    /\ maxThreads \in 0 .. NumberUserThreads
    /\ step \in 0 .. 8
    /\ numCreated \in Nat
    /\ handles \subseteq Threads
    /\ thread \in [Threads -> ThreadStates]

(* Outside a sweep there is no thread count; in it, threadInfoArray has    *)
(* room for the threads of a run.                                          *)
CountInBounds ==
    /\ threadCount \in 0 .. NumberUserThreads + 1
    /\ mainPC \notin {"start", "exit"} => threadCount \in 1 .. maxThreads

(* Where no thread of the run has been created, or all have been forgotten. *)
Quiet == {"start", "run", "privilege", "startUp", "returned", "exit"}
NoThreads == mainPC \in Quiet =>
                 numCreated = 0 /\ handles = {} /\ \A t \in Threads : thread[t] = "none"

(* Threads have handles, which are set one after the other.                *)
Counted == {"readCount", "writeCount"}
LastHandle == IF mainPC \in Counted THEN numCreated + 1 ELSE numCreated

HandlesInOrder ==
    mainPC \in InRun =>
        /\ LastHandle <= threadCount + 2
        /\ mainPC = "waitThreads" => numCreated = threadCount + 2
        /\ \A t \in Threads : thread[t] # "none" => t \in handles
        /\ \A t \in handles : t <= LastHandle
        /\ ~notCreated => \A t \in 1 .. LastHandle : t \in handles

(* The lock belongs to a thread that is at the count.                      *)
LockHeld == threadCountLock # 0 =>
                /\ threadCountLock \in Threads
                /\ thread[threadCountLock] \in {"counting", "leaving"}

(* Threads outlive the wait for them only when one has no handle.          *)
Outlived ==
    /\ mainPC = "cleanup" => notCreated \/ Alive = {}
    /\ mainPC = "undefined" => notCreated

ThreadInv == RunTyped /\ CountInBounds /\ NoThreads /\ HandlesInOrder /\ LockHeld /\ Outlived

-----------------------------------------------------------------------------
(* The values of the constants in these proofs.                            *)
LEMMA Numbers ==
    /\ NumberUserThreads \in Nat /\ NumberUserThreads > 0
    /\ MaxTotalThreads = NumberUserThreads + 2 /\ Threads = 1 .. NumberUserThreads + 2
    /\ Len(StartUp) = 8 /\ 0 \notin Threads
BY RunsAssumption DEF MaxTotalThreads, Threads, StartUp

(* Nothing runs before the first run.                                      *)
LEMMA ThreadInit == Init => ThreadInv
BY Numbers DEF Init, ThreadInv, RunTyped, CountInBounds, NoThreads, HandlesInOrder, LockHeld,
   Outlived, MainPCs, ThreadStates, InRun

(* main starts a sweep: no more threads than threadInfoArray has room for. *)
LEMMA MainKeeps == ASSUME ThreadInv, Main  PROVE ThreadInv'
<1> USE Numbers DEF ThreadInv
<1>1. /\ mainPC = "start" /\ mainPC' \in {"run", "exit"}
      /\ UNCHANGED <<step, numCreated, handles, notCreated, thread, threadCountLock>>
  BY DEF Main, creation, counting
<1>2. /\ threadCount' \in 0 .. NumberUserThreads + 1
      /\ maxThreads' \in 0 .. NumberUserThreads
      /\ mainPC' = "run" => threadCount' \in 1 .. maxThreads'
  BY DEF Main, Plan, Accepts
<1>3. RunTyped'  BY <1>1, <1>2 DEF RunTyped, MainPCs
<1>4. CountInBounds'  BY <1>1, <1>2 DEF CountInBounds
<1>5. NoThreads'  BY <1>1 DEF NoThreads, Quiet
<1>6. HandlesInOrder' /\ LockHeld' /\ Outlived'
  BY <1>1 DEF HandlesInOrder, InRun, LockHeld, Outlived
<1>. QED  BY <1>3, <1>4, <1>5, <1>6

(* The end of a run, and the start of the next.                            *)
LEMMA SweepKeeps == ASSUME ThreadInv, BeginRun \/ EndRun  PROVE ThreadInv'
<1> USE Numbers DEF ThreadInv
<1>1. /\ mainPC \in {"run", "returned"} /\ mainPC' \in {"privilege", "run", "exit"}
      /\ UNCHANGED <<maxThreads, numCreated, handles, notCreated, thread, threadCountLock>>
      /\ step' \in {0, step}
  BY DEF BeginRun, EndRun, sweep, creation, counting
<1>2. /\ threadCount' \in 0 .. NumberUserThreads + 1
      /\ mainPC' # "exit" => threadCount' \in 1 .. maxThreads
  <2>1. threadCount \in 1 .. maxThreads /\ maxThreads \in Nat
    BY <1>1 DEF CountInBounds, RunTyped
  <2>. maxThreads <= NumberUserThreads  BY DEF RunTyped
  <2>2. CASE BeginRun  BY <2>1, <2>2 DEF BeginRun, sweep
  <2>3. CASE EndRun
    <3>1. threadCount' \in {threadCount, threadCount + 1}  BY <2>3 DEF EndRun, NextRun
    <3>. QED  BY <2>1, <2>3, <3>1 DEF EndRun
  <2>. QED  BY <2>2, <2>3
<1>3. RunTyped'  BY <1>1 DEF RunTyped, MainPCs
<1>4. CountInBounds'  BY <1>1, <1>2 DEF CountInBounds
<1>5. NoThreads'  BY <1>1 DEF NoThreads, Quiet
<1>6. HandlesInOrder' /\ LockHeld' /\ Outlived'
  BY <1>1 DEF HandlesInOrder, InRun, LockHeld, Outlived
<1>. QED  BY <1>3, <1>4, <1>5, <1>6

(* The start-up has no threads yet, whether it succeeds or fails.          *)
LEMMA StartUpKeeps ==
    ASSUME ThreadInv, GetPrivilege \/ Acquire \/ AcquireFails \/ StartedUp
    PROVE  ThreadInv'
<1> USE Numbers DEF ThreadInv
<1>1. /\ mainPC \in {"privilege", "startUp"} /\ mainPC' \in {"startUp", "cleanup", "create"}
      /\ UNCHANGED <<maxThreads, threadCount, numCreated, handles, notCreated, endedEarly, thread,
                     threadCountLock>>
      /\ step' = step \/ (step' = step + 1 /\ step < 8)
  BY DEF GetPrivilege, Acquire, AcquireFails, StartedUp, ToStart, sweep, creation, counting
<1>2. numCreated = 0 /\ handles = {} /\ \A t \in Threads : thread[t] = "none"
  BY <1>1 DEF NoThreads, Quiet
<1>3. RunTyped'  BY <1>1 DEF RunTyped, MainPCs
<1>4. CountInBounds'  BY <1>1 DEF CountInBounds
<1>5. NoThreads'  BY <1>1, <1>2 DEF NoThreads, Quiet
<1>6. HandlesInOrder'
  BY <1>1, <1>2 DEF HandlesInOrder, InRun, LastHandle, Counted, CountInBounds
<1>7. LockHeld'  BY <1>1 DEF LockHeld
<1>8. Outlived'  BY <1>1, <1>2 DEF Outlived, Alive
<1>. QED  BY <1>3, <1>4, <1>5, <1>6, <1>7, <1>8

(* createThreads creates the threads in order, or records that it cannot.  *)
LEMMA CreateKeeps == ASSUME ThreadInv, CreateThread  PROVE ThreadInv'
<1> USE Numbers DEF ThreadInv
<1> DEFINE t == numCreated + 1
<1>1. /\ mainPC = "create" /\ numCreated < threadCount + 2
      /\ threadCount \in 1 .. NumberUserThreads /\ numCreated \in Nat /\ t \in Threads
  BY DEF CreateThread, CountInBounds, RunTyped
<1>2. t \notin handles /\ thread[t] = "none"
  BY <1>1 DEF HandlesInOrder, InRun, LastHandle, Counted, RunTyped
<1>3. /\ UNCHANGED <<maxThreads, threadCount, step, threadCountLock, endedEarly>>
      /\ \/ /\ thread' = [thread EXCEPT ![t] = "running"]
            /\ handles' = handles \cup {t} /\ notCreated' = notCreated
         \/ notCreated' = TRUE /\ thread' = thread /\ handles' = handles
  BY DEF CreateThread, sweep, counting
<1>4. \/ mainPC' = "readCount" /\ numCreated' = numCreated /\ t <= threadCount
      \/ mainPC' = "create" /\ numCreated' = t
  BY <1>1 DEF CreateThread, AfterCreation, UsersOfRun
<1>5. RunTyped'
  <2>1. thread' \in [Threads -> ThreadStates] /\ handles' \subseteq Threads
    BY <1>1, <1>3 DEF RunTyped, ThreadStates
  <2>2. mainPC' \in MainPCs /\ numCreated' \in Nat  BY <1>1, <1>4 DEF MainPCs
  <2>. QED  BY <1>3, <2>1, <2>2 DEF RunTyped
<1>6. CountInBounds'  BY <1>1, <1>3, <1>4 DEF CountInBounds
<1>7. NoThreads' /\ Outlived'  BY <1>4 DEF NoThreads, Quiet, Outlived
<1>8. HandlesInOrder'
  <2>1. LastHandle = numCreated /\ LastHandle' = t /\ mainPC' \in InRun \ {"waitThreads"}
    BY <1>1, <1>4 DEF LastHandle, Counted, InRun
  <2>2. /\ t <= threadCount + 2
        /\ \A x \in Threads : thread[x] # "none" => x \in handles
        /\ \A x \in handles : x <= numCreated /\ x \in Threads
        /\ ~notCreated => \A x \in 1 .. numCreated : x \in handles
    BY <1>1, <2>1 DEF HandlesInOrder, InRun, RunTyped
  <2>3. \A x \in Threads : thread'[x] # "none" => x \in handles'
    BY <1>1, <1>3, <2>2 DEF RunTyped
  <2>4. \A x \in handles' : x <= t  BY <1>1, <1>3, <2>2
  <2>5. ~notCreated' => \A x \in 1 .. t : x \in handles'
    BY <1>1, <1>3, <2>2
  <2>. QED  BY <1>3, <2>1, <2>2, <2>3, <2>4, <2>5 DEF HandlesInOrder
<1>9. LockHeld'  BY <1>1, <1>2, <1>3 DEF LockHeld, RunTyped
<1>. QED  BY <1>5, <1>6, <1>7, <1>8, <1>9

(* The count is stored when the handle has long been set.                  *)
LEMMA CountKeeps == ASSUME ThreadInv, ReadCount \/ WriteCount  PROVE ThreadInv'
<1> USE Numbers DEF ThreadInv
<1>1. /\ mainPC \in Counted /\ mainPC' \in {"writeCount", "create"}
      /\ UNCHANGED <<maxThreads, threadCount, step, thread, handles, notCreated, threadCountLock>>
      /\ numCreated \in Nat /\ numCreated' \in Nat /\ LastHandle' = LastHandle
  BY DEF ReadCount, WriteCount, RunTyped, LastHandle, Counted, sweep, creation
<1>2. RunTyped' /\ CountInBounds'
  BY <1>1 DEF RunTyped, MainPCs, CountInBounds, Counted
<1>3. NoThreads' /\ Outlived'  BY <1>1 DEF NoThreads, Quiet, Outlived
<1>4. HandlesInOrder'  BY <1>1 DEF HandlesInOrder, InRun, Counted
<1>5. LockHeld'  BY <1>1 DEF LockHeld
<1>. QED  BY <1>2, <1>3, <1>4, <1>5

(* initThreads waits: with all handles set, for every thread.              *)
LEMMA WaitKeeps == ASSUME ThreadInv, WaitForShutdown \/ WaitForThreads  PROVE ThreadInv'
<1> USE Numbers DEF ThreadInv
<1>1. UNCHANGED <<maxThreads, threadCount, step, thread, handles, numCreated, notCreated,
                  endedEarly, threadCountLock>>
  BY DEF WaitForShutdown, WaitForThreads, sweep, creation, counting
<1>2. \/ mainPC = "create" /\ mainPC' = "waitThreads" /\ numCreated = threadCount + 2
      \/ mainPC = "waitThreads" /\ mainPC' = "cleanup" /\ AllThreadsEnded
  BY DEF WaitForShutdown, WaitForThreads
<1>3. RunTyped' /\ CountInBounds' /\ NoThreads' /\ LockHeld'
  BY <1>1, <1>2 DEF RunTyped, MainPCs, CountInBounds, NoThreads, Quiet, LockHeld
<1>4. HandlesInOrder'
  BY <1>1, <1>2 DEF HandlesInOrder, InRun, LastHandle, Counted
<1>5. Outlived'
  <2>1. ASSUME mainPC' = "cleanup", ~notCreated  PROVE Alive' = {}
    <3>1. /\ \A t \in 1 .. threadCount + 2 : t \in handles
          /\ \A t \in Threads : thread[t] # "none" => t \in handles
      BY <1>2, <2>1 DEF HandlesInOrder, InRun, LastHandle, Counted
    <3>2. \A t \in handles : thread[t] = "done"
      BY <1>2, <2>1, <3>1 DEF AllThreadsEnded, ThreadsOfRun
    <3>. QED  BY <1>1, <3>1, <3>2 DEF Alive
  <2>. QED  BY <1>1, <1>2, <2>1 DEF Outlived
<1>. QED  BY <1>3, <1>4, <1>5

(* The clean-up forgets the threads that have ended.                       *)
LEMMA CleanUpKeeps == ASSUME ThreadInv, CleanUp  PROVE ThreadInv'
<1> USE Numbers DEF ThreadInv
<1>1. /\ mainPC = "cleanup" /\ UNCHANGED <<maxThreads, threadCount, step, notCreated, endedEarly,
                                           threadCountLock>>
      /\ mainPC' = (IF Alive = {} THEN "returned" ELSE "undefined")
      /\ numCreated' = 0 /\ handles' = {}
      /\ thread' = [t \in Threads |-> IF thread[t] = "done" THEN "none" ELSE thread[t]]
  BY DEF CleanUp, sweep
<1>2. RunTyped' /\ CountInBounds'
  BY <1>1 DEF RunTyped, MainPCs, ThreadStates, CountInBounds
<1>3. NoThreads'  BY <1>1 DEF NoThreads, Quiet, Alive
<1>4. HandlesInOrder'  BY <1>1 DEF HandlesInOrder, InRun
<1>5. LockHeld'  BY <1>1 DEF LockHeld
<1>6. Outlived'  BY <1>1 DEF Outlived
<1>. QED  BY <1>2, <1>3, <1>4, <1>5, <1>6

(***************************************************************************)
(* A step of the threads changes only threads that are alive, and leaves   *)
(* the lock to a thread that is at the count.                              *)
(***************************************************************************)
LEMMA AliveStep ==
    ASSUME ThreadInv, LockHeld', thread' \in [Threads -> ThreadStates],
           \E t \in Threads : thread[t] \notin {"none", "done"},
           \A t \in Threads : thread'[t] # "none" => thread[t] # "none",
           UNCHANGED <<mainPC, maxThreads, threadCount, step, numCreated, handles, notCreated>>
    PROVE  ThreadInv'
<1> USE Numbers DEF ThreadInv
<1>1. RunTyped' /\ CountInBounds'  BY DEF RunTyped, CountInBounds
<1>2. mainPC \notin Quiet  BY DEF NoThreads
<1>3. HandlesInOrder'  BY DEF HandlesInOrder, LastHandle
<1>4. Outlived'  BY DEF Outlived, Alive
<1>. QED  BY <1>1, <1>2, <1>3, <1>4 DEF NoThreads

(* The threads of a run have entries in threadInfoArray.                   *)
LEMMA RunHasEntries ==
    ASSUME ThreadInv
    PROVE  /\ UsersOfRun \subseteq Threads
           /\ \A u \in UsersOfRun : u # 0
<1>1. threadCount \in 0 .. NumberUserThreads + 1  BY DEF ThreadInv, CountInBounds
<1>. QED  BY <1>1, Numbers DEF UsersOfRun

(* A user thread waits for a frame, or takes the next step to its end.     *)
LEMMA UserKeeps ==
    ASSUME ThreadInv, NEW u \in UsersOfRun, NeedFrame(u) \/ UserStep(u)
    PROVE  ThreadInv'
<1>1. u \in Threads /\ u # 0  BY RunHasEntries
<1>2. thread \in [Threads -> ThreadStates] /\ LockHeld  BY DEF ThreadInv, RunTyped
<1>3. UNCHANGED <<mainPC, maxThreads, threadCount, step, numCreated, handles, notCreated>>
  BY DEF NeedFrame, UserStep, AcquireCount, DecrementCount, LeaveThread, ThreadStep, sweep,
     creation
<1>4. \E old, new \in ThreadStates :
         /\ thread[u] = old /\ old \notin {"none", "done"}
         /\ thread' = [thread EXCEPT ![u] = new]
  BY <1>1, <1>2 DEF NeedFrame, UserStep, AcquireCount, DecrementCount, LeaveThread, ThreadStep,
     ThreadStates
<1>5. LockHeld'
  <2>1. CASE NeedFrame(u)
    <3>1. /\ thread[u] = "running" /\ thread' = [thread EXCEPT ![u] = "waiting"]
          /\ threadCountLock' = threadCountLock
      BY <2>1 DEF NeedFrame, ThreadStep, counting
    <3>. QED  BY <1>1, <1>2, <3>1 DEF LockHeld
  <2>2. CASE AcquireCount(u)
    <3>1. thread' = [thread EXCEPT ![u] = "counting"] /\ threadCountLock' = u
      BY <2>2 DEF AcquireCount, ThreadStep
    <3>. QED  BY <1>1, <1>2, <3>1 DEF LockHeld
  <2>3. CASE DecrementCount(u)
    <3>1. thread' = [thread EXCEPT ![u] = "leaving"] /\ threadCountLock' = threadCountLock
      BY <2>3 DEF DecrementCount, ThreadStep
    <3>. QED  BY <1>1, <1>2, <3>1 DEF LockHeld
  <2>4. CASE LeaveThread(u)
    BY <2>4 DEF LeaveThread, LockHeld
  <2>. QED  BY <2>1, <2>2, <2>3, <2>4 DEF UserStep
<1>6. /\ thread' \in [Threads -> ThreadStates]
      /\ \E t \in Threads : thread[t] \notin {"none", "done"}
      /\ \A t \in Threads : thread'[t] # "none" => thread[t] # "none"
  BY <1>1, <1>2, <1>4
<1>. QED  BY <1>3, <1>5, <1>6, AliveStep

(* The waiting threads get their frames.                                   *)
LEMMA ServeKeeps == ASSUME ThreadInv, ServeFrames  PROVE ThreadInv'
<1>1. thread \in [Threads -> ThreadStates] /\ LockHeld  BY DEF ThreadInv, RunTyped
<1>2. /\ UNCHANGED <<mainPC, maxThreads, threadCount, step, numCreated, handles, notCreated,
                     threadCountLock>>
      /\ thread' = [t \in Threads |-> IF thread[t] = "waiting" THEN "running" ELSE thread[t]]
  BY DEF ServeFrames, sweep, creation, counting
<1>3. \E t \in Threads : thread[t] \notin {"none", "done"}
  <2>1. \E u \in UsersOfRun : thread[u] = "waiting"  BY DEF ServeFrames
  <2>. QED  BY <2>1, RunHasEntries
<1>4. thread' \in [Threads -> ThreadStates]  BY <1>1, <1>2 DEF ThreadStates
<1>5. LockHeld'  BY <1>1, <1>2 DEF LockHeld
<1>6. \A t \in Threads : thread'[t] # "none" => thread[t] # "none"  BY <1>2
<1>. QED  BY <1>2, <1>3, <1>4, <1>5, <1>6, AliveStep

(* The trim and the disk thread end.                                       *)
LEMMA EndKeeps ==
    ASSUME ThreadInv, NEW t \in Threads, EndOnShutdown(t)
    PROVE  ThreadInv'
<1>1. thread \in [Threads -> ThreadStates] /\ LockHeld  BY DEF ThreadInv, RunTyped
<1>2. /\ UNCHANGED <<mainPC, maxThreads, threadCount, step, numCreated, handles, notCreated,
                     threadCountLock>>
      /\ thread[t] = "running" /\ thread' = [thread EXCEPT ![t] = "done"]
  BY DEF EndOnShutdown, ThreadStep, sweep, creation, counting
<1>3. thread' \in [Threads -> ThreadStates]  BY <1>1, <1>2 DEF ThreadStates
<1>4. LockHeld'  BY <1>1, <1>2 DEF LockHeld
<1>5. /\ \E x \in Threads : thread[x] \notin {"none", "done"}
      /\ \A x \in Threads : thread'[x] # "none" => thread[x] # "none"
  BY <1>1, <1>2
<1>. QED  BY <1>2, <1>3, <1>4, <1>5, AliveStep

(* Every step keeps the invariant.                                         *)
LEMMA ThreadNext == ASSUME ThreadInv, [Next]_vars  PROVE ThreadInv'
<1>1. CASE MainStep
  BY <1>1, MainKeeps, SweepKeeps, StartUpKeeps, CreateKeeps, CountKeeps, WaitKeeps, CleanUpKeeps
     DEF MainStep
<1>2. CASE ServeFrames  BY <1>2, ServeKeeps
<1>3. CASE \E u \in UsersOfRun : NeedFrame(u) \/ UserStep(u)  BY <1>3, UserKeeps
<1>4. CASE \E t \in Threads : EndOnShutdown(t)  BY <1>4, EndKeeps
<1>5. CASE UNCHANGED vars
  BY <1>5 DEF vars, sweep, creation, counting, ThreadInv, RunTyped, CountInBounds, NoThreads,
     HandlesInOrder, LastHandle, LockHeld, Outlived, Alive
<1>. QED  BY <1>1, <1>2, <1>3, <1>4, <1>5 DEF Next, Stopped

(***************************************************************************)
(* What main frees at the end of a run no thread uses any more, and no     *)
(* thread holds threadCountLock: run by main, createThreads,               *)
(* WaitForMultipleObjects and shutdownUserThread, if all threads can be    *)
(* created, and though the event for the end may come too early.           *)
(***************************************************************************)
THEOREM ThreadsOutlived == Spec => []ThreadsAreOutlived
<1>1. ThreadInv => ThreadsAreOutlived
  <2>1. ASSUME ThreadInv, ~notCreated, mainPC \notin InRun
        PROVE  Alive = {} /\ threadCountLock = 0
    <3>1. mainPC \in Quiet \cup {"cleanup"}
      BY <2>1 DEF ThreadInv, RunTyped, MainPCs, Quiet, InRun, Outlived
    <3>2. Alive = {}
      BY <2>1, <3>1 DEF ThreadInv, NoThreads, Outlived, Alive
    <3>3. threadCountLock = 0
      BY <2>1, <3>2 DEF ThreadInv, LockHeld, Alive
    <3>. QED  BY <3>2, <3>3
  <2>. QED  BY <2>1 DEF ThreadsAreOutlived
<1>. QED  BY <1>1, ThreadInit, ThreadNext, PTL DEF Spec

-----------------------------------------------------------------------------
(* The count of the user threads that have not come to their end.          *)
Pending == {u \in UsersOfRun : thread[u] \in {"running", "waiting", "counting"}}

CountTyped ==
    /\ numActiveUserThreads \in 0 .. ULONG64Modulus - 1
    /\ copy \in [0 .. NumberUserThreads -> 0 .. ULONG64Modulus - 1]

(* Only the holder of the lock is at the count.                            *)
LockKnown == \A t \in Threads : thread[t] \in {"counting", "leaving"} => threadCountLock = t

(* A run starts with a count of zero and an event that is not signalled.   *)
StartsClean ==
    /\ mainPC \in {"privilege", "startUp"} => numActiveUserThreads = 0
    /\ mainPC = "privilege" => step = 0
    /\ mainPC = "startUp" /\ step >= 7 => ~shutdownProgramEvent

(* A thread with a handle has been started.                                *)
HandlesStarted == mainPC \in InRun => \A t \in handles : thread[t] # "none"

(* While main counts, no thread does, and none has come to its end.        *)
StillCounting ==
    /\ numActiveUserThreads = numCreated /\ ~shutdownProgramEvent
    /\ \A u \in UsersOfRun : thread[u] \in {"none", "running", "waiting"}
    /\ mainPC = "writeCount" => copy[0] = numActiveUserThreads

(* Once it has counted them all, the threads count themselves out.         *)
CountedAll ==
    /\ mainPC \notin Counted
    /\ numActiveUserThreads = Cardinality(Pending)
    /\ shutdownProgramEvent => Pending = {}
    /\ \A u \in UsersOfRun : thread[u] = "counting" => copy[u] = numActiveUserThreads

CountRight ==
    ~Disturbed /\ mainPC \in InRun =>
        /\ numCreated < threadCount => StillCounting
        /\ numCreated >= threadCount => CountedAll

CountInv == CountTyped /\ LockKnown /\ StartsClean /\ HandlesStarted /\ CountRight

(* The count of threads does not wrap.                                     *)
LEMMA NoWrap ==
    ASSUME NEW n \in 0 .. NumberUserThreads
    PROVE  n % ULONG64Modulus = n
BY RunsAssumption

(* A count, right or wrong, is a ULONG64.                                  *)
LEMMA CountWraps ==
    ASSUME NEW n \in Int
    PROVE  n % ULONG64Modulus \in 0 .. ULONG64Modulus - 1
BY RunsAssumption

(* In a run, its threads are in threadInfoArray and Pending can be counted. *)
LEMMA PendingCounts ==
    ASSUME ThreadInv, mainPC \in InRun
    PROVE  /\ threadCount \in 1 .. NumberUserThreads
           /\ UsersOfRun \subseteq Threads /\ UsersOfRun \subseteq UserThreads
           /\ IsFiniteSet(Pending)
<1>1. threadCount \in 1 .. NumberUserThreads
  BY Numbers DEF ThreadInv, CountInBounds, RunTyped, InRun
<1>2. UsersOfRun \subseteq Threads /\ UsersOfRun \subseteq UserThreads
  BY <1>1, Numbers DEF UsersOfRun, UserThreads
<1>3. IsFiniteSet(UsersOfRun) /\ Pending \subseteq UsersOfRun
  BY <1>1, FS_Interval DEF UsersOfRun, Pending
<1>. QED  BY <1>1, <1>2, <1>3, FS_Subset

(* Nothing is counted at the start.                                        *)
LEMMA CountInit == Init => CountInv
BY RunsAssumption, Numbers DEF Init, CountInv, CountTyped, LockKnown, StartsClean, HandlesStarted,
   CountRight, InRun

(* Before and after a run nothing is claimed but that it starts clean.     *)
LEMMA CountOutside ==
    ASSUME ThreadInv, CountInv, UNCHANGED <<thread, copy, threadCountLock>>,
           numActiveUserThreads' \in {0, numActiveUserThreads},
           mainPC' \notin InRun, mainPC' = "startUp" => mainPC \in {"privilege", "startUp"},
           mainPC' = "privilege" => numActiveUserThreads' = 0 /\ step' = 0,
           mainPC' = "startUp" /\ step' >= 7 => ~shutdownProgramEvent'
    PROVE  CountInv'
<1>1. CountTyped'  BY RunsAssumption DEF CountInv, CountTyped
<1>2. LockKnown'  BY DEF CountInv, LockKnown
<1>3. StartsClean'  BY DEF CountInv, StartsClean
<1>. QED  BY <1>1, <1>2, <1>3 DEF CountInv, HandlesStarted, CountRight

(* The start-up resets the event before the first thread.                  *)
LEMMA StartUpCounts ==
    ASSUME ThreadInv, CountInv, GetPrivilege \/ Acquire \/ AcquireFails \/ StartedUp
    PROVE  CountInv'
<1>1. /\ UNCHANGED <<threadCount, thread, copy, threadCountLock, numActiveUserThreads, handles,
                     numCreated>>
      /\ mainPC \in {"privilege", "startUp"} /\ step \in 0 .. 8
  BY DEF GetPrivilege, Acquire, AcquireFails, StartedUp, ToStart, counting, creation, sweep,
     ThreadInv, RunTyped
<1>2. CASE GetPrivilege
  <2>1. mainPC' \in {"startUp", "cleanup"} /\ step' = step /\ mainPC = "privilege"
    BY <1>2 DEF GetPrivilege, ToStart
  <2>2. step' = 0  BY <2>1 DEF CountInv, StartsClean
  <2>. QED  BY <1>1, <2>1, <2>2, CountOutside DEF InRun
<1>3. CASE Acquire
  <2>1. /\ mainPC = "startUp" /\ mainPC' = "startUp" /\ step' = step + 1
        /\ shutdownProgramEvent' = (shutdownProgramEvent /\ StartUp[step + 1] # "events")
    BY <1>3 DEF Acquire, ToStart
  <2>2. step = 6 => StartUp[step + 1] = "events"  BY DEF StartUp
  <2>3. step' >= 7 => step = 6 \/ step >= 7  BY <1>1, <2>1
  <2>4. step' >= 7 => ~shutdownProgramEvent'
    BY <2>1, <2>2, <2>3 DEF CountInv, StartsClean
  <2>. QED  BY <1>1, <2>1, <2>4, CountOutside DEF InRun
<1>4. CASE AcquireFails
  <2>1. mainPC' = "cleanup"  BY <1>4 DEF AcquireFails, ToStart
  <2>. QED  BY <1>1, <2>1, CountOutside DEF InRun
<1>5. CASE StartedUp
  <2>1. /\ mainPC = "startUp" /\ mainPC' = "create" /\ step = 8
        /\ shutdownProgramEvent' = shutdownProgramEvent
    BY <1>5, Numbers DEF StartedUp
  <2>2. /\ threadCount \in 1 .. NumberUserThreads
        /\ numCreated = 0 /\ handles = {} /\ \A t \in Threads : thread[t] = "none"
    BY <2>1, Numbers DEF ThreadInv, CountInBounds, RunTyped, NoThreads, Quiet
  <2>3. numActiveUserThreads = 0 /\ ~shutdownProgramEvent
    BY <2>1 DEF CountInv, StartsClean
  <2>4. \A u \in UsersOfRun' : thread[u] = "none"
    BY <1>1, <2>2, Numbers DEF UsersOfRun
  <2>5. StillCounting'  BY <1>1, <2>1, <2>2, <2>3, <2>4 DEF StillCounting
  <2>6. CountRight'  BY <1>1, <2>2, <2>5 DEF CountRight
  <2>. QED
    BY <1>1, <2>1, <2>2, <2>6
       DEF CountInv, CountTyped, LockKnown, StartsClean, HandlesStarted
<1>. QED  BY <1>2, <1>3, <1>4, <1>5

(* A thread is created before main counts it.                              *)
LEMMA CreateCounts == ASSUME ThreadInv, CountInv, CreateThread  PROVE CountInv'
<1> DEFINE t == numCreated + 1
<1>1. mainPC = "create" /\ mainPC \in InRun /\ numCreated < threadCount + 2
  BY DEF CreateThread, InRun
<1>2. /\ threadCount \in 1 .. NumberUserThreads /\ UsersOfRun \subseteq Threads
      /\ numCreated \in Nat /\ t \in Threads /\ thread \in [Threads -> ThreadStates]
  BY <1>1, PendingCounts, Numbers DEF ThreadInv, RunTyped
<1>3. /\ UNCHANGED <<threadCount, copy, threadCountLock, numActiveUserThreads, endedEarly,
                     shutdownProgramEvent>>
      /\ \/ /\ thread' = [thread EXCEPT ![t] = "running"]
            /\ handles' = handles \cup {t} /\ notCreated' = notCreated
         \/ notCreated' = TRUE /\ thread' = thread /\ handles' = handles
  BY DEF CreateThread, sweep, counting
<1>4. \/ mainPC' = "readCount" /\ numCreated' = numCreated /\ numCreated < threadCount
      \/ mainPC' = "create" /\ numCreated' = t /\ numCreated >= threadCount
  BY <1>2 DEF CreateThread, AfterCreation, UsersOfRun
<1>5. UsersOfRun' = UsersOfRun  BY <1>3 DEF UsersOfRun
<1>6. CountTyped' /\ StartsClean'
  BY <1>3, <1>4 DEF CountInv, CountTyped, StartsClean
<1>7. LockKnown'  BY <1>2, <1>3 DEF CountInv, LockKnown
<1>8. HandlesStarted'
  BY <1>1, <1>2, <1>3 DEF CountInv, HandlesStarted, ThreadInv, RunTyped
<1>9. CountRight'
  <2>1. SUFFICES ASSUME ~Disturbed'
                 PROVE  /\ numCreated' < threadCount' => StillCounting'
                        /\ numCreated' >= threadCount' => CountedAll'
    BY DEF CountRight
  <2>2. ~Disturbed /\ thread' = [thread EXCEPT ![t] = "running"]
    BY <1>3, <2>1 DEF Disturbed
  <2>3. CASE numCreated < threadCount
    <3>1. StillCounting  BY <1>1, <2>2, <2>3 DEF CountInv, CountRight
    <3>2. \A u \in UsersOfRun : thread'[u] \in {"none", "running", "waiting"}
      BY <1>2, <2>2, <3>1 DEF StillCounting
    <3>3. StillCounting'
      BY <1>2, <1>3, <1>4, <1>5, <2>3, <3>1, <3>2 DEF StillCounting
    <3>. QED  BY <1>2, <1>3, <1>4, <2>3, <3>3
  <2>4. CASE numCreated >= threadCount
    <3>1. CountedAll  BY <1>1, <2>2, <2>4 DEF CountInv, CountRight
    <3>2. \A u \in UsersOfRun : thread'[u] = thread[u]
      BY <1>2, <2>2, <2>4 DEF UsersOfRun
    <3>3. Pending' = Pending  BY <1>5, <3>2 DEF Pending
    <3>4. CountedAll'
      BY <1>2, <1>3, <1>4, <1>5, <2>4, <3>1, <3>2, <3>3 DEF CountedAll, Counted
    <3>. QED  BY <1>2, <1>3, <1>4, <2>4, <3>4
  <2>. QED  BY <1>2, <2>3, <2>4
<1>. QED  BY <1>6, <1>7, <1>8, <1>9 DEF CountInv

(* main counts: what it has read is still the count when it writes.        *)
LEMMA MainCounts == ASSUME ThreadInv, CountInv, ReadCount \/ WriteCount  PROVE CountInv'
<1>1. /\ UNCHANGED <<threadCount, thread, handles, threadCountLock, endedEarly, notCreated,
                     shutdownProgramEvent>>
      /\ mainPC \in Counted /\ mainPC \in InRun /\ mainPC' \in {"writeCount", "create"}
  BY DEF ReadCount, WriteCount, Counted, InRun, sweep, creation
<1>2. /\ threadCount \in 1 .. NumberUserThreads /\ UsersOfRun \subseteq Threads
      /\ numCreated \in Nat /\ UsersOfRun' = UsersOfRun
  BY <1>1, PendingCounts DEF ThreadInv, RunTyped, UsersOfRun
<1>3. LockKnown' /\ HandlesStarted' /\ StartsClean'
  BY <1>1 DEF CountInv, LockKnown, HandlesStarted, StartsClean
<1>4. ~Disturbed => numCreated < threadCount /\ StillCounting
  BY <1>1, <1>2 DEF CountInv, CountRight, CountedAll
<1>5. CASE ReadCount
  <2>1. /\ copy' = [copy EXCEPT ![0] = numActiveUserThreads]
        /\ UNCHANGED <<numActiveUserThreads, numCreated>>
    BY <1>5 DEF ReadCount, creation
  <2>2. CountTyped' /\ copy'[0] = numActiveUserThreads
    BY <2>1, Numbers DEF CountInv, CountTyped
  <2>3. CountRight'
    BY <1>1, <1>2, <1>4, <2>1, <2>2 DEF CountRight, StillCounting, Disturbed
  <2>. QED  BY <1>3, <2>2, <2>3 DEF CountInv
<1>6. CASE WriteCount
  <2>1. /\ numActiveUserThreads' = (copy[0] + 1) % ULONG64Modulus /\ numCreated' = numCreated + 1
        /\ copy' = copy /\ mainPC = "writeCount" /\ mainPC' = "create"
    BY <1>6 DEF WriteCount
  <2>2. CountTyped'
    <3>1. copy[0] + 1 \in Int  BY Numbers DEF CountInv, CountTyped
    <3>. QED  BY <2>1, <3>1, CountWraps DEF CountInv, CountTyped
  <2>3. CountRight'
    <3>1. SUFFICES ASSUME ~Disturbed
                   PROVE  /\ numCreated' < threadCount' => StillCounting'
                          /\ numCreated' >= threadCount' => CountedAll'
      BY <1>1 DEF CountRight, Disturbed
    <3>2. numCreated < threadCount /\ StillCounting  BY <1>4, <3>1
    <3>3. copy[0] = numCreated  BY <2>1, <3>2 DEF StillCounting
    <3>4. numActiveUserThreads' = numCreated + 1
      <4>1. numCreated + 1 \in 0 .. NumberUserThreads  BY <1>2, <3>2, Numbers
      <4>. QED  BY <2>1, <3>3, <4>1, NoWrap
    <3>5. StillCounting'
      BY <1>1, <1>2, <2>1, <3>2, <3>4 DEF StillCounting
    <3>6. ASSUME numCreated + 1 = threadCount  PROVE CountedAll'
      <4>1. LastHandle = threadCount  BY <1>1, <3>6 DEF LastHandle
      <4>2. \A u \in UsersOfRun : u \in handles
        BY <1>1, <3>1, <4>1 DEF ThreadInv, HandlesInOrder, Disturbed, UsersOfRun
      <4>3. \A u \in UsersOfRun : thread[u] \in {"running", "waiting"}
        BY <1>1, <3>2, <4>2 DEF CountInv, HandlesStarted, StillCounting
      <4>4. Pending' = 1 .. threadCount
        BY <1>1, <1>2, <4>3 DEF Pending, UsersOfRun
      <4>5. Cardinality(Pending') = threadCount
        BY <1>2, <4>4, FS_Interval
      <4>6. \A u \in UsersOfRun : thread[u] # "counting"  BY <4>3
      <4>. QED  BY <1>1, <1>2, <2>1, <3>2, <3>4, <3>6, <4>5, <4>6
                DEF CountedAll, StillCounting, Counted
    <3>. QED  BY <1>1, <1>2, <2>1, <3>2, <3>5, <3>6
  <2>. QED  BY <1>3, <2>2, <2>3 DEF CountInv
<1>. QED  BY <1>5, <1>6

(* main's waits leave the count to the threads.                            *)
LEMMA WaitCounts ==
    ASSUME ThreadInv, CountInv, WaitForShutdown \/ WaitForThreads
    PROVE  CountInv'
<1>1. UNCHANGED <<threadCount, thread, handles, numCreated, copy, threadCountLock, endedEarly,
                  notCreated, numActiveUserThreads, shutdownProgramEvent>>
  BY DEF WaitForShutdown, WaitForThreads, sweep, creation, counting
<1>2. \/ mainPC \in InRun /\ mainPC' = "waitThreads" /\ numCreated >= threadCount
      \/ mainPC' = "cleanup"
  BY DEF WaitForShutdown, WaitForThreads, InRun, ThreadInv, CountInBounds
<1>3. CountTyped' /\ LockKnown' /\ StartsClean' /\ HandlesStarted'
  BY <1>1, <1>2 DEF CountInv, CountTyped, LockKnown, StartsClean, HandlesStarted, InRun
<1>4. CASE mainPC' = "cleanup"  BY <1>3, <1>4 DEF CountInv, CountRight, InRun
<1>5. CASE mainPC \in InRun /\ mainPC' = "waitThreads" /\ numCreated >= threadCount
  <2>1. ~Disturbed => CountedAll  BY <1>5 DEF CountInv, CountRight
  <2>2. Pending' = Pending /\ UsersOfRun' = UsersOfRun  BY <1>1 DEF Pending, UsersOfRun
  <2>3. ~Disturbed => CountedAll'
    BY <1>1, <1>5, <2>1, <2>2 DEF CountedAll, Counted
  <2>4. numCreated \in Nat /\ threadCount \in Nat
    BY DEF ThreadInv, RunTyped, CountInBounds
  <2>5. CountRight'  BY <1>1, <1>5, <2>3, <2>4 DEF CountRight, Disturbed
  <2>. QED  BY <1>3, <2>5 DEF CountInv
<1>. QED  BY <1>2, <1>4, <1>5

(* The clean-up, and the steps between runs.                               *)
LEMMA OutsideCounts ==
    ASSUME ThreadInv, CountInv, Main \/ BeginRun \/ EndRun \/ CleanUp
    PROVE  CountInv'
<1>1. CASE Main \/ BeginRun \/ EndRun
  <2>1. /\ UNCHANGED <<thread, copy, threadCountLock>>
        /\ numActiveUserThreads' \in {0, numActiveUserThreads}
        /\ mainPC' \in {"run", "exit", "privilege"}
        /\ mainPC' = "privilege" => numActiveUserThreads' = 0 /\ step' = 0
    BY <1>1 DEF Main, BeginRun, EndRun, counting
  <2>. QED  BY <2>1, CountOutside DEF InRun
<1>2. CASE CleanUp
  <2>1. /\ mainPC' \in {"returned", "undefined"} /\ numActiveUserThreads' = 0
        /\ copy' = copy /\ threadCountLock' = threadCountLock
        /\ thread' = [t \in Threads |-> IF thread[t] = "done" THEN "none" ELSE thread[t]]
    BY <1>2 DEF CleanUp
  <2>2. CountTyped'  BY <2>1, RunsAssumption DEF CountInv, CountTyped
  <2>3. LockKnown'  BY <2>1 DEF CountInv, LockKnown
  <2>. QED  BY <2>1, <2>2, <2>3 DEF CountInv, StartsClean, HandlesStarted, CountRight, InRun
<1>. QED  BY <1>1, <1>2

(***************************************************************************)
(* A step of a thread that leaves the count and the pending threads alone. *)
(***************************************************************************)
LEMMA ThreadsCount ==
    ASSUME ThreadInv, CountInv, LockKnown', CountTyped',
           \A t \in Threads : thread'[t] = "none" => thread[t] = "none",
           ~Disturbed' => ~Disturbed,
           UNCHANGED <<mainPC, threadCount, step, numCreated, handles, numActiveUserThreads,
                       shutdownProgramEvent>>,
           ~Disturbed /\ mainPC \in InRun =>
              \A u \in UsersOfRun :
                 /\ thread'[u] \in {"running", "waiting", "counting"} <=>
                        thread[u] \in {"running", "waiting", "counting"}
                 /\ numCreated < threadCount =>
                        thread'[u] \in {"none", "running", "waiting"} /\ copy'[0] = copy[0]
                 /\ thread'[u] = "counting" => copy'[u] = numActiveUserThreads
    PROVE  CountInv'
<1>1. StartsClean'  BY DEF CountInv, StartsClean
<1>2. HandlesStarted'  BY DEF CountInv, HandlesStarted, ThreadInv, RunTyped
<1>3. CountRight'
  <2>1. SUFFICES ASSUME ~Disturbed, mainPC \in InRun
                 PROVE  /\ numCreated < threadCount => StillCounting'
                        /\ numCreated >= threadCount => CountedAll'
    BY DEF CountRight
  <2>2. UsersOfRun' = UsersOfRun /\ UsersOfRun # {}
    BY <2>1, PendingCounts DEF UsersOfRun
  <2>3. Pending' = Pending  BY <2>1, <2>2 DEF Pending
  <2>4. ASSUME numCreated < threadCount  PROVE StillCounting'
    BY <2>1, <2>2, <2>4 DEF CountInv, CountRight, StillCounting
  <2>5. ASSUME numCreated >= threadCount  PROVE CountedAll'
    BY <2>1, <2>2, <2>3, <2>5 DEF CountInv, CountRight, CountedAll
  <2>. QED  BY <2>4, <2>5
<1>. QED  BY <1>1, <1>2, <1>3 DEF CountInv

(* A thread waits, is served, or ends: no user thread is counted out.      *)
LEMMA OthersCount ==
    ASSUME ThreadInv, CountInv,
           \/ ServeFrames \/ (\E u \in UsersOfRun : NeedFrame(u) \/ LeaveThread(u))
           \/ (\E t \in Threads : EndOnShutdown(t))
    PROVE  CountInv'
<1> USE DEF ThreadInv, RunTyped
<1>1. /\ UNCHANGED <<mainPC, threadCount, step, numCreated, handles, numActiveUserThreads,
                     shutdownProgramEvent, copy>>
      /\ ~Disturbed' => ~Disturbed
  <2>1. UNCHANGED <<mainPC, sweep, step, creation, numActiveUserThreads, shutdownProgramEvent,
                    copy, endedEarly>>
    BY DEF ServeFrames, NeedFrame, LeaveThread, EndOnShutdown, ThreadStep, counting
  <2>. QED  BY <2>1 DEF sweep, creation, Disturbed
<1>2. CountTyped'  BY <1>1 DEF CountInv, CountTyped
<1>3. ~Disturbed /\ mainPC \in InRun =>
          \A u \in UsersOfRun :
              /\ u \in Threads
              /\ numCreated < threadCount =>
                     thread[u] \in {"none", "running", "waiting"} /\ ~shutdownProgramEvent
              /\ thread[u] = "counting" => copy[u] = numActiveUserThreads
  BY PendingCounts DEF CountInv, CountRight, StillCounting, CountedAll, CountInBounds
<1>4. CASE ServeFrames
  <2>1. /\ threadCountLock' = threadCountLock
        /\ thread' = [t \in Threads |-> IF thread[t] = "waiting" THEN "running" ELSE thread[t]]
    BY <1>4 DEF ServeFrames, counting
  <2>2. LockKnown'  BY <2>1 DEF CountInv, LockKnown
  <2>. QED  BY <1>1, <1>2, <1>3, <2>1, <2>2, ThreadsCount
<1>5. ASSUME NEW u \in UsersOfRun, NeedFrame(u)  PROVE CountInv'
  <2>1. /\ threadCountLock' = threadCountLock /\ thread[u] = "running" /\ u \in Threads
        /\ thread' = [thread EXCEPT ![u] = "waiting"]
    BY <1>5, RunHasEntries DEF NeedFrame, ThreadStep, counting
  <2>2. LockKnown'  BY <2>1 DEF CountInv, LockKnown
  <2>. QED  BY <1>1, <1>2, <1>3, <2>1, <2>2, ThreadsCount
<1>6. ASSUME NEW u \in UsersOfRun, LeaveThread(u)  PROVE CountInv'
  <2>1. /\ threadCountLock' = 0 /\ thread[u] = "leaving" /\ u \in Threads /\ u # 0
        /\ thread' = [thread EXCEPT ![u] = "done"]
    BY <1>6, RunHasEntries DEF LeaveThread, ThreadStep
  <2>2. \A t \in Threads : thread[t] \in {"counting", "leaving"} => t = u
    BY <2>1 DEF CountInv, LockKnown
  <2>3. LockKnown'  BY <2>1, <2>2 DEF LockKnown
  <2>. QED  BY <1>1, <1>2, <1>3, <2>1, <2>3, ThreadsCount
<1>7. ASSUME NEW t \in Threads, EndOnShutdown(t)  PROVE CountInv'
  <2>1. /\ threadCountLock' = threadCountLock /\ thread[t] = "running"
        /\ t \in {threadCount + 1, threadCount + 2}
        /\ thread' = [thread EXCEPT ![t] = "done"]
    BY <1>7 DEF EndOnShutdown, ThreadStep, counting, TrimThread, DiskThread
  <2>2. LockKnown'  BY <2>1 DEF CountInv, LockKnown
  <2>3. t \notin UsersOfRun  BY <2>1 DEF UsersOfRun, CountInBounds
  <2>4. \A x \in UsersOfRun : thread'[x] = thread[x]  BY <2>1, <2>3, RunHasEntries
  <2>. QED  BY <1>1, <1>2, <1>3, <2>1, <2>2, <2>4, ThreadsCount
<1>. QED  BY <1>4, <1>5, <1>6, <1>7

(* A thread reads the count under the lock, after main has counted all.    *)
LEMMA AcquireCounts ==
    ASSUME ThreadInv, CountInv, NEW u \in UsersOfRun, AcquireCount(u)
    PROVE  CountInv'
<1>1. /\ u \in Threads /\ u # 0 /\ thread \in [Threads -> ThreadStates]
      /\ numCreated \in Nat /\ threadCount \in Nat
  BY RunHasEntries DEF ThreadInv, RunTyped, CountInBounds
<1>2. /\ thread[u] = "running" /\ threadCountLock = 0 /\ threadCountLock' = u
      /\ thread' = [thread EXCEPT ![u] = "counting"]
      /\ copy' = [copy EXCEPT ![u] = numActiveUserThreads]
      /\ endedEarly' = (endedEarly \/ numCreated < threadCount)
  BY DEF AcquireCount, ThreadStep
<1>3. UNCHANGED <<mainPC, threadCount, step, numCreated, handles, notCreated,
                  numActiveUserThreads, shutdownProgramEvent>>
  BY DEF AcquireCount, ThreadStep, sweep, creation
<1>4. \A t \in Threads : thread[t] \notin {"counting", "leaving"}
  BY <1>2, Numbers DEF CountInv, LockKnown
<1>5. LockKnown'  BY <1>1, <1>2, <1>4 DEF LockKnown
<1>6. CountTyped'  BY <1>2, <1>3 DEF CountInv, CountTyped
<1>7. StartsClean' /\ HandlesStarted'
  BY <1>1, <1>2, <1>3 DEF CountInv, StartsClean, HandlesStarted, ThreadInv, RunTyped
<1>8. CountRight'
  <2>1. SUFFICES ASSUME ~Disturbed', mainPC \in InRun
                 PROVE  numCreated >= threadCount /\ CountedAll'
    BY <1>1, <1>3 DEF CountRight
  <2>2. ~Disturbed /\ numCreated >= threadCount
    <3>1. ~endedEarly /\ ~notCreated /\ ~(numCreated < threadCount)
      BY <1>2, <1>3, <2>1 DEF Disturbed
    <3>. QED  BY <1>1, <3>1 DEF Disturbed
  <2>3. CountedAll  BY <2>1, <2>2 DEF CountInv, CountRight
  <2>4. UsersOfRun' = UsersOfRun /\ UsersOfRun \subseteq Threads
    BY <1>3, RunHasEntries DEF UsersOfRun
  <2>5. Pending' = Pending  BY <1>1, <1>2, <2>4 DEF Pending
  <2>6. copy'[u] = numActiveUserThreads
    <3>1. u \in 0 .. NumberUserThreads
      BY <2>1, PendingCounts DEF UserThreads
    <3>. QED  BY <1>2, <3>1 DEF CountInv, CountTyped
  <2>7. \A x \in UsersOfRun : thread'[x] = "counting" => x = u
    BY <1>1, <1>2, <1>4, <2>4
  <2>. QED  BY <1>3, <2>2, <2>3, <2>4, <2>5, <2>6, <2>7 DEF CountedAll
<1>. QED  BY <1>5, <1>6, <1>7, <1>8 DEF CountInv

(* A thread counts itself out; the last one sets the event.                *)
LEMMA DecrementCounts ==
    ASSUME ThreadInv, CountInv, NEW u \in UsersOfRun, DecrementCount(u)
    PROVE  CountInv'
<1>1. /\ u \in Threads /\ thread \in [Threads -> ThreadStates]
      /\ numCreated \in Nat /\ threadCount \in Nat
  BY RunHasEntries DEF ThreadInv, RunTyped, CountInBounds
<1>2. /\ thread[u] = "counting" /\ thread' = [thread EXCEPT ![u] = "leaving"]
      /\ numActiveUserThreads' = (copy[u] - 1) % ULONG64Modulus
      /\ shutdownProgramEvent' = (shutdownProgramEvent \/ numActiveUserThreads' = 0)
  BY DEF DecrementCount, ThreadStep, IsLast
<1>3. UNCHANGED <<mainPC, threadCount, step, numCreated, handles, notCreated, endedEarly, copy,
                  threadCountLock>>
  BY DEF DecrementCount, ThreadStep, sweep, creation
<1>4. \A t \in Threads : thread[t] \in {"counting", "leaving"} => t = u
  BY <1>1, <1>2 DEF CountInv, LockKnown
<1>5. LockKnown'  BY <1>1, <1>2, <1>3, <1>4 DEF CountInv, LockKnown
<1>6. mainPC \in InRun \cup {"undefined", "cleanup"}
  BY <1>1, <1>2 DEF ThreadInv, RunTyped, NoThreads, MainPCs, Quiet, InRun
<1>7. CountTyped'
  <2>1. threadCount \in 1 .. NumberUserThreads
    BY <1>6, Numbers DEF ThreadInv, CountInBounds, RunTyped, InRun
  <2>2. copy[u] \in 0 .. ULONG64Modulus - 1
    BY <2>1, Numbers DEF CountInv, CountTyped, UsersOfRun
  <2>3. (copy[u] - 1) % ULONG64Modulus \in 0 .. ULONG64Modulus - 1
    <3>1. copy[u] - 1 \in Int  BY <2>2, RunsAssumption
    <3>. QED  BY <3>1, CountWraps
  <2>. QED  BY <1>2, <1>3, <2>3 DEF CountInv, CountTyped
<1>8. StartsClean' /\ HandlesStarted'
  BY <1>1, <1>2, <1>3, <1>6 DEF CountInv, StartsClean, HandlesStarted, ThreadInv, RunTyped, InRun
<1>9. CountRight'
  <2>1. SUFFICES ASSUME ~Disturbed, mainPC \in InRun
                 PROVE  numCreated >= threadCount /\ CountedAll'
    BY <1>1, <1>3 DEF CountRight, Disturbed
  <2>2. numCreated >= threadCount /\ CountedAll
    BY <1>1, <1>2, <2>1 DEF CountInv, CountRight, StillCounting
  <2>3. UsersOfRun' = UsersOfRun /\ UsersOfRun \subseteq Threads
    BY <1>3, RunHasEntries DEF UsersOfRun
  <2>4. u \in Pending /\ Pending' = Pending \ {u}
    BY <1>1, <1>2, <2>3 DEF Pending
  <2>5. IsFiniteSet(Pending) /\ threadCount \in 1 .. NumberUserThreads
    BY <2>1, PendingCounts
  <2>6. /\ IsFiniteSet(Pending') /\ Cardinality(Pending') = Cardinality(Pending) - 1
        /\ Cardinality(Pending') \in Nat
    BY <2>4, <2>5, FS_RemoveElement, FS_CardinalityType, FS_Subset
  <2>7. copy[u] = Cardinality(Pending)
    BY <1>2, <2>2 DEF CountedAll
  <2>8. Cardinality(Pending') \in 0 .. NumberUserThreads
    <3>1. IsFiniteSet(UsersOfRun) /\ Cardinality(UsersOfRun) = threadCount
      BY <2>5, FS_Interval DEF UsersOfRun
    <3>2. Pending' \subseteq UsersOfRun  BY <2>4 DEF Pending
    <3>3. Cardinality(Pending') <= threadCount  BY <3>1, <3>2, FS_Subset
    <3>. QED  BY <2>5, <2>6, <3>3, Numbers
  <2>9. numActiveUserThreads' = Cardinality(Pending')
    BY <1>2, <2>6, <2>7, <2>8, NoWrap
  <2>10. shutdownProgramEvent' => Pending' = {}
    BY <1>2, <2>2, <2>4, <2>6, <2>9, FS_EmptySet DEF CountedAll
  <2>11. \A x \in UsersOfRun : thread'[x] # "counting"
    BY <1>1, <1>2, <1>4, <2>3
  <2>. QED  BY <1>3, <2>2, <2>3, <2>9, <2>10, <2>11 DEF CountedAll
<1>. QED  BY <1>5, <1>7, <1>8, <1>9 DEF CountInv

(* Every step keeps the count.                                             *)
LEMMA CountNext == ASSUME ThreadInv, CountInv, [Next]_vars  PROVE CountInv'
<1>1. CASE MainStep
  BY <1>1, OutsideCounts, StartUpCounts, CreateCounts, MainCounts, WaitCounts DEF MainStep
<1>2. CASE \/ ServeFrames \/ (\E u \in UsersOfRun : NeedFrame(u) \/ LeaveThread(u))
           \/ (\E t \in Threads : EndOnShutdown(t))
  BY <1>2, OthersCount
<1>3. CASE \E u \in UsersOfRun : AcquireCount(u)  BY <1>3, AcquireCounts
<1>4. CASE \E u \in UsersOfRun : DecrementCount(u)  BY <1>4, DecrementCounts
<1>5. CASE UNCHANGED vars
  BY <1>5 DEF vars, sweep, creation, counting, CountInv, CountTyped, LockKnown, StartsClean,
     HandlesStarted, CountRight, StillCounting, CountedAll, Pending, UsersOfRun, Disturbed
<1>. QED  BY <1>1, <1>2, <1>3, <1>4, <1>5 DEF Next, Stopped, UserStep

(***************************************************************************)
(* The shutdown event comes from the last user thread of this run, when    *)
(* main has counted them all: createThreads, shutdownUserThread and the    *)
(* reset of both by the start-up, for any number of threads and any sweep. *)
(***************************************************************************)
THEOREM LastThreadShutsDown == Spec => []ShutdownComesLast
<1>1. ThreadInv /\ CountInv => ShutdownComesLast
  <2>1. SUFFICES ASSUME ThreadInv, CountInv, ~Disturbed, mainPC \in InRun, shutdownProgramEvent
                 PROVE  /\ numCreated >= threadCount
                        /\ \A u \in 1 .. threadCount : thread[u] \in {"leaving", "done"}
    BY DEF ShutdownComesLast
  <2>2. numCreated \in Nat /\ threadCount \in Nat /\ thread \in [Threads -> ThreadStates]
    BY <2>1 DEF ThreadInv, RunTyped, CountInBounds
  <2>3. numCreated >= threadCount /\ Pending = {} /\ mainPC \notin Counted
    BY <2>1, <2>2 DEF CountInv, CountRight, StillCounting, CountedAll
  <2>4. \A u \in UsersOfRun : thread[u] # "none"
    <3>1. \A u \in 1 .. numCreated : u \in handles
      BY <2>1, <2>3 DEF ThreadInv, HandlesInOrder, LastHandle, Disturbed
    <3>. QED  BY <2>1, <2>2, <2>3, <3>1 DEF UsersOfRun, CountInv, HandlesStarted
  <2>5. \A u \in UsersOfRun : thread[u] \in {"leaving", "done"}
    BY <2>2, <2>3, <2>4, RunHasEntries, <2>1 DEF Pending, ThreadStates
  <2>. QED  BY <2>3, <2>5 DEF UsersOfRun
<1>. QED  BY <1>1, ThreadInit, ThreadNext, CountInit, CountNext, PTL DEF Spec

-----------------------------------------------------------------------------
(* What the pointers, flags and entries of threadInfoArray say there is.   *)
Held ==
    (pointers \X {0}) \cup ForThreads("ThreadHandle", handles)
        \cup ForThreads("perThreadTransferVAs", perThreadTransferVAs)
Token == {<<"token", 0>>}

(* Between runs nothing is held, and only local variables are still set;   *)
(* within a run what they say is true.                                     *)
Between == {"start", "run", "privilege", "returned", "undefined", "exit"}
Within == InRun \cup {"startUp", "cleanup"}

HeldKnown ==
    /\ mainPC \in Between => /\ allocated \subseteq Token
                            /\ pointers \subseteq Locals /\ perThreadTransferVAs = {}
    /\ mainPC = "privilege" => pointers = {} /\ step = 0
    /\ mainPC \in Within => Held \subseteq allocated /\ allocated \subseteq Held \cup Token

(* The physical pages come after what they are released with: the section  *)
(* and the array of their numbers.                                         *)
AcquiredInOrder ==
    /\ pointers \subseteq Pieces
    /\ mainPC \in Within /\ "physicalPages" \in pointers =>
           {"physical_page_numbers", "section"} \subseteq pointers
    /\ mainPC = "startUp" =>
           /\ step > 0 => "section" \in pointers
           /\ step > 1 => "physical_page_numbers" \in pointers

(* The number of threads the clean-up goes by is that of all entries in    *)
(* use.                                                                    *)
EntriesKnown ==
    /\ totalThreads \in 0 .. MaxTotalThreads
    /\ perThreadTransferVAs \subseteq UserThreads
    /\ mainPC = "startUp" => perThreadTransferVAs = {}
    /\ mainPC \in InRun => perThreadTransferVAs \subseteq UsersOfRun
    /\ mainPC = "waitThreads" => totalThreads = threadCount + 2
    /\ mainPC = "cleanup" => handles \cup perThreadTransferVAs \subseteq 1 .. totalThreads

HoldingInv == HeldKnown /\ AcquiredInOrder /\ EntriesKnown

(* What the steps of the start-up acquire.                                 *)
LEMMA StepsAcquire ==
    ASSUME NEW n \in 1 .. 8
    PROVE  /\ Acquired(StartUp[n]) \subseteq Pieces /\ "token" \notin Acquired(StartUp[n])
           /\ n = 1 => Acquired(StartUp[n]) = {"section"}
           /\ n = 2 => Acquired(StartUp[n]) = Arrays
           /\ n \notin 1 .. 2 => Acquired(StartUp[n]) \cap Arrays = {}
           /\ "physicalPages" \in Acquired(StartUp[n]) => n = 3
<1>1. /\ StartUp[1] = "section" /\ StartUp[2] = "arrays" /\ StartUp[3] = "physicalPages"
      /\ StartUp[4] = "va" /\ StartUp[5] = "listsAndPFNs" /\ StartUp[6] = "diskSpace"
      /\ StartUp[7] = "events" /\ StartUp[8] = "locks" /\ DOMAIN StartUp = 1 .. 8
  BY DEF StartUp
<1>2. Acquired(StartUp[n]) \subseteq Pieces
  <2>1. StartUp[n] \in Range(StartUp)  BY <1>1 DEF Range
  <2>. QED  BY <2>1 DEF Pieces
<1>3. n \in {1, 2, 3, 4, 5, 6, 7, 8}  OBVIOUS
<1>4. /\ Acquired("section") = {"section"} /\ Acquired("arrays") = Arrays
      /\ Acquired("physicalPages") = {"physicalPages"} /\ Acquired("va") = {"va"}
      /\ Acquired("listsAndPFNs") = {"pageTable", "pfnArray"}
      /\ Acquired("diskSpace") =
             {"transferVA", "writeTransferVA", "totalDiskSpace", "diskSlotBitmap"}
      /\ Acquired("events") = {"events"} /\ Acquired("locks") = {"locks"}
  BY DEF Acquired
<1>. QED  BY <1>1, <1>2, <1>3, <1>4 DEF Arrays

(* The pieces that are named in the proofs.                                *)
LEMMA PiecesNamed == Locals \subseteq Pieces /\ Arrays \subseteq Pieces
<1>1. /\ Acquired(StartUp[1]) = {"section"} /\ Acquired(StartUp[2]) = Arrays
      /\ \A n \in 1 .. 8 : Acquired(StartUp[n]) \subseteq Pieces
  BY StepsAcquire
<1>2. StartUp[3] = "physicalPages"  BY DEF StartUp
<1>3. "physicalPages" \in Acquired(StartUp[3])  BY <1>2 DEF Acquired
<1>. QED  BY <1>1, <1>3 DEF Locals

(* Nothing is held at the start.                                           *)
LEMMA HoldingInit == Init => HoldingInv
BY Numbers DEF Init, HoldingInv, HeldKnown, AcquiredInOrder, EntriesKnown, Between, Within, InRun

(* Between two runs, the local variables of the first are gone.            *)
LEMMA HoldingBetween ==
    ASSUME ThreadInv, HoldingInv, Main \/ BeginRun \/ EndRun
    PROVE  HoldingInv'
<1>1. /\ mainPC \in {"start", "run", "returned"} /\ mainPC' \in {"run", "privilege", "exit"}
      /\ UNCHANGED <<allocated, perThreadTransferVAs>>
      /\ pointers' \in {pointers, pointers \ Locals} /\ totalThreads' \in {0, totalThreads}
      /\ mainPC' = "privilege" => step' = 0 /\ pointers' = pointers \ Locals
  BY DEF Main, BeginRun, EndRun, holdings
<1>2. HeldKnown'  BY <1>1 DEF HoldingInv, HeldKnown, Between, Within, InRun
<1>3. AcquiredInOrder'  BY <1>1 DEF HoldingInv, AcquiredInOrder, Within, InRun
<1>4. EntriesKnown'  BY <1>1, Numbers DEF HoldingInv, EntriesKnown, InRun
<1>. QED  BY <1>2, <1>3, <1>4 DEF HoldingInv

(***************************************************************************)
(* The start-up sets the pointer of what it acquires, with some pieces or  *)
(* none before it fails.                                                   *)
(***************************************************************************)
LEMMA HoldingStartUp ==
    ASSUME ThreadInv, HoldingInv, GetPrivilege \/ Acquire \/ AcquireFails
    PROVE  HoldingInv'
<1>1. PICK got \in SUBSET (Pieces \cup {"token"}) :
          /\ ToStart(mainPC', got)
          /\ \/ mainPC = "privilege" /\ mainPC' = "startUp" /\ got = {} /\ step' = step
             \/ mainPC' = "cleanup" /\ got \cap Locals = {}
             \/ /\ mainPC = "startUp" /\ mainPC' = "startUp" /\ step' = step + 1 /\ step < 8
                /\ got = Acquired(StartUp[step + 1])
  <2>1. CASE GetPrivilege
    <3>1. \/ mainPC = "privilege" /\ ToStart("startUp", {}) /\ mainPC' = "startUp"
             /\ step' = step
          \/ ToStart("cleanup", {}) /\ mainPC' = "cleanup"
          \/ ToStart("cleanup", {"token"}) /\ mainPC' = "cleanup"
      BY <2>1 DEF GetPrivilege, ToStart
    <3>. QED  BY <3>1 DEF Locals
  <2>2. CASE Acquire
    <3>1. /\ ToStart(mainPC', Acquired(StartUp[step + 1]))
          /\ mainPC = "startUp" /\ mainPC' = "startUp" /\ step' = step + 1 /\ step < 8
      BY <2>2, Numbers DEF Acquire, ToStart
    <3>2. step + 1 \in 1 .. 8  BY <3>1 DEF ThreadInv, RunTyped
    <3>. QED  BY <3>1, <3>2, StepsAcquire
  <2>3. CASE AcquireFails
    <3>1. \/ ToStart("cleanup", {}) \/ \E got \in SUBSET Arrays : ToStart("cleanup", got)
      BY <2>3 DEF AcquireFails
    <3>2. \E got \in SUBSET Arrays : ToStart("cleanup", got)  BY <3>1
    <3>. QED  BY <3>2, PiecesNamed DEF ToStart, Arrays, Locals
  <2>. QED  BY <2>1, <2>2, <2>3
<1>2. /\ mainPC \in {"privilege", "startUp"} /\ mainPC' \in {"startUp", "cleanup"}
      /\ step \in 0 .. 8 /\ handles = {} /\ perThreadTransferVAs = {}
  <2>1. mainPC \in {"privilege", "startUp"} /\ mainPC' \in {"startUp", "cleanup"}
    BY DEF GetPrivilege, Acquire, AcquireFails, ToStart
  <2>. QED
    BY <2>1 DEF ThreadInv, RunTyped, NoThreads, Quiet, HoldingInv, HeldKnown, EntriesKnown,
       Between
<1>3. /\ allocated' = allocated \cup (got \X {0}) /\ pointers' = pointers \cup (got \ {"token"})
      /\ UNCHANGED <<perThreadTransferVAs, totalThreads, handles, threadCount>>
  BY <1>1 DEF ToStart, creation, sweep
<1>4. \A what : what \in pointers \X {0} => what \in allocated
  BY <1>2 DEF HoldingInv, HeldKnown, Held, Between, Within, ForThreads
<1>5. allocated \subseteq (pointers \X {0}) \cup Token
  BY <1>2 DEF HoldingInv, HeldKnown, Held, Between, Within, ForThreads
<1>6. HeldKnown'
  <2>1. Held' = pointers' \X {0}  BY <1>2, <1>3 DEF Held, ForThreads
  <2>2. Held' \subseteq allocated' /\ allocated' \subseteq Held' \cup Token'
    BY <1>3, <1>4, <1>5, <2>1 DEF Token
  <2>. QED  BY <1>2, <2>2 DEF HeldKnown, Between
<1>7. AcquiredInOrder'
  <2>1. pointers' \subseteq Pieces  BY <1>1, <1>3 DEF HoldingInv, AcquiredInOrder
  <2>2. /\ mainPC = "privilege" => pointers = {} /\ step = 0
        /\ "physicalPages" \in pointers => {"physical_page_numbers", "section"} \subseteq pointers
        /\ mainPC = "startUp" /\ step > 0 => "section" \in pointers
        /\ mainPC = "startUp" /\ step > 1 => "physical_page_numbers" \in pointers
    BY <1>2 DEF HoldingInv, AcquiredInOrder, HeldKnown, Within
  <2>3. CASE mainPC = "privilege" /\ mainPC' = "startUp" /\ got = {} /\ step' = step
    BY <1>3, <2>1, <2>2, <2>3 DEF AcquiredInOrder
  <2>4. CASE mainPC' = "cleanup" /\ got \cap Locals = {}
    BY <1>3, <2>1, <2>2, <2>4 DEF AcquiredInOrder, Locals
  <2>5. CASE /\ mainPC = "startUp" /\ mainPC' = "startUp" /\ step' = step + 1 /\ step < 8
             /\ got = Acquired(StartUp[step + 1])
    <3>1. step + 1 \in 1 .. 8 /\ (step' > 1 => step > 1 \/ step = 1)
      BY <1>2, <2>5
    <3>2. /\ step = 0 => got = {"section"}
          /\ step = 1 => got = Arrays
          /\ "physicalPages" \in got => step > 1
      BY <2>5, <3>1, StepsAcquire
    <3>3. "section" \in pointers'  BY <1>2, <1>3, <2>2, <2>5, <3>2
    <3>4. step' > 1 => "physical_page_numbers" \in pointers'
      BY <1>3, <2>2, <2>5, <3>1, <3>2 DEF Arrays
    <3>5. "physicalPages" \in pointers' => "physical_page_numbers" \in pointers'
      BY <1>3, <2>2, <2>5, <3>2
    <3>. QED  BY <2>1, <3>3, <3>4, <3>5 DEF AcquiredInOrder
  <2>. QED  BY <1>1, <2>3, <2>4, <2>5
<1>8. EntriesKnown'  BY <1>2, <1>3 DEF HoldingInv, EntriesKnown, InRun
<1>. QED  BY <1>6, <1>7, <1>8 DEF HoldingInv

(* A thread is entered with its handle and its transfer addresses.         *)
LEMMA HoldingCreate == ASSUME ThreadInv, HoldingInv, CreateThread  PROVE HoldingInv'
<1> DEFINE t == numCreated + 1
           new == OwnTransferVAs(t)
<1>1. /\ mainPC = "create" /\ mainPC' \in {"create", "readCount"}
      /\ perThreadTransferVAs' = perThreadTransferVAs \cup new
      /\ handles' \in {handles, handles \cup {t}}
      /\ allocated' = allocated \cup ForThreads("perThreadTransferVAs", new)
                                 \cup ForThreads("ThreadHandle", handles' \ handles)
      /\ UNCHANGED <<pointers, totalThreads, threadCount>>
  BY DEF CreateThread, AfterCreation, sweep
<1>2. threadCount \in 1 .. NumberUserThreads /\ new \subseteq UsersOfRun
  BY <1>1, PendingCounts DEF OwnTransferVAs, InRun
<1>3. UsersOfRun \subseteq UserThreads  BY <1>1, PendingCounts DEF InRun
<1>4. Held \subseteq allocated /\ allocated \subseteq Held \cup Token
  BY <1>1 DEF HoldingInv, HeldKnown, Within, InRun
<1>5. Held' = Held \cup ForThreads("perThreadTransferVAs", new)
                   \cup ForThreads("ThreadHandle", handles' \ handles)
  BY <1>1 DEF Held, ForThreads
<1>6. HeldKnown'  BY <1>1, <1>4, <1>5 DEF HeldKnown, Between, Token
<1>7. AcquiredInOrder'
  BY <1>1 DEF HoldingInv, AcquiredInOrder, Within, InRun
<1>8. EntriesKnown'
  BY <1>1, <1>2, <1>3 DEF HoldingInv, EntriesKnown, InRun, UsersOfRun
<1>. QED  BY <1>6, <1>7, <1>8 DEF HoldingInv

(* The run goes on with what it has; at its end all threads are noted.     *)
LEMMA HoldingRun ==
    ASSUME ThreadInv, HoldingInv,
           StartedUp \/ ReadCount \/ WriteCount \/ WaitForShutdown \/ WaitForThreads
    PROVE  HoldingInv'
<1>1. /\ UNCHANGED <<allocated, pointers, perThreadTransferVAs, handles, threadCount>>
      /\ mainPC \in Within \ {"cleanup"}
      /\ mainPC' \in {"create", "writeCount", "waitThreads", "cleanup"}
      /\ mainPC' \in {"create", "writeCount"} => totalThreads' = totalThreads
      /\ mainPC' = "waitThreads" => totalThreads' = threadCount + 2 /\ mainPC = "create"
      /\ mainPC' = "cleanup" => totalThreads' = totalThreads /\ mainPC = "waitThreads"
  BY DEF StartedUp, ReadCount, WriteCount, WaitForShutdown, WaitForThreads, TotalThreads,
     holdings, creation, sweep, Within, InRun
<1>2. Held' = Held  BY <1>1 DEF Held
<1>3. HeldKnown'
  BY <1>1, <1>2 DEF HoldingInv, HeldKnown, Between, Within, Token
<1>4. AcquiredInOrder'  BY <1>1 DEF HoldingInv, AcquiredInOrder
<1>5. EntriesKnown'
  <2>1. mainPC \in InRun \/ (mainPC = "startUp" /\ perThreadTransferVAs = {})
    BY <1>1 DEF Within, HoldingInv, EntriesKnown
  <2>2. perThreadTransferVAs \subseteq UsersOfRun
    BY <2>1 DEF HoldingInv, EntriesKnown
  <2>3. threadCount \in 0 .. NumberUserThreads + 1 /\ UsersOfRun' = UsersOfRun
    BY <1>1 DEF ThreadInv, CountInBounds, UsersOfRun
  <2>4. mainPC' = "waitThreads" => threadCount + 2 \in 0 .. MaxTotalThreads
    BY <1>1, PendingCounts, Numbers DEF InRun
  <2>5. mainPC' = "cleanup" => handles \cup perThreadTransferVAs \subseteq 1 .. totalThreads
    <3>1. SUFFICES ASSUME mainPC' = "cleanup"
                   PROVE  handles \cup perThreadTransferVAs \subseteq 1 .. totalThreads
      OBVIOUS
    <3>2. totalThreads = threadCount + 2 /\ LastHandle <= threadCount + 2
      BY <1>1, <3>1
         DEF HoldingInv, EntriesKnown, ThreadInv, HandlesInOrder, InRun
    <3>3. /\ handles \subseteq Threads /\ numCreated \in Nat
          /\ \A x \in handles : x <= LastHandle
      BY <1>1, <3>1 DEF ThreadInv, RunTyped, HandlesInOrder, InRun
    <3>4. \A x \in handles : x \in 1 .. threadCount + 2
      BY <2>3, <3>2, <3>3, Numbers DEF LastHandle
    <3>5. \A x \in perThreadTransferVAs : x \in 1 .. threadCount + 2
      BY <2>2, <2>3 DEF UsersOfRun
    <3>. QED  BY <3>2, <3>4, <3>5
  <2>6. totalThreads' \in 0 .. MaxTotalThreads
    BY <1>1, <2>4 DEF HoldingInv, EntriesKnown
  <2>7. perThreadTransferVAs \subseteq UserThreads  BY DEF HoldingInv, EntriesKnown
  <2>. QED  BY <1>1, <2>2, <2>3, <2>5, <2>6, <2>7 DEF EntriesKnown
<1>. QED  BY <1>3, <1>4, <1>5 DEF HoldingInv

(* At the clean-up, what is released is what is held, and that is what is  *)
(* there.                                                                  *)
LEMMA ReleasedIsHeld ==
    ASSUME ThreadInv, HoldingInv, mainPC = "cleanup"
    PROVE  Released = Held /\ Held \subseteq allocated /\ allocated \subseteq Held \cup Token
<1>1. \A what \in pointers : Releasable(what)
  BY DEF HoldingInv, AcquiredInOrder, Within, Releasable
<1>2. /\ handles \cap 1 .. totalThreads = handles
      /\ perThreadTransferVAs \cap 1 .. totalThreads = perThreadTransferVAs
  BY DEF HoldingInv, EntriesKnown
<1>3. {what \in pointers : Releasable(what)} = pointers  BY <1>1
<1>4. Released = Held  BY <1>2, <1>3 DEF Released, Held
<1>. QED  BY <1>4 DEF HoldingInv, HeldKnown, Within

(* So nothing is left of it.                                               *)
LEMMA HoldingCleanUp == ASSUME ThreadInv, HoldingInv, CleanUp  PROVE HoldingInv'
<1>1. /\ mainPC = "cleanup" /\ mainPC' \in {"returned", "undefined"}
      /\ allocated' = allocated \ Released
      /\ pointers' = pointers \cap Locals /\ perThreadTransferVAs' = {}
      /\ totalThreads' = totalThreads
  BY DEF CleanUp, NotSetToNull
<1>2. allocated' \subseteq Token  BY <1>1, ReleasedIsHeld
<1>3. HeldKnown'  BY <1>1, <1>2 DEF HeldKnown, Token, Within, InRun
<1>4. AcquiredInOrder'  BY <1>1 DEF HoldingInv, AcquiredInOrder, Within, InRun
<1>5. EntriesKnown'  BY <1>1 DEF HoldingInv, EntriesKnown, InRun
<1>. QED  BY <1>3, <1>4, <1>5 DEF HoldingInv

(* The threads themselves hold nothing.                                    *)
LEMMA HoldingThreads ==
    ASSUME HoldingInv,
           \/ ServeFrames \/ (\E u \in UsersOfRun : NeedFrame(u) \/ UserStep(u))
           \/ (\E t \in Threads : EndOnShutdown(t)) \/ UNCHANGED vars
    PROVE  HoldingInv'
<1>1. UNCHANGED <<mainPC, sweep, step, holdings, creation>>
  BY DEF ServeFrames, NeedFrame, UserStep, AcquireCount, DecrementCount, LeaveThread,
     EndOnShutdown, ThreadStep, vars
<1>2. UNCHANGED <<mainPC, step, threadCount, allocated, pointers, perThreadTransferVAs,
                  totalThreads, handles>>
  BY <1>1 DEF sweep, holdings, creation
<1>. QED
  BY <1>2 DEF HoldingInv, HeldKnown, Held, Token, AcquiredInOrder, EntriesKnown, UsersOfRun

(* Every step keeps what is known of the holdings.                         *)
LEMMA HoldingNext == ASSUME ThreadInv, HoldingInv, [Next]_vars  PROVE HoldingInv'
BY HoldingBetween, HoldingStartUp, HoldingCreate, HoldingRun, HoldingCleanUp, HoldingThreads
   DEF Next, MainStep, Stopped

(* So it is in every state.                                                *)
LEMMA HoldingHolds == Spec => [](ThreadInv /\ HoldingInv)
BY ThreadInit, ThreadNext, HoldingInit, HoldingNext, PTL DEF Spec

(***************************************************************************)
(* A run gives back whatever it had acquired, wherever its start-up failed *)
(* and in a disturbed run as well: the goto cleanup of                     *)
(* full_virtual_memory_test, the tests that follow its label, and the      *)
(* number of threads cleanupThreadContexts is called with.                 *)
(***************************************************************************)
THEOREM RunsKeepNothing == Spec => []NothingIsKept
<1>1. HoldingInv => NothingIsKept  BY DEF HoldingInv, HeldKnown, Between, Token, NothingIsKept
<1>. QED  BY <1>1, HoldingHolds, PTL

(***************************************************************************)
(* Nor does a run release what it has not got: every pointer and flag the  *)
(* clean-up tests was set by this run, or set to NULL by an earlier one.   *)
(***************************************************************************)
THEOREM RunsReleaseTheirOwn == Spec => []OnlyHeldIsReleased
<1>1. ThreadInv /\ HoldingInv => OnlyHeldIsReleased
  BY ReleasedIsHeld DEF OnlyHeldIsReleased
<1>. QED  BY <1>1, HoldingHolds, PTL

-----------------------------------------------------------------------------
(* The sweep.                                                              *)

(***************************************************************************)
(* Within a sweep there is a run left to do with this thread count, and    *)
(* main only starts one with counts that threadInfoArray has room for.     *)
(***************************************************************************)
SweepInv ==
    /\ completed \in [UserThreads -> Nat]
    /\ run \in Nat /\ runsPerCount \in 0 .. ULONG64Modulus - 1 /\ run <= runsPerCount
    /\ mainPC = "start" => maxThreads = 0 /\ threadCount = 0
    /\ mainPC \notin {"start", "exit"} => run < runsPerCount
    /\ mainPC # "start" /\ Len(argv) < 2 =>
           maxThreads = NumberUserThreads /\ threadCount >= NumberUserThreads
    /\ SweepIsComplete

(* Nothing has been run when the program starts.                           *)
LEMMA SweepInit == Init => SweepInv
BY RunsAssumption, Numbers DEF Init, SweepInv, SweepIsComplete

(***************************************************************************)
(* main plans the sweep its arguments ask for; a text it accepts is a      *)
(* number that a ULONG64 holds, whatever its sign was.                     *)
(***************************************************************************)
LEMMA MainPlans == ASSUME ThreadInv, SweepInv, Main  PROVE SweepInv'
<1>1. /\ NumberUserThreads \in Nat \ {0} /\ ULONG64Modulus \in Nat
      /\ ULONG64Modulus > NumberUserThreads
  BY RunsAssumption
<1>2. /\ mainPC = "start" /\ completed \in [UserThreads -> Nat]
      /\ \A c \in UserThreads : c \in 1 .. NumberUserThreads /\ completed[c] = 0
      /\ argv' = argv /\ completed' = completed
  BY DEF SweepInv, SweepIsComplete, Main, UserThreads
<1>3. CASE Len(argv) < 2
  <2>1. /\ threadCount' = NumberUserThreads /\ maxThreads' = NumberUserThreads
        /\ runsPerCount' = 1 /\ run' = 0 /\ mainPC' = "run"
    BY <1>3 DEF Main, Plan
  <2>2. CountsAsked' = {NumberUserThreads}  BY <1>2, <1>3 DEF CountsAsked
  <2>3. SweepIsComplete'  BY <1>1, <1>2, <2>1, <2>2 DEF SweepIsComplete
  <2>. QED  BY <1>1, <1>2, <2>1, <2>3 DEF SweepInv
<1>4. CASE ~(Len(argv) < 2) /\ mainPC' = "run"
  <2>1. /\ Parses(argv[2]) /\ Accepts(Parsed(argv[1]), Parsed(argv[2]))
        /\ threadCount' = 1 /\ maxThreads' = Parsed(argv[1])
        /\ runsPerCount' = Parsed(argv[2]) /\ run' = 0
    BY <1>4 DEF Main, Plan
  <2>2. Parsed(argv[2]) \in 0 .. ULONG64Modulus - 1
    <3>1. argv[2] \in Int  BY <1>1, <2>1 DEF Parses
    <3>. QED  BY <3>1, CountWraps DEF Parsed
  <2>3. runsPerCount' # 0  BY <2>1 DEF Accepts
  <2>4. SweepIsComplete'  BY <1>1, <1>2, <2>1 DEF SweepIsComplete
  <2>5. ~(Len(argv') < 2)  BY <1>2, <1>4
  <2>. QED  BY <1>1, <1>2, <1>4, <2>1, <2>2, <2>3, <2>4, <2>5 DEF SweepInv
<1>5. CASE ~(Len(argv) < 2) /\ mainPC' = "exit"
  <2>1. threadCount' = 0 /\ maxThreads' = 0 /\ runsPerCount' = 0 /\ run' = 0
    BY <1>5 DEF Main, Plan
  <2>2. SweepIsComplete'  BY <1>1, <1>2, <2>1 DEF SweepIsComplete
  <2>3. ~(Len(argv') < 2)  BY <1>2, <1>5
  <2>. QED  BY <1>1, <1>2, <1>5, <2>1, <2>2, <2>3 DEF SweepInv
<1>. QED  BY <1>3, <1>4, <1>5 DEF Main

(***************************************************************************)
(* A run that has returned is done, and the next one is with the same      *)
(* thread count or, when those are done, with one more.                    *)
(***************************************************************************)
LEMMA EndRunCounts == ASSUME ThreadInv, SweepInv, EndRun  PROVE SweepInv'
<1>1. /\ NumberUserThreads \in Nat \ {0} /\ ULONG64Modulus \in Nat
      /\ maxThreads \in 0 .. NumberUserThreads /\ threadCount \in 1 .. maxThreads
      /\ run \in Nat /\ runsPerCount \in Nat /\ run < runsPerCount
      /\ completed \in [UserThreads -> Nat] /\ threadCount \in UserThreads
  <2>1. /\ maxThreads \in 0 .. NumberUserThreads /\ threadCount \in 1 .. maxThreads
        /\ run \in Nat /\ run < runsPerCount /\ completed \in [UserThreads -> Nat]
    BY DEF EndRun, ThreadInv, RunTyped, CountInBounds, SweepInv
  <2>2. runsPerCount \in Nat  BY RunsAssumption DEF SweepInv
  <2>. QED  BY <2>1, <2>2, RunsAssumption DEF UserThreads
<1>2. /\ completed' = [completed EXCEPT ![threadCount] = @ + 1]
      /\ UNCHANGED <<argv, maxThreads, runsPerCount>>
      /\ mainPC' = IF threadCount' <= maxThreads THEN "run" ELSE "exit"
      /\ \/ run + 1 < runsPerCount /\ run' = run + 1 /\ threadCount' = threadCount
         \/ ~(run + 1 < runsPerCount) /\ run' = 0 /\ threadCount' = threadCount + 1
  BY DEF EndRun, NextRun
<1>3. Len(argv) < 2 => maxThreads = NumberUserThreads /\ threadCount >= NumberUserThreads
  BY DEF EndRun, SweepInv
<1>4. /\ CountsAsked' = CountsAsked /\ threadCount \in CountsAsked
      /\ \A c \in CountsAsked : c \in 1 .. maxThreads
  BY <1>1, <1>2, <1>3 DEF CountsAsked
<1>5. ASSUME NEW c \in UserThreads
      PROVE  completed'[c] = IF c \notin CountsAsked \/ c > threadCount' THEN 0
                             ELSE IF c = threadCount' THEN run' ELSE runsPerCount
  <2>1. c \in 1 .. NumberUserThreads  BY DEF UserThreads
  <2>2. completed[c] = IF c \notin CountsAsked \/ c > threadCount THEN 0
                       ELSE IF c = threadCount THEN run ELSE runsPerCount
    BY DEF SweepInv, SweepIsComplete
  <2>3. completed'[c] = IF c = threadCount THEN run + 1 ELSE completed[c]
    BY <1>1, <1>2, <1>4, <2>2
  <2>4. CASE run + 1 < runsPerCount /\ run' = run + 1 /\ threadCount' = threadCount
    BY <1>1, <1>4, <2>1, <2>2, <2>3, <2>4
  <2>5. CASE ~(run + 1 < runsPerCount) /\ run' = 0 /\ threadCount' = threadCount + 1
    <3>1. run + 1 = runsPerCount  BY <1>1, <2>5
    <3>. QED  BY <1>1, <1>4, <2>1, <2>2, <2>3, <2>5, <3>1
  <2>. QED  BY <1>2, <2>4, <2>5
<1>6. completed' \in [UserThreads -> Nat]
  <2>1. completed[threadCount] + 1 \in Nat  BY <1>1
  <2>. QED  BY <1>1, <1>2, <2>1
<1>7. /\ run' \in Nat /\ run' <= runsPerCount /\ mainPC' \in {"run", "exit"}
      /\ mainPC' # "exit" => run' < runsPerCount
      /\ Len(argv) < 2 => threadCount' >= NumberUserThreads
  <2>1. mainPC' = "run" => threadCount' <= maxThreads  BY <1>2
  <2>. QED  BY <1>1, <1>2, <1>3, <2>1
<1>8. runsPerCount' \in 0 .. ULONG64Modulus - 1  BY <1>2 DEF SweepInv
<1>9. SweepIsComplete'  BY <1>2, <1>4, <1>5 DEF SweepIsComplete
<1>. QED  BY <1>2, <1>3, <1>6, <1>7, <1>8, <1>9 DEF SweepInv

(***************************************************************************)
(* What happens within a run, and its threads, leaves the sweep alone.     *)
(***************************************************************************)
LEMMA SweepStays ==
    ASSUME ThreadInv, SweepInv, UNCHANGED sweep,
           \/ mainPC' = mainPC
           \/ mainPC \notin {"start", "exit"} /\ mainPC' \notin {"start", "exit"}
    PROVE  SweepInv'
<1>1. UNCHANGED <<argv, maxThreads, runsPerCount, threadCount, run, completed>>
  BY DEF sweep
<1>. QED  BY <1>1 DEF SweepInv, SweepIsComplete, CountsAsked

(* Every step keeps the count of the sweep.                                *)
LEMMA SweepNext == ASSUME ThreadInv, SweepInv, [Next]_vars  PROVE SweepInv'
<1>1. CASE Main  BY <1>1, MainPlans
<1>2. CASE EndRun  BY <1>2, EndRunCounts
<1>3. CASE BeginRun \/ GetPrivilege \/ Acquire \/ AcquireFails \/ StartedUp
  BY <1>3, SweepStays DEF BeginRun, GetPrivilege, Acquire, AcquireFails, StartedUp, ToStart
<1>4. CASE CreateThread \/ ReadCount \/ WriteCount \/ WaitForShutdown \/ WaitForThreads
  BY <1>4, SweepStays DEF CreateThread, AfterCreation, ReadCount, WriteCount, WaitForShutdown,
     WaitForThreads
<1>5. CASE CleanUp  BY <1>5, SweepStays DEF CleanUp
<1>6. CASE \/ ServeFrames \/ (\E u \in UsersOfRun : NeedFrame(u) \/ UserStep(u))
           \/ (\E t \in Threads : EndOnShutdown(t)) \/ UNCHANGED vars
  <2>1. UNCHANGED sweep /\ mainPC' = mainPC
    BY <1>6 DEF ServeFrames, NeedFrame, UserStep, AcquireCount, DecrementCount, LeaveThread,
       EndOnShutdown, ThreadStep, vars
  <2>. QED  BY <2>1, SweepStays
<1>. QED  BY <1>1, <1>2, <1>3, <1>4, <1>5, <1>6 DEF Next, MainStep, Stopped

(* So it is in every state.                                                *)
LEMMA SweepHolds == Spec => [](ThreadInv /\ SweepInv)
BY ThreadInit, ThreadNext, SweepInit, SweepNext, PTL DEF Spec

(***************************************************************************)
(* RunThreadSweep makes the runs its arguments ask for, in their order and *)
(* failed ones included, for any number of threads and of runs.            *)
(***************************************************************************)
THEOREM SweepRunsAll == Spec => []SweepIsComplete
<1>1. SweepInv => SweepIsComplete  BY DEF SweepInv
<1>. QED  BY <1>1, SweepHolds, PTL

-----------------------------------------------------------------------------
(* The types of the program's state.                                       *)

(* main creates no more threads than threadInfoArray has entries, though   *)
(* it never compares the two.                                              *)
RestTyped ==
    /\ argv \in Arguments
    /\ numCreated <= MaxTotalThreads
    /\ threadCountLock \in 0 .. NumberUserThreads
    /\ shutdownProgramEvent \in BOOLEAN /\ endedEarly \in BOOLEAN /\ notCreated \in BOOLEAN

(* At the start nothing is created or counted.                             *)
LEMMA RestInit == Init => RestTyped
<1>1. NumberUserThreads \in Nat /\ 0 <= MaxTotalThreads /\ 0 \in 0 .. NumberUserThreads
  BY Numbers
<1>. QED  BY <1>1 DEF Init, RestTyped

(* The start-up creates no threads.                                        *)
LEMMA StartUpTyped ==
    ASSUME ThreadInv, RestTyped, GetPrivilege \/ Acquire \/ AcquireFails \/ StartedUp
    PROVE  RestTyped'
BY DEF GetPrivilege, Acquire, AcquireFails, StartedUp, ToStart, sweep, creation, counting,
   RestTyped

(* createThreads stays within threadInfoArray.                             *)
LEMMA MainTyped ==
    ASSUME ThreadInv, RestTyped,
           \/ Main \/ BeginRun \/ EndRun \/ CreateThread \/ ReadCount \/ WriteCount
           \/ WaitForShutdown \/ WaitForThreads \/ CleanUp
    PROVE  RestTyped'
<1>1. /\ UNCHANGED <<argv, threadCountLock, endedEarly, shutdownProgramEvent>>
      /\ notCreated' \in BOOLEAN
  BY DEF Main, BeginRun, EndRun, CreateThread, ReadCount, WriteCount, WaitForShutdown,
     WaitForThreads, CleanUp, sweep, creation, counting, RestTyped
<1>2. numCreated' <= MaxTotalThreads
  <2>1. CASE Main \/ BeginRun \/ EndRun \/ ReadCount \/ WaitForShutdown \/ WaitForThreads
    <3>1. numCreated' = numCreated
      BY <2>1 DEF Main, BeginRun, EndRun, ReadCount, WaitForShutdown, WaitForThreads, creation
    <3>. QED  BY <3>1 DEF RestTyped
  <2>2. CASE CreateThread
    <3>1. /\ numCreated < threadCount + 2 /\ threadCount \in 1 .. NumberUserThreads
          /\ numCreated \in Nat /\ numCreated' \in {numCreated, numCreated + 1}
      BY <2>2, Numbers DEF CreateThread, AfterCreation, ThreadInv, RunTyped, CountInBounds
    <3>. QED  BY <3>1, Numbers
  <2>3. CASE WriteCount
    <3>1. /\ numCreated + 1 <= threadCount + 2 /\ numCreated' = numCreated + 1
          /\ numCreated \in Nat /\ threadCount \in 1 .. NumberUserThreads
      BY <2>3, Numbers DEF WriteCount, ThreadInv, RunTyped, CountInBounds, HandlesInOrder,
         LastHandle, Counted, InRun
    <3>. QED  BY <3>1, Numbers
  <2>4. CASE CleanUp
    <3>1. numCreated' = 0  BY <2>4 DEF CleanUp
    <3>. QED  BY <3>1, Numbers
  <2>. QED  BY <2>1, <2>2, <2>3, <2>4
<1>. QED  BY <1>1, <1>2 DEF RestTyped

(* Only a user thread of this run takes the lock.                          *)
LEMMA ThreadsTyped ==
    ASSUME ThreadInv, RestTyped,
           \/ ServeFrames \/ (\E u \in UsersOfRun : NeedFrame(u) \/ UserStep(u))
           \/ (\E t \in Threads : EndOnShutdown(t)) \/ UNCHANGED vars
    PROVE  RestTyped'
<1>1. /\ UNCHANGED <<argv, numCreated, notCreated>>
      /\ shutdownProgramEvent' \in BOOLEAN /\ endedEarly' \in BOOLEAN
  BY DEF ServeFrames, NeedFrame, UserStep, AcquireCount, DecrementCount, LeaveThread,
     EndOnShutdown, ThreadStep, vars, sweep, creation, RestTyped
<1>2. threadCountLock' \in {0, threadCountLock} \cup UserThreads
  <2>1. CASE ServeFrames \/ (\E t \in Threads : EndOnShutdown(t)) \/ UNCHANGED vars
    BY <2>1 DEF ServeFrames, EndOnShutdown, vars, counting
  <2>2. ASSUME NEW u \in UsersOfRun, NeedFrame(u) \/ UserStep(u)
        PROVE  threadCountLock' \in {0, threadCountLock} \cup UserThreads
    <3>1. CASE AcquireCount(u)
      <4>1. u \in Threads /\ thread[u] = "running" /\ threadCountLock' = u
        BY <3>1, RunHasEntries DEF AcquireCount
      <4>2. mainPC \notin Quiet  BY <4>1 DEF ThreadInv, NoThreads
      <4>3. threadCount \in 1 .. NumberUserThreads
        BY <4>2, Numbers DEF ThreadInv, RunTyped, CountInBounds, Quiet
      <4>. QED  BY <4>1, <4>3, Numbers DEF UsersOfRun, UserThreads
    <3>2. CASE NeedFrame(u) \/ DecrementCount(u) \/ LeaveThread(u)
      BY <3>2 DEF NeedFrame, DecrementCount, LeaveThread, counting
    <3>. QED  BY <2>2, <3>1, <3>2 DEF UserStep
  <2>. QED  BY <2>1, <2>2
<1>3. threadCountLock' \in 0 .. NumberUserThreads
  BY <1>2, Numbers DEF RestTyped, UserThreads
<1>. QED  BY <1>1, <1>3 DEF RestTyped

(* Every step keeps the types.                                             *)
LEMMA RestNext == ASSUME ThreadInv, RestTyped, [Next]_vars  PROVE RestTyped'
BY StartUpTyped, MainTyped, ThreadsTyped DEF Next, MainStep, Stopped

(***************************************************************************)
(* The program stays within its types, for any number of threads, any      *)
(* arguments and any calls that fail: threadInfoArray has an entry for     *)
(* every thread that is created, and the counts are those a ULONG64 holds. *)
(***************************************************************************)
THEOREM ProgramTyped == Spec => []TypeOK
<1>1. ThreadInv /\ CountInv /\ SweepInv /\ HoldingInv /\ RestTyped => TypeOK
  <2>1. SUFFICES ASSUME ThreadInv, CountInv, SweepInv, HoldingInv, RestTyped
                 PROVE  TypeOK
    OBVIOUS
  <2>2. NumberUserThreads \in Nat /\ ULONG64Modulus \in Nat /\ ULONG64Modulus > NumberUserThreads
    BY RunsAssumption
  <2>3. completed \in [UserThreads -> 0 .. ULONG64Modulus]
    <3>1. ASSUME NEW c \in UserThreads  PROVE completed[c] \in 0 .. ULONG64Modulus
      <4>1. /\ run \in Nat /\ runsPerCount \in 0 .. ULONG64Modulus - 1
            /\ run <= runsPerCount /\ completed[c] \in {0, run, runsPerCount}
        BY <2>1 DEF SweepInv, SweepIsComplete
      <4>. QED  BY <2>2, <4>1
    <3>2. completed \in [UserThreads -> Nat]  BY <2>1 DEF SweepInv
    <3>. QED  BY <3>1, <3>2
  <2>4. /\ numCreated \in 0 .. MaxTotalThreads
        /\ step \in 0 .. Len(StartUp)
    BY <2>1, Numbers DEF ThreadInv, RunTyped, RestTyped
  <2>5. allocated \subseteq ((Pieces \cup {"token"}) \X {0})
                               \cup ({"ThreadHandle", "perThreadTransferVAs"} \X Threads)
    <3>1. allocated \subseteq Held \cup Token
      BY <2>1 DEF HoldingInv, HeldKnown, ThreadInv, RunTyped, MainPCs, Between, Within, InRun
    <3>2. /\ pointers \subseteq Pieces /\ handles \subseteq Threads
          /\ perThreadTransferVAs \subseteq Threads
      BY <2>1, Numbers
         DEF HoldingInv, AcquiredInOrder, EntriesKnown, ThreadInv, RunTyped, UserThreads
    <3>. QED  BY <3>1, <3>2 DEF Held, Token, ForThreads
  <2>6. /\ pointers \subseteq Pieces /\ perThreadTransferVAs \subseteq UserThreads
        /\ totalThreads \in 0 .. MaxTotalThreads
    BY <2>1 DEF HoldingInv, AcquiredInOrder, EntriesKnown
  <2>. QED
    BY <2>1, <2>2, <2>3, <2>4, <2>5, <2>6
       DEF TypeOK, ThreadInv, RunTyped, CountInBounds, MainPCs, ThreadStates, CountInv,
           CountTyped, SweepInv, RestTyped
<1>. QED
  BY <1>1, ThreadInit, ThreadNext, CountInit, CountNext, SweepHolds, HoldingHolds, RestInit, RestNext, PTL
     DEF Spec
===============================================================================
