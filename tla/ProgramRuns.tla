------------------------------ MODULE ProgramRuns ------------------------------
(***************************************************************************)
(* The life of the program around the threads of VirtualMemory: main and   *)
(* its arguments, the sweep over numbers of user threads, and for each run *)
(* its start-up, the creation and counting of threads, their end and the   *)
(* clean-up (vm.c, initialize.c, shutdownUserThread).                      *)
(*                                                                         *)
(* What the threads do in between is left to VirtualMemory: here a user    *)
(* thread runs, may wait for the trim and the disk thread, and ends.       *)
(*                                                                         *)
(* Two things disturb a run: a thread cannot be created, and a user thread *)
(* ends before main has counted all of them, which main does without       *)
(* threadCountLock.  After either, main or a thread may wait for ever, or  *)
(* main may free what threads still use, where the model stops.            *)
(*                                                                         *)
(* Some operators have a wrong form just before them, which no action      *)
(* uses: put in the place of the right one it breaks a property.           *)
(***************************************************************************)
EXTENDS Integers, FiniteSets, Sequences, SequencesExt

CONSTANTS
    NumberUserThreads,   (* NUMBER_USER_THREADS                            *)
    ULONG64Modulus,      (* one more than the largest ULONG64              *)
    Arguments,           (* the arguments main may get: sequences of texts *)
    CanFail,             (* the calls of the system that may fail          *)
    Junk                 (* a text that is not a number                    *)

(* The entries of threadInfoArray, from 1: the user threads of a run, then *)
(* its trim and its disk thread.  0 is main, or no thread.                 *)
MaxTotalThreads == NumberUserThreads + 2
Threads == 1 .. MaxTotalThreads
UserThreads == 1 .. NumberUserThreads

(* The start-up of a run, in its order, what each step of it acquires, and *)
(* what may fail.                                                          *)
StartUp == <<"section", "arrays", "physicalPages", "va", "listsAndPFNs", "diskSpace",
             "events", "locks">>
Checked == {"section", "physicalPages", "va"}
Arrays == {"physical_page_numbers", "DebugCheckPageArray"}

Acquired(what) ==
    CASE what = "arrays" -> Arrays
      [] what = "listsAndPFNs" -> {"pageTable", "pfnArray"}
      [] what = "diskSpace" -> {"transferVA", "writeTransferVA", "totalDiskSpace", "diskSlotBitmap"}
      [] OTHER -> {what}

Pieces == UNION {Acquired(what) : what \in Range(StartUp)}

(* The local variables of full_virtual_memory_test among what says that a  *)
(* piece is there: physical_page_handle and physicalPagesAllocated.        *)
Locals == {"section", "physicalPages"}

ASSUME RunsAssumption ==
    /\ NumberUserThreads \in Nat \ {0}
    /\ ULONG64Modulus \in Nat /\ ULONG64Modulus > NumberUserThreads
    /\ Arguments # {}
    /\ CanFail \subseteq Checked \cup Arrays \cup {"token", "privilege", "thread"}

VARIABLES
    mainPC,               (* where main is                                 *)
    argv,                 (* its arguments                                 *)
    maxThreads, runsPerCount, threadCount, run,  (* where the sweep is     *)
    step,                 (* how much of StartUp is done                   *)
    allocated,            (* what is really acquired and not yet released: *)
                          (* a piece, for the run (0) or for a thread      *)
    pointers,             (* the pieces whose pointer or flag is set       *)
    perThreadTransferVAs, (* the threads where this pointer is set         *)
    totalThreads,         (* totalThreadsThisRun                           *)
    numCreated,           (* how many entries of threadInfoArray are set   *)
    handles,              (* the threads whose handle is not NULL          *)
    thread,               (* what each thread does                         *)
    numActiveUserThreads, copy,   (* the count, and a copy in a register   *)
    threadCountLock,
    shutdownProgramEvent,
    endedEarly, notCreated,       (* history: what disturbed the run       *)
    completed             (* history: the runs done with each thread count *)

sweep == <<argv, maxThreads, runsPerCount, threadCount, run, completed>>
counting == <<numActiveUserThreads, copy, threadCountLock>>
creation == <<numCreated, handles, notCreated>>
holdings == <<allocated, pointers, perThreadTransferVAs, totalThreads>>
vars == <<mainPC, sweep, step, holdings, creation, thread, counting,
          shutdownProgramEvent, endedEarly>>

Disturbed == endedEarly \/ notCreated

UsersOfRun == 1 .. threadCount
TrimThread == threadCount + 1
DiskThread == threadCount + 2
ThreadsOfRun == 1 .. threadCount + 2
Alive == {t \in Threads : thread[t] \notin {"none", "done"}}

Init ==
    /\ mainPC = "start"
    /\ argv \in Arguments
    /\ maxThreads = 0 /\ runsPerCount = 0 /\ threadCount = 0 /\ run = 0
    /\ step = 0
    /\ allocated = {} /\ pointers = {} /\ perThreadTransferVAs = {} /\ totalThreads = 0
    /\ numCreated = 0 /\ handles = {}
    /\ thread = [t \in Threads |-> "none"]
    /\ numActiveUserThreads = 0 /\ threadCountLock = 0
    /\ copy = [t \in 0 .. NumberUserThreads |-> 0]
    /\ shutdownProgramEvent = FALSE
    /\ endedEarly = FALSE /\ notCreated = FALSE
    /\ completed = [c \in UserThreads |-> 0]

-----------------------------------------------------------------------------
(* main and RunThreadSweep.                                                *)

(* ParseUnsignedArgument: _strtoui64 takes a minus sign as well.           *)
Parses(text) == text # Junk /\ text \in -ULONG64Modulus + 1 .. ULONG64Modulus - 1
Parsed(text) == text % ULONG64Modulus

AcceptsAny(max, runs) == TRUE
Accepts(max, runs) == max \in 1 .. NumberUserThreads /\ runs # 0

(* Plan a sweep of so many runs with each thread count from first to last. *)
Plan(first, last, runs) ==
    /\ threadCount' = first /\ maxThreads' = last
    /\ runsPerCount' = runs /\ run' = 0

Main ==
    /\ mainPC = "start"
    /\ IF Len(argv) < 2
       THEN Plan(NumberUserThreads, NumberUserThreads, 1) /\ mainPC' = "run"
       ELSE IF /\ Parses(argv[1]) /\ Parses(argv[2])
               /\ Accepts(Parsed(argv[1]), Parsed(argv[2]))
       THEN Plan(1, Parsed(argv[1]), Parsed(argv[2])) /\ mainPC' = "run"
       ELSE Plan(0, 0, 0) /\ mainPC' = "exit"
    /\ UNCHANGED <<argv, completed, step, holdings, creation, thread, counting,
                   shutdownProgramEvent, endedEarly>>

(* full_virtual_memory_test: its local variables are fresh, the others as  *)
(* the previous run has left them.                                         *)
BeginRun ==
    /\ mainPC = "run"
    /\ mainPC' = "privilege"
    /\ step' = 0
    /\ pointers' = pointers \ Locals /\ totalThreads' = 0
    /\ numActiveUserThreads' = 0
    /\ UNCHANGED <<sweep, allocated, perThreadTransferVAs, creation, thread, copy,
                   threadCountLock, shutdownProgramEvent, endedEarly>>

NextRunForgetsCount(t) == threadCount' = t + 1 /\ UNCHANGED run
NextRun(t) ==
    IF run + 1 < runsPerCount THEN run' = run + 1 /\ UNCHANGED threadCount
    ELSE run' = 0 /\ threadCount' = t + 1

EndRun ==
    /\ mainPC = "returned"
    /\ completed' = [completed EXCEPT ![threadCount] = @ + 1]
    /\ NextRun(threadCount)
    /\ mainPC' = IF threadCount' <= maxThreads THEN "run" ELSE "exit"
    /\ UNCHANGED <<argv, maxThreads, runsPerCount, step, holdings, creation, thread,
                   counting, shutdownProgramEvent, endedEarly>>

-----------------------------------------------------------------------------
(* The start-up of a run.                                                  *)

ToStart(pc, got) ==
    /\ mainPC' = pc
    /\ allocated' = allocated \cup (got \X {0}) /\ pointers' = pointers \cup (got \ {"token"})
    /\ UNCHANGED <<sweep, perThreadTransferVAs, totalThreads, creation, thread, counting,
                   endedEarly>>

(* GetPrivilege closes the token, but on its error paths; no one else has  *)
(* its handle.                                                             *)
GetPrivilege ==
    /\ mainPC = "privilege"
    /\ \/ ToStart("startUp", {})
       \/ "token" \in CanFail /\ ToStart("cleanup", {})
       \/ "privilege" \in CanFail /\ ToStart("cleanup", {"token"})
    /\ UNCHANGED <<step, shutdownProgramEvent>>

Acquire ==
    LET what == StartUp[step + 1] IN
    /\ mainPC = "startUp" /\ step < Len(StartUp)
    /\ ToStart("startUp", Acquired(what))
    /\ step' = step + 1
    /\ shutdownProgramEvent' = (shutdownProgramEvent /\ what # "events")

(* goto cleanup: a call fails, or one of the two arrays or both.           *)
AcquireFails ==
    LET what == StartUp[step + 1] IN
    /\ mainPC = "startUp" /\ step < Len(StartUp)
    /\ \/ what \in CanFail /\ ToStart("cleanup", {})
       \/ /\ what = "arrays"
          /\ \E got \in SUBSET Arrays :
                Arrays \ got # {} /\ Arrays \ got \subseteq CanFail /\ ToStart("cleanup", got)
    /\ UNCHANGED <<step, shutdownProgramEvent>>

StartedUp ==
    /\ mainPC = "startUp" /\ step = Len(StartUp)
    /\ mainPC' = "create"
    /\ UNCHANGED <<sweep, step, holdings, creation, thread, counting,
                   shutdownProgramEvent, endedEarly>>

-----------------------------------------------------------------------------
(* createThreads: the user threads, each counted after it was created,     *)
(* then the trim and the disk thread.                                      *)

AfterCreation(t) ==
    IF t \in UsersOfRun THEN mainPC' = "readCount" /\ UNCHANGED numCreated
    ELSE mainPC' = "create" /\ numCreated' = t

(* A user thread has its own transfer addresses, which are reserved before *)
(* it.  A thread that cannot be created is counted all the same.           *)
OwnTransferVAs(t) == {t} \cap UsersOfRun
ForThreads(what, threads) == {what} \X threads

CreateThread ==
    LET t == numCreated + 1 IN
    /\ mainPC = "create" /\ numCreated < threadCount + 2
    /\ perThreadTransferVAs' = perThreadTransferVAs \cup OwnTransferVAs(t)
    /\ \/ /\ thread' = [thread EXCEPT ![t] = "running"]
          /\ handles' = handles \cup {t}
          /\ UNCHANGED notCreated
       \/ /\ "thread" \in CanFail
          /\ notCreated' = TRUE
          /\ UNCHANGED <<thread, handles>>
    /\ allocated' = allocated \cup ForThreads("perThreadTransferVAs", OwnTransferVAs(t))
                               \cup ForThreads("ThreadHandle", handles' \ handles)
    /\ AfterCreation(t)
    /\ UNCHANGED <<sweep, step, pointers, totalThreads, counting, shutdownProgramEvent, endedEarly>>

(* numActiveUserThreads++ under no lock: a load and a store.               *)
ReadCount ==
    /\ mainPC = "readCount"
    /\ copy' = [copy EXCEPT ![0] = numActiveUserThreads]
    /\ mainPC' = "writeCount"
    /\ UNCHANGED <<sweep, step, holdings, creation, thread, numActiveUserThreads,
                   threadCountLock, shutdownProgramEvent, endedEarly>>

WriteCount ==
    /\ mainPC = "writeCount"
    /\ numActiveUserThreads' = (copy[0] + 1) % ULONG64Modulus
    /\ numCreated' = numCreated + 1
    /\ mainPC' = "create"
    /\ UNCHANGED <<sweep, step, holdings, handles, notCreated, thread, copy,
                   threadCountLock, shutdownProgramEvent, endedEarly>>

(* initThreads waits for the shutdown event, and only then the run notes   *)
(* for its clean-up how many threads it has ...                            *)
UserThreadsOnly == threadCount
TotalThreads == threadCount + 2

WaitForShutdown ==
    /\ mainPC = "create" /\ numCreated = threadCount + 2
    /\ shutdownProgramEvent
    /\ totalThreads' = TotalThreads
    /\ mainPC' = "waitThreads"
    /\ UNCHANGED <<sweep, step, allocated, pointers, perThreadTransferVAs, creation, thread,
                   counting, shutdownProgramEvent, endedEarly>>

(* ... and the run for all its threads.  With a NULL handle the wait fails *)
(* at once.                                                                *)
AnyThreadEnded == \E t \in handles : thread[t] = "done"
AllThreadsEnded == ThreadsOfRun \subseteq handles => \A t \in handles : thread[t] = "done"

WaitForThreads ==
    /\ mainPC = "waitThreads"
    /\ AllThreadsEnded
    /\ mainPC' = "cleanup"
    /\ UNCHANGED <<sweep, step, holdings, creation, thread, counting,
                   shutdownProgramEvent, endedEarly>>

-----------------------------------------------------------------------------
(* The clean-up releases each piece whose pointer or flag says that it is  *)
(* there, the physical pages only with their numbers and section, and what *)
(* belongs to the threads the run has noted.  Then it sets the pointers to *)
(* NULL, all but the local variables.                                      *)
Releasable(what) ==
    what = "physicalPages" => {"physical_page_numbers", "section"} \subseteq pointers

Released ==
    ({what \in pointers : Releasable(what)} \X {0})
        \cup ForThreads("ThreadHandle", handles \cap 1 .. totalThreads)
        \cup ForThreads("perThreadTransferVAs", perThreadTransferVAs \cap 1 .. totalThreads)

NotSetToNullNumbers == Locals \cup {"physical_page_numbers"}
NotSetToNull == Locals

CleanUp ==
    /\ mainPC = "cleanup"
    /\ allocated' = allocated \ Released
    /\ pointers' = pointers \cap NotSetToNull
    /\ perThreadTransferVAs' = {}
    /\ mainPC' = IF Alive = {} THEN "returned" ELSE "undefined"
    /\ numCreated' = 0 /\ handles' = {}
    /\ thread' = [t \in Threads |-> IF thread[t] = "done" THEN "none" ELSE thread[t]]
    /\ numActiveUserThreads' = 0
    /\ UNCHANGED <<sweep, step, totalThreads, notCreated, copy, threadCountLock,
                   shutdownProgramEvent, endedEarly>>

-----------------------------------------------------------------------------
(* The threads.                                                            *)

ThreadStep(t, next) ==
    /\ thread' = [thread EXCEPT ![t] = next]
    /\ UNCHANGED <<mainPC, sweep, step, holdings, creation>>

(* A user thread that finds no frame asks for the trim and the disk        *)
(* thread's work and waits for it.                                         *)
NeedFrame(u) ==
    /\ thread[u] = "running"
    /\ ThreadStep(u, "waiting")
    /\ UNCHANGED <<counting, shutdownProgramEvent, endedEarly>>

ServeFrames ==
    /\ thread[TrimThread] = "running" /\ thread[DiskThread] = "running"
    /\ \E u \in UsersOfRun : thread[u] = "waiting"
    /\ thread' = [t \in Threads |-> IF thread[t] = "waiting" THEN "running" ELSE thread[t]]
    /\ UNCHANGED <<mainPC, sweep, step, holdings, creation, counting,
                   shutdownProgramEvent, endedEarly>>

(* shutdownUserThread, under threadCountLock, which main does not take.    *)
AcquireCount(u) ==
    /\ u \in UsersOfRun /\ thread[u] = "running" /\ threadCountLock = 0
    /\ ThreadStep(u, "counting")
    /\ threadCountLock' = u
    /\ copy' = [copy EXCEPT ![u] = numActiveUserThreads]
    /\ endedEarly' = (endedEarly \/ numCreated < threadCount)
    /\ UNCHANGED <<numActiveUserThreads, shutdownProgramEvent>>

IsLastAlways(count) == TRUE
IsLastButOne(count) == count = 1
IsLast(count) == count = 0

DecrementCount(u) ==
    /\ thread[u] = "counting"
    /\ ThreadStep(u, "leaving")
    /\ numActiveUserThreads' = (copy[u] - 1) % ULONG64Modulus
    /\ shutdownProgramEvent' = (shutdownProgramEvent \/ IsLast(numActiveUserThreads'))
    /\ UNCHANGED <<copy, threadCountLock, endedEarly>>

LeaveThread(u) ==
    /\ thread[u] = "leaving"
    /\ ThreadStep(u, "done")
    /\ threadCountLock' = 0
    /\ UNCHANGED <<numActiveUserThreads, copy, shutdownProgramEvent, endedEarly>>

UserStep(u) == AcquireCount(u) \/ DecrementCount(u) \/ LeaveThread(u)

(* The trim and the disk thread end when they see the shutdown event.      *)
EndOnShutdown(t) ==
    /\ t \in {TrimThread, DiskThread} /\ thread[t] = "running"
    /\ shutdownProgramEvent
    /\ ThreadStep(t, "done")
    /\ UNCHANGED <<counting, shutdownProgramEvent, endedEarly>>

-----------------------------------------------------------------------------
MainStep ==
    \/ Main \/ BeginRun \/ EndRun
    \/ GetPrivilege \/ Acquire \/ AcquireFails \/ StartedUp
    \/ CreateThread \/ ReadCount \/ WriteCount \/ WaitForShutdown \/ WaitForThreads
    \/ CleanUp

(* main has returned, or the run was disturbed and may hang.               *)
Stopped == (mainPC = "exit" \/ Disturbed) /\ UNCHANGED vars

Next ==
    \/ /\ mainPC # "undefined"
       /\ \/ MainStep \/ ServeFrames
          \/ \E u \in UsersOfRun : NeedFrame(u) \/ UserStep(u)
          \/ \E t \in Threads : EndOnShutdown(t)
    \/ Stopped

Spec == Init /\ [][Next]_vars

(***************************************************************************)
(* main and the threads keep running, waiting threads are served, and a    *)
(* user thread that is not stuck reaches the end of its iterations.        *)
(***************************************************************************)
FairSpec ==
    /\ Spec
    /\ WF_vars(MainStep) /\ WF_vars(ServeFrames)
    /\ \A u \in UserThreads : SF_vars(UserStep(u))
    /\ \A t \in Threads : WF_vars(EndOnShutdown(t))
=============================================================================
