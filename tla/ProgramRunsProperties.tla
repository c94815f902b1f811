------------------------- MODULE ProgramRunsProperties -------------------------
(***************************************************************************)
(* What the program's start, runs and end must guarantee.                  *)
(***************************************************************************)
EXTENDS ProgramRuns

TypeOK ==
    /\ mainPC \in {"start", "run", "privilege", "startUp", "create", "readCount", "writeCount",
                   "waitThreads", "cleanup", "returned", "undefined", "exit"}
    /\ argv \in Arguments
    /\ maxThreads \in 0 .. NumberUserThreads
    /\ runsPerCount \in 0 .. ULONG64Modulus - 1
    /\ threadCount \in 0 .. NumberUserThreads + 1
    /\ run \in Nat
    /\ step \in 0 .. Len(StartUp)
    /\ allocated \subseteq
           ((Pieces \cup {"token"}) \X {0})
               \cup ({"ThreadHandle", "perThreadTransferVAs"} \X Threads)
    /\ pointers \subseteq Pieces
    /\ perThreadTransferVAs \subseteq UserThreads
    /\ totalThreads \in 0 .. MaxTotalThreads
    /\ numCreated \in 0 .. MaxTotalThreads
    /\ handles \subseteq Threads
    /\ thread \in [Threads -> {"none", "running", "waiting", "counting", "leaving", "done"}]
    /\ numActiveUserThreads \in 0 .. ULONG64Modulus - 1
    /\ copy \in [0 .. NumberUserThreads -> 0 .. ULONG64Modulus - 1]
    /\ threadCountLock \in 0 .. NumberUserThreads
    /\ shutdownProgramEvent \in BOOLEAN /\ endedEarly \in BOOLEAN /\ notCreated \in BOOLEAN
    /\ completed \in [UserThreads -> 0 .. ULONG64Modulus]

(***************************************************************************)
(* The shutdown event is signalled by the last user thread to end, and it  *)
(* is that of this run: the trim and the disk thread are there for as long *)
(* as a user thread may need a frame.  Of the code: numActiveUserThreads   *)
(* counts what createThreads has created, though it counts without the     *)
(* lock and after the fact, when no user thread ends meanwhile.            *)
(***************************************************************************)
InRun == {"create", "readCount", "writeCount", "waitThreads"}

ShutdownComesLast ==
    ~Disturbed /\ mainPC \in InRun /\ shutdownProgramEvent =>
        /\ numCreated >= threadCount
        /\ \A u \in 1 .. threadCount : thread[u] \in {"leaving", "done"}

(***************************************************************************)
(* main frees the locks, events and memory of a run only after all threads *)
(* of the run have ended, the one that signalled the end included, which   *)
(* still holds threadCountLock at that moment.  So it is also when a user  *)
(* thread ends while main is counting and the event comes too early.       *)
(***************************************************************************)
ThreadsAreOutlived ==
    ~notCreated /\ mainPC \notin InRun => Alive = {} /\ threadCountLock = 0

(***************************************************************************)
(* Wherever the start-up of a run failed, and whichever threads it could   *)
(* not create, the run gives back everything it had acquired, the handles  *)
(* and transfer addresses of its threads included; only the token of a     *)
(* refused privilege stays open.  Of the code: the tests before the calls  *)
(* that release, and the number of threads the clean-up goes by, are right *)
(* at each goto cleanup.                                                   *)
(***************************************************************************)
NothingIsKept ==
    mainPC \in {"start", "run", "returned", "exit"} => allocated \subseteq {<<"token", 0>>}

(***************************************************************************)
(* The clean-up releases nothing that is not there: a run that fails early *)
(* finds no pointer or flag that an earlier run of the sweep has left set, *)
(* and would release a second time what that run has released.             *)
(***************************************************************************)
OnlyHeldIsReleased == mainPC = "cleanup" => Released \subseteq allocated

(* The numbers of threads a sweep is over, by the arguments.               *)
CountsAsked == IF Len(argv) < 2 THEN {NumberUserThreads} ELSE 1 .. maxThreads

(***************************************************************************)
(* A sweep makes the number of runs asked for with each number of threads, *)
(* in increasing order, failed runs included, and none with a number that  *)
(* threadInfoArray has no room for.                                        *)
(***************************************************************************)
SweepIsComplete ==
    \A c \in UserThreads :
        completed[c] = IF c \notin CountsAsked \/ c > threadCount THEN 0
                       ELSE IF c = threadCount THEN run ELSE runsPerCount

(***************************************************************************)
(* The program ends: in no run does main wait for ever for the shutdown    *)
(* event or a thread, nor a user thread for the trim and the disk thread.  *)
(***************************************************************************)
ProgramReturns == <>(mainPC = "exit" \/ Disturbed)
=============================================================================
