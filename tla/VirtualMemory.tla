---------------------------- MODULE VirtualMemory ----------------------------
(***************************************************************************)
(* The demand-paged memory of VirtualMemoryManager: user threads that      *)
(* touch virtual pages and resolve their own page faults (userThread.c),   *)
(* the trim thread that evicts active frames (trimThread.c, pages.c) and   *)
(* the disk thread that writes modified frames out (diskThread.c, disk.c). *)
(*                                                                         *)
(* A step of the model is one critical section of a list lock, one         *)
(* interlocked operation, one copy of a page, or one access to a frame     *)
(* outside every lock.  The PTE locks are held over several steps by the   *)
(* user threads and are modelled explicitly; a list lock is never held     *)
(* while another lock is awaited, so its critical section is one step.     *)
(*                                                                         *)
(* A few operators have a second, wrong form just before them (DiskFromOne,*)
(* OffStandbyFlagKept, ...).  No action uses those: put in the place of    *)
(* the right one they break a property, which shows that it can fail.      *)
(***************************************************************************)
EXTENDS Integers, FiniteSets, FrameLists

CONSTANTS
    Users,                (* the user threads of this run                  *)
    Pages,                (* the virtual pages, one PTE each               *)
    PTELockRegion,        (* the region of pteLockTable each PTE is in     *)
    PhysicalPageNumbers,  (* physical_page_numbers: the frames, in order   *)
    NumberOfDiskSlots,    (* NUMBER_OF_DISK_SLOTS                          *)
    MaxWritePages,        (* MAX_WRITE_PAGES: the batch of a trim or write *)
    TestIterations,       (* TEST_ITERATIONS, or None: any number of them  *)
    Words,                (* the offsets of a page that are written        *)
    InvalidDiskSlot,      (* INVALID_DISK_SLOT as 40 bits hold it          *)
    TransferMapFails,     (* whether swapFromDisk may fail to map a frame  *)
    None                  (* NULL                                          *)

Frames == {PhysicalPageNumbers[i] : i \in 1 .. Len(PhysicalPageNumbers)}
Regions == {PTELockRegion[p] : p \in Pages}
DiskSlots == 0 .. NumberOfDiskSlots - 1
Addresses == Pages \X Words

ASSUME ConstantsAssumption ==
    /\ Users # {} /\ IsFiniteSet(Users)
    /\ PTELockRegion \in [Pages -> Regions]
    /\ PhysicalPageNumbers \in Seq(Nat)
    /\ IsInjective(PhysicalPageNumbers)
    /\ NumberOfDiskSlots \in Nat \ {0}
    /\ MaxWritePages \in Nat \ {0}
    /\ TestIterations \in Nat \cup {None}
    /\ InvalidDiskSlot \in Nat \ DiskSlots
    /\ TransferMapFails \in BOOLEAN
    /\ None \notin Users \cup Pages \cup Nat \cup Addresses

VARIABLES
    pageTable,       (* the PTE of each page, as the bits of the union     *)
    mapped,          (* the frame the hardware maps each page to           *)
    pfnArray,        (* struct Frame of each frame, list links left out    *)
    ram,             (* the words each frame holds                         *)
    totalDiskSpace,  (* the words each disk slot holds                     *)
    diskSlotBitmap,  (* the slots whose bit is set                         *)
    freeList, activeList, modifiedList, standbyList,
    pteLockTable,    (* the thread that holds each PTE lock                *)
    event,           (* the state of the four events                       *)
    numActiveUserThreads,
    remaining,       (* the iterations each user thread has left           *)
    pc,              (* where each user thread is                          *)
    va,              (* the address it is accessing, None between accesses *)
    pteContents,     (* its copy of the faulting PTE                       *)
    currentFrame,    (* the frame it works on                              *)
    trimPC, evictFrames,
    diskPC, diskSlots, swapFrames, word,
    memory,          (* history: the words of each page the program wrote  *)
    races,           (* history: the unsynchronised windows and the error  *)
                     (* path that were taken                               *)
    halted           (* why DebugBreak stopped the process, if it did      *)

tables    == <<pageTable, mapped, pfnArray>>
storage   == <<ram, totalDiskSpace>>
lists     == <<freeList, activeList, modifiedList, standbyList>>
userVars  == <<remaining, pc, va, pteContents, currentFrame>>
trimVars  == <<trimPC, evictFrames>>
diskVars  == <<diskPC, diskSlots, swapFrames, word>>
counters  == <<numActiveUserThreads, remaining>>
otherThreads == <<trimVars, diskVars>>
history   == <<memory, races>>
vars == <<tables, storage, diskSlotBitmap, lists, pteLockTable, event,
          numActiveUserThreads, userVars, trimVars, diskVars, history, halted>>

-----------------------------------------------------------------------------
(***************************************************************************)
(* A PTE is 64 bits read through three overlapping structs: bit 0 is       *)
(* isValid or mustBeZero, bit 1 isTransitionFormat, and the next 40 bits   *)
(* are a page frame number or a disk index.  The formats are told apart by *)
(* these bits alone, so Disk(0) is the PTE of a page never touched.        *)
(***************************************************************************)
PTE(v, t, n) == [isValid |-> v, isTransition |-> t, number |-> n]
DiskFromOne(s) == PTE(0, 0, s - 1)
Zero          == PTE(0, 0, 0)
Valid(f)      == PTE(1, 0, f)
Transition(f) == PTE(0, 1, f)
Disk(s)       == PTE(0, 0, s)

PTEs == {e \in [isValid : 0 .. 1, isTransition : 0 .. 1, number : Nat] :
             e.isValid = 1 \/ e.isTransition = 1 => e.number \in Frames}

(***************************************************************************)
(* struct Frame.  The flags and diskIndex are bit fields of one 64-bit     *)
(* word; PTE is a word of its own.                                         *)
(***************************************************************************)
FrameRecords == [PTE : Pages \cup {None}, isOnModifiedList : BOOLEAN,
                 isOnStandbyList : BOOLEAN, isBeingWritten : BOOLEAN, diskIndex : Nat]

(* What the list operations and the threads do to the fields of a frame.   *)
OnModified(frame)   == [frame EXCEPT !.isOnModifiedList = TRUE, !.isOnStandbyList = FALSE]
OnStandby(frame)    == [frame EXCEPT !.isOnStandbyList = TRUE, !.isOnModifiedList = FALSE]
OffModified(frame)  == [frame EXCEPT !.isOnModifiedList = FALSE]
OffStandbyFlagKept(frame) == frame
OffStandby(frame)   == [frame EXCEPT !.isOnStandbyList = FALSE]
MarkWritten(frame)  == [frame EXCEPT !.isBeingWritten = TRUE]
UnmarkForgotten(frame) == frame
UnmarkWritten(frame) == [frame EXCEPT !.isBeingWritten = FALSE]
OnDisk(frame, s)    == [frame EXCEPT !.diskIndex = s]
OwnedByNobody(frame, p) == frame
OwnedBy(frame, p)   == [frame EXCEPT !.PTE = p]

(* What the debug heap leaves in totalDiskSpace before a slot is written.  *)
Garbage == {<<None, w>> : w \in Words}

(* A page's contents after its owner stores one word.                      *)
WithWord(contents, p, w) == {x \in contents : x[2] # w} \cup {<<p, w>>}

MinOf(a, b) == IF a < b THEN a ELSE b

-----------------------------------------------------------------------------
Init ==
    /\ pageTable = [p \in Pages |-> Zero]
    /\ mapped = [p \in Pages |-> None]
    /\ pfnArray = [f \in Frames |->
           [PTE |-> None, isOnModifiedList |-> FALSE, isOnStandbyList |-> FALSE,
            isBeingWritten |-> FALSE, diskIndex |-> InvalidDiskSlot]]
    /\ ram = [f \in Frames |-> {}]
    /\ totalDiskSpace = [s \in DiskSlots |-> Garbage]
    /\ diskSlotBitmap = {}
    /\ freeList = [i \in 1 .. Len(PhysicalPageNumbers) |->
                      PhysicalPageNumbers[Len(PhysicalPageNumbers) + 1 - i]]
    /\ activeList = <<>> /\ modifiedList = <<>> /\ standbyList = <<>>
    /\ pteLockTable = [r \in Regions |-> None]
    /\ event = [trim |-> FALSE, modWrite |-> FALSE, finished |-> FALSE, shutdown |-> FALSE]
    /\ numActiveUserThreads = Cardinality(Users)
    /\ remaining = [u \in Users |-> TestIterations]
    /\ pc = [u \in Users |-> "access"]
    /\ va = [u \in Users |-> None]
    /\ pteContents = [u \in Users |-> Zero]
    /\ currentFrame = [u \in Users |-> None]
    /\ trimPC = "wait" /\ evictFrames = <<>>
    /\ diskPC = "wait" /\ diskSlots = <<>> /\ swapFrames = <<>> /\ word = None
    /\ memory = [p \in Pages |-> {}]
    /\ races = {}
    /\ halted = "running"

-----------------------------------------------------------------------------
(* User threads: small steps of their program.                             *)

GoTo(u, next) == pc' = [pc EXCEPT ![u] = next]
Page(u) == va[u][1]
Lock(p) == PTELockRegion[p]

AcquirePTELockHeld(u, p) == pteLockTable' = [pteLockTable EXCEPT ![Lock(p)] = u]

AcquirePTELock(u, p) ==
    /\ pteLockTable[Lock(p)] = None
    /\ pteLockTable' = [pteLockTable EXCEPT ![Lock(p)] = u]

ReleasePTELock(p) == pteLockTable' = [pteLockTable EXCEPT ![Lock(p)] = None]

(* ReleaseDiskSlot, of each of the slots.                                  *)
ReleaseDiskSlotsNever(slots) == UNCHANGED diskSlotBitmap
ReleaseDiskSlots(slots) == diskSlotBitmap' = diskSlotBitmap \ slots

(* ASSERT(x) and the DebugBreak calls: the process stops where x is false. *)
DebugAssert(x) == halted' = IF x THEN halted ELSE "assert"

(* SetEvent on an auto-reset event: one waiter is released and consumes    *)
(* it, otherwise the event stays signalled.                                *)
SetTrimEvent ==
    IF trimPC = "blocked"
    THEN trimPC' = "evict" /\ UNCHANGED event
    ELSE event' = [event EXCEPT !.trim = TRUE] /\ UNCHANGED trimPC

SetModWriteEventLost ==
    UNCHANGED event /\ diskPC' = IF diskPC = "blocked" THEN "reserve" ELSE diskPC

SetModWriteEvent ==
    IF diskPC = "blocked"
    THEN diskPC' = "reserve" /\ UNCHANGED event
    ELSE event' = [event EXCEPT !.modWrite = TRUE] /\ UNCHANGED diskPC

(***************************************************************************)
(* userThread: store to an address.  A thread picks any address, and       *)
(* repeats the one it faulted on until the store succeeds.                 *)
(***************************************************************************)
Accesses(u, p, w) ==
    /\ pc[u] = "access" /\ remaining[u] # 0
    /\ va[u] \in {None, <<p, w>>}

Store(u, p, w) ==
    /\ Accesses(u, p, w)
    /\ mapped[p] # None
    /\ remaining' = [remaining EXCEPT ![u] = IF @ = None THEN None ELSE @ - 1]
    /\ ram' = [ram EXCEPT ![mapped[p]] = WithWord(@, p, w)]
    /\ memory' = [memory EXCEPT ![p] = @ \cup {w}]
    /\ va' = [va EXCEPT ![u] = None]
    /\ UNCHANGED <<tables, totalDiskSpace, diskSlotBitmap, lists, pteLockTable, event,
                   numActiveUserThreads, pc, pteContents, currentFrame, otherThreads,
                   races, halted>>

Fault(u, p, w) ==
    /\ Accesses(u, p, w)
    /\ mapped[p] = None
    /\ va' = [va EXCEPT ![u] = <<p, w>>]
    /\ GoTo(u, "fault")
    /\ UNCHANGED <<tables, storage, diskSlotBitmap, lists, pteLockTable, event,
                   counters, pteContents, currentFrame, otherThreads, history, halted>>

(***************************************************************************)
(* The end of a user thread's loop: shutdownUserThread.  The last thread   *)
(* signals the manual-reset shutdown event, which ends a waiting trim or   *)
(* disk thread.                                                            *)
(***************************************************************************)
Shutdown(u) ==
    /\ pc[u] = "access" /\ va[u] = None /\ remaining[u] \in {0, None}
    /\ GoTo(u, "done")
    /\ numActiveUserThreads' = numActiveUserThreads - 1
    /\ IF numActiveUserThreads' = 0
       THEN /\ event' = [event EXCEPT !.shutdown = TRUE]
            /\ trimPC' = IF trimPC = "blocked" THEN "done" ELSE trimPC
            /\ diskPC' = IF diskPC = "blocked" THEN "done" ELSE diskPC
       ELSE UNCHANGED <<event, trimPC, diskPC>>
    /\ UNCHANGED <<tables, storage, diskSlotBitmap, lists, pteLockTable, remaining,
                   va, pteContents, currentFrame, evictFrames, diskSlots, swapFrames,
                   word, history, halted>>

-----------------------------------------------------------------------------
(* resolvePageFault: read the PTE under its lock.                          *)

(* Some thread resolved the fault already, or the frame is on its way out  *)
(* and its PTE is still valid: there is nothing to do under the lock but   *)
(* to release it, and the store is tried again.                            *)
FaultOnValid(u) ==
    /\ pc[u] = "fault"
    /\ AcquirePTELock(u, Page(u))
    /\ pageTable[Page(u)].isValid = 1
    /\ GoTo(u, "releasePTE")
    /\ UNCHANGED <<tables, storage, diskSlotBitmap, lists, event, counters, va,
                   pteContents, currentFrame, otherThreads, history, halted>>

ReleaseValid(u) ==
    /\ pc[u] = "releasePTE"
    /\ ReleasePTELock(Page(u))
    /\ GoTo(u, "access")
    /\ UNCHANGED <<tables, storage, diskSlotBitmap, lists, event, counters, va,
                   pteContents, currentFrame, otherThreads, history, halted>>

(* Case 1: the page is in transition; its frame may be rescued.            *)
FaultInTransition(u) ==
    /\ pc[u] = "fault"
    /\ AcquirePTELock(u, Page(u))
    /\ pageTable[Page(u)].isValid = 0 /\ pageTable[Page(u)].isTransition = 1
    /\ currentFrame' = [currentFrame EXCEPT ![u] = pageTable[Page(u)].number]
    /\ GoTo(u, "checkWritten")
    /\ UNCHANGED <<tables, storage, diskSlotBitmap, lists, event, counters, va,
                   pteContents, otherThreads, history, halted>>

(* Case 2: the page needs a frame.                                         *)
FaultOnAbsent(u) ==
    /\ pc[u] = "fault"
    /\ AcquirePTELock(u, Page(u))
    /\ pageTable[Page(u)].isValid = 0 /\ pageTable[Page(u)].isTransition = 0
    /\ pteContents' = [pteContents EXCEPT ![u] = pageTable[Page(u)]]
    /\ GoTo(u, "getFreeFrame")
    /\ UNCHANGED <<tables, storage, diskSlotBitmap, lists, event, counters, va,
                   currentFrame, otherThreads, history, halted>>

(* (1) The disk thread holds the frame: clearing the mark takes it back.   *)
RescueWritten(u) ==
    /\ pc[u] = "checkWritten"
    /\ IF pfnArray[currentFrame[u]].isBeingWritten
       THEN /\ pfnArray' = [pfnArray EXCEPT ![currentFrame[u]] = UnmarkWritten(@)]
            /\ GoTo(u, "map")
       ELSE GoTo(u, "checkModified") /\ UNCHANGED pfnArray
    /\ UNCHANGED <<pageTable, mapped, storage, diskSlotBitmap, lists, pteLockTable,
                   event, counters, va, pteContents, currentFrame, otherThreads,
                   history, halted>>

(* (2) The frame is flagged as modified: it is unlinked.  Unlinking a      *)
(* frame that is not in the list corrupts the list; the process is halted  *)
(* there, at the error branch of removeFromFrameList.                      *)
RescueModified(u) ==
    LET f == currentFrame[u] IN
    /\ pc[u] = "checkModified"
    /\ IF pfnArray[f].isOnModifiedList
       THEN /\ modifiedList' = RemoveFromFrameList(modifiedList, f)
            /\ pfnArray' = [pfnArray EXCEPT ![f] = OffModified(@)]
            /\ halted' = IF Contains(modifiedList, f) THEN halted ELSE "unlink"
            /\ GoTo(u, "map")
       ELSE GoTo(u, "checkStandby") /\ UNCHANGED <<modifiedList, pfnArray, halted>>
    /\ UNCHANGED <<pageTable, mapped, storage, diskSlotBitmap, freeList, activeList,
                   standbyList, pteLockTable, event, counters, va, pteContents,
                   currentFrame, otherThreads, history>>

(* (3) The frame is flagged as standby: it is unlinked and its disk slot   *)
(* released.  (4) Otherwise another thread is moving it: retry the store.  *)
RescueStandby(u) ==
    LET f == currentFrame[u] IN
    /\ pc[u] = "checkStandby"
    /\ IF pfnArray[f].isOnStandbyList
       THEN /\ standbyList' = RemoveFromFrameList(standbyList, f)
            /\ pfnArray' = [pfnArray EXCEPT ![f] = OffStandby(@)]
            /\ halted' = IF Contains(standbyList, f) THEN halted ELSE "unlink"
            /\ GoTo(u, "releaseSlot")
            /\ UNCHANGED <<pteLockTable, currentFrame>>
       ELSE /\ ReleasePTELock(Page(u))
            /\ GoTo(u, "access")
            /\ currentFrame' = [currentFrame EXCEPT ![u] = None]
            /\ UNCHANGED <<standbyList, pfnArray, halted>>
    /\ UNCHANGED <<pageTable, mapped, storage, diskSlotBitmap, freeList, activeList,
                   modifiedList, event, counters, va, pteContents, otherThreads,
                   history>>

(* The diskIndex was read when the frame was unlinked; nobody else changes *)
(* it while the thread holds the frame.                                    *)
ReleaseRescuedSlot(u) ==
    LET f == currentFrame[u] IN
    /\ pc[u] = "releaseSlot"
    /\ DebugAssert(pfnArray[f].diskIndex \in diskSlotBitmap)
    /\ ReleaseDiskSlots({pfnArray[f].diskIndex})
    /\ pfnArray' = [pfnArray EXCEPT ![f] = OnDisk(@, InvalidDiskSlot)]
    /\ GoTo(u, "map")
    /\ UNCHANGED <<pageTable, mapped, storage, lists, pteLockTable, event, counters,
                   va, pteContents, currentFrame, otherThreads, history>>

-----------------------------------------------------------------------------
(* resolvePageFault, case 2: find a frame.                                 *)

(* pteContents tells how the frame will be filled.                         *)
FillStepNoWipe(contents) == IF contents = Zero THEN "map" ELSE "swapIn"
FillStepAlwaysWipe(contents) == "wipe"
FillStep(contents) == IF contents = Zero THEN "wipe" ELSE "swapIn"

(* getFreeFrame.  A frame from the free list needs no wiping.              *)
GetFreeFrame(u) ==
    /\ pc[u] = "getFreeFrame"
    /\ IF freeList = <<>>
       THEN GoTo(u, "takeStandby") /\ UNCHANGED <<freeList, currentFrame>>
       ELSE /\ currentFrame' = [currentFrame EXCEPT ![u] = freeList[1]]
            /\ freeList' = AfterPop(freeList, 1)
            /\ GoTo(u, IF pteContents[u] = Zero THEN "map" ELSE "swapIn")
    /\ UNCHANGED <<tables, storage, diskSlotBitmap, activeList, modifiedList,
                   standbyList, pteLockTable, event, counters, va, pteContents,
                   otherThreads, history, halted>>

(* Nothing on standby either: drop the lock and ask for a trim.            *)
StandbyEmpty(u) ==
    /\ pc[u] = "takeStandby" /\ standbyList = <<>>
    /\ ReleasePTELock(Page(u))
    /\ GoTo(u, "resetEvent")
    /\ pteContents' = [pteContents EXCEPT ![u] = Zero]
    /\ UNCHANGED <<tables, storage, diskSlotBitmap, lists, event, counters, va,
                   currentFrame, otherThreads, history, halted>>

ResetFinished(u) ==
    /\ pc[u] = "resetEvent"
    /\ event' = [event EXCEPT !.finished = FALSE]
    /\ GoTo(u, "setTrim")
    /\ UNCHANGED <<tables, storage, diskSlotBitmap, lists, pteLockTable, counters, va,
                   pteContents, currentFrame, otherThreads, history, halted>>

RequestTrim(u) ==
    /\ pc[u] = "setTrim"
    /\ SetTrimEvent
    /\ GoTo(u, "waitFinished")
    /\ UNCHANGED <<tables, storage, diskSlotBitmap, lists, pteLockTable, counters, va,
                   pteContents, currentFrame, evictFrames, diskVars, history, halted>>

AfterWait(finished) == IF finished THEN "access" ELSE "blocked"

WaitFinished(u) ==
    /\ pc[u] = "waitFinished"
    /\ GoTo(u, AfterWait(event.finished))
    /\ UNCHANGED <<tables, storage, diskSlotBitmap, lists, pteLockTable, event,
                   counters, va, pteContents, currentFrame, otherThreads, history,
                   halted>>

(* Page v loses its frame f to another page: its PTE takes f's disk index. *)
(* With index 0 the PTE is Zero and the program's data is forgotten.       *)
GiveToDisk(v, f) ==
    /\ pageTable' = [pageTable EXCEPT ![v] = Disk(pfnArray[f].diskIndex)]
    /\ memory' = IF pfnArray[f].diskIndex = 0 THEN [memory EXCEPT ![v] = {}] ELSE memory

(* The victim's PTE is in the region that is locked already.               *)
TakeStandbySameLock(u) ==
    LET f == standbyList[1]  v == pfnArray[f].PTE IN
    /\ pc[u] = "takeStandby" /\ standbyList # <<>>
    /\ v # None /\ Lock(v) = Lock(Page(u))
    /\ standbyList' = AfterPop(standbyList, 1)
    /\ GiveToDisk(v, f)
    /\ pfnArray' = [pfnArray EXCEPT ![f] = OnDisk(OffStandby(@), InvalidDiskSlot)]
    /\ currentFrame' = [currentFrame EXCEPT ![u] = f]
    /\ GoTo(u, FillStep(pteContents[u]))
    /\ UNCHANGED <<mapped, storage, diskSlotBitmap, freeList, activeList,
                   modifiedList, pteLockTable, event, counters, va, pteContents,
                   otherThreads, races, halted>>

(* The victim's PTE is in another region: the thread lets go of its own    *)
(* lock (here), takes the victim's to update the PTE (UpdateVictim), and   *)
(* takes its own again (Reacquire).                                        *)
TakeStandbyOtherLock(u) ==
    LET f == standbyList[1]  v == pfnArray[f].PTE IN
    /\ pc[u] = "takeStandby" /\ standbyList # <<>>
    /\ v = None \/ Lock(v) # Lock(Page(u))
    /\ DebugAssert(v # None)
    /\ standbyList' = AfterPop(standbyList, 1)
    /\ pfnArray' = [pfnArray EXCEPT ![f] = OffStandby(@)]
    /\ currentFrame' = [currentFrame EXCEPT ![u] = f]
    /\ ReleasePTELock(Page(u))
    /\ GoTo(u, "updateVictim")
    /\ UNCHANGED <<pageTable, mapped, storage, diskSlotBitmap, freeList, activeList,
                   modifiedList, event, counters, va, pteContents, otherThreads,
                   history>>

UpdateVictim(u) ==
    LET f == currentFrame[u]  v == pfnArray[f].PTE IN
    /\ pc[u] = "updateVictim"
    /\ pteLockTable[Lock(v)] = None
    /\ GiveToDisk(v, f)
    /\ GoTo(u, "reacquire")
    /\ UNCHANGED <<mapped, pfnArray, storage, diskSlotBitmap, lists, pteLockTable,
                   event, counters, va, pteContents, currentFrame, otherThreads,
                   races, halted>>

(* The PTE is read again.  If it is valid the frame goes back on standby,  *)
(* still naming its victim; anything else is taken for zero or disk        *)
(* format, a transition PTE included.                                      *)
Reacquire(u) ==
    LET now == pageTable[Page(u)]  f == currentFrame[u] IN
    /\ pc[u] = "reacquire"
    /\ pteLockTable[Lock(Page(u))] = None
    /\ IF now.isValid = 1 /\ now.isTransition = 0
       THEN /\ standbyList' = AddToFrameList(standbyList, f)
            /\ pfnArray' = [pfnArray EXCEPT ![f] = OnStandby(@)]
            /\ currentFrame' = [currentFrame EXCEPT ![u] = None]
            /\ pteContents' = [pteContents EXCEPT ![u] = Zero]
            /\ GoTo(u, "access")
            /\ UNCHANGED pteLockTable
       ELSE /\ AcquirePTELock(u, Page(u))
            /\ pteContents' = [pteContents EXCEPT ![u] = now]
            /\ GoTo(u, FillStep(now))
            /\ UNCHANGED <<standbyList, pfnArray, currentFrame>>
    /\ races' = IF now.isValid = 1 \/ now.isTransition = 1 THEN races \cup {"staleFrame"}
                                                           ELSE races
    /\ UNCHANGED <<pageTable, mapped, storage, diskSlotBitmap, freeList, activeList,
                   modifiedList, event, counters, va, otherThreads, memory, halted>>

-----------------------------------------------------------------------------
(* resolvePageFault: fill the frame and map it.                            *)

(* wipePage.                                                               *)
WipePage(u) ==
    /\ pc[u] = "wipe"
    /\ ram' = [ram EXCEPT ![currentFrame[u]] = {}]
    /\ GoTo(u, "map")
    /\ UNCHANGED <<tables, totalDiskSpace, diskSlotBitmap, lists, pteLockTable, event,
                   counters, va, pteContents, currentFrame, otherThreads, history,
                   halted>>

(* swapFromDisk releases the slot first ...                                *)
SwapFromDisk(u) ==
    LET s == pteContents[u].number IN
    /\ pc[u] = "swapIn"
    /\ DebugAssert(s \in diskSlotBitmap)
    /\ ReleaseDiskSlots({s})
    /\ pfnArray' = [pfnArray EXCEPT ![currentFrame[u]] = OnDisk(@, InvalidDiskSlot)]
    /\ GoTo(u, "copyIn")
    /\ UNCHANGED <<pageTable, mapped, storage, lists, pteLockTable, event, counters,
                   va, pteContents, currentFrame, otherThreads, history>>

(* ... and copies the page from it afterwards.                             *)
CopyFromDisk(u) ==
    /\ pc[u] = "copyIn"
    /\ ram' = [ram EXCEPT ![currentFrame[u]] = totalDiskSpace[pteContents[u].number]]
    /\ GoTo(u, "map")
    /\ UNCHANGED <<tables, totalDiskSpace, diskSlotBitmap, lists, pteLockTable, event,
                   counters, va, pteContents, currentFrame, otherThreads, history,
                   halted>>

(* A transfer address that cannot be mapped makes swapFromDisk return, and *)
(* its caller maps the page with whatever the frame held.                  *)
SwapFromDiskFails(u) ==
    /\ TransferMapFails
    /\ pc[u] = "swapIn" /\ pteContents[u].number \in DiskSlots
    /\ GoTo(u, "map")
    /\ races' = races \cup {"unfilled"}
    /\ UNCHANGED <<tables, storage, diskSlotBitmap, lists, pteLockTable, event, counters,
                   va, pteContents, currentFrame, otherThreads, memory, halted>>

MapPage(u) ==
    LET p == Page(u)  f == currentFrame[u] IN
    /\ pc[u] = "map"
    /\ mapped' = [mapped EXCEPT ![p] = f]
    /\ pageTable' = [pageTable EXCEPT ![p] = Valid(f)]
    /\ pfnArray' = [pfnArray EXCEPT ![f] = OwnedBy(@, p)]
    /\ activeList' = AddToFrameListTail(activeList, f)
    /\ ReleasePTELock(p)
    /\ currentFrame' = [currentFrame EXCEPT ![u] = None]
    /\ pteContents' = [pteContents EXCEPT ![u] = Zero]
    /\ GoTo(u, "access")
    /\ UNCHANGED <<storage, diskSlotBitmap, freeList, modifiedList, standbyList,
                   event, counters, va, otherThreads, history, halted>>

-----------------------------------------------------------------------------
(* trimThread and evictFrame.                                              *)

TrimWait ==
    /\ trimPC = "wait"
    /\ IF event.trim
       THEN trimPC' = "evict" /\ event' = [event EXCEPT !.trim = FALSE]
       ELSE trimPC' = (IF event.shutdown THEN "done" ELSE "blocked") /\ UNCHANGED event
    /\ UNCHANGED <<tables, storage, diskSlotBitmap, lists, pteLockTable,
                   numActiveUserThreads, userVars, evictFrames, diskVars, history,
                   halted>>

(* A batch leaves the active list under its lock ...                       *)
PopActive ==
    LET n == MinOf(MaxWritePages, Len(activeList)) IN
    /\ trimPC = "evict"
    /\ evictFrames' = Popped(activeList, n)
    /\ activeList' = AfterPop(activeList, n)
    /\ trimPC' = "unmap"
    /\ UNCHANGED <<tables, storage, diskSlotBitmap, freeList, modifiedList,
                   standbyList, pteLockTable, event, numActiveUserThreads, userVars,
                   diskVars, history, halted>>

(* ... its pages are unmapped in one call ...                              *)
UnmapBatch ==
    /\ trimPC = "unmap"
    /\ mapped' = [p \in Pages |-> IF \E f \in ToSet(evictFrames) : pfnArray[f].PTE = p
                                  THEN None ELSE mapped[p]]
    /\ trimPC' = IF evictFrames = <<>> THEN "signal" ELSE "fix"
    /\ UNCHANGED <<pageTable, pfnArray, storage, diskSlotBitmap, lists, pteLockTable,
                   event, numActiveUserThreads, userVars, evictFrames, diskVars,
                   history, halted>>

(* ... and each PTE is put in transition under its lock ...                *)
FixPTE ==
    LET f == evictFrames[1]  p == pfnArray[f].PTE IN
    /\ trimPC = "fix"
    /\ DebugAssert(p # None)
    /\ p # None => pteLockTable[Lock(p)] = None
    /\ pageTable' = [pageTable EXCEPT ![p] = Transition(f)]
    /\ pfnArray' = [pfnArray EXCEPT ![f] = OnDisk(@, 0)]
    /\ trimPC' = "add"
    /\ UNCHANGED <<mapped, storage, diskSlotBitmap, lists, pteLockTable, event,
                   numActiveUserThreads, userVars, evictFrames, diskVars, history>>

(* ... before the frame is added to the modified list.                     *)
AddModified ==
    LET f == evictFrames[1] IN
    /\ trimPC = "add"
    /\ modifiedList' = AddToFrameList(modifiedList, f)
    /\ pfnArray' = [pfnArray EXCEPT ![f] = OnModified(@)]
    /\ evictFrames' = AfterPop(evictFrames, 1)
    /\ trimPC' = IF Len(evictFrames) = 1 THEN "signal" ELSE "fix"
    /\ UNCHANGED <<pageTable, mapped, storage, diskSlotBitmap, freeList, activeList,
                   standbyList, pteLockTable, event, numActiveUserThreads, userVars,
                   diskVars, history, halted>>

SignalModWrite ==
    /\ trimPC = "signal"
    /\ SetModWriteEvent
    /\ trimPC' = "wait"
    /\ UNCHANGED <<tables, storage, diskSlotBitmap, lists, pteLockTable,
                   numActiveUserThreads, userVars, evictFrames, diskSlots, swapFrames,
                   word, history, halted>>

-----------------------------------------------------------------------------
(* diskThread and swapToDisk.                                              *)

DiskWait ==
    /\ diskPC = "wait"
    /\ IF event.modWrite
       THEN diskPC' = "reserve" /\ event' = [event EXCEPT !.modWrite = FALSE]
       ELSE diskPC' = (IF event.shutdown THEN "done" ELSE "blocked") /\ UNCHANGED event
    /\ UNCHANGED <<tables, storage, diskSlotBitmap, lists, pteLockTable,
                   numActiveUserThreads, userVars, trimVars, diskSlots, swapFrames,
                   word, history, halted>>

(* The slots findFreeDiskSlot may find.                                    *)
FreeSlots == DiskSlots \ diskSlotBitmap

(* The calls of findFreeDiskSlot, until the batch is full or no slot is    *)
(* free.  Which free slots they find depends on where the search starts;   *)
(* only the disk thread reserves, so what they find stays free meanwhile.  *)
ReserveSlots ==
    LET n == MinOf(MaxWritePages, Cardinality(FreeSlots)) IN
    /\ diskPC = "reserve"
    /\ \E slots \in [1 .. n -> FreeSlots] :
          /\ IsInjective(slots)
          /\ diskSlots' = slots
    /\ diskSlotBitmap' = diskSlotBitmap \cup ToSet(diskSlots')
    /\ diskPC' = "collect"
    /\ UNCHANGED <<tables, storage, lists, pteLockTable, event, numActiveUserThreads,
                   userVars, trimVars, swapFrames, word, history, halted>>

(* As many modified frames as there are slots are popped and marked; the   *)
(* slots left over are released.                                           *)
CollectModified ==
    LET n == MinOf(Len(diskSlots), Len(modifiedList))
        batch == Popped(modifiedList, n)
    IN
    /\ diskPC = "collect"
    /\ swapFrames' = batch
    /\ modifiedList' = AfterPop(modifiedList, n)
    /\ pfnArray' = [f \in Frames |->
           IF f \in ToSet(batch) THEN MarkWritten(OffModified(pfnArray[f]))
                                     ELSE pfnArray[f]]
    /\ diskSlots' = Popped(diskSlots, n)
    /\ ReleaseDiskSlots(ToSet(AfterPop(diskSlots, n)))
    /\ diskPC' = IF n = 0 THEN "signal" ELSE "write"
    /\ UNCHANGED <<pageTable, mapped, storage, freeList, activeList, standbyList,
                   pteLockTable, event, numActiveUserThreads, userVars, trimVars,
                   word, history, halted>>

WritePage ==
    LET s == diskSlots[1] IN
    /\ diskPC = "write"
    /\ totalDiskSpace' = [totalDiskSpace EXCEPT ![s] = ram[swapFrames[1]]]
    /\ races' = IF \E u \in Users : pc[u] = "copyIn" /\ pteContents[u].number = s
                THEN races \cup {"slotReused"} ELSE races
    /\ diskPC' = "publish"
    /\ UNCHANGED <<tables, ram, diskSlotBitmap, lists, pteLockTable, event,
                   numActiveUserThreads, userVars, trimVars, diskSlots, swapFrames,
                   word, memory, halted>>

NextToWriteMore(rest) == "write"
NextToWrite(rest) == IF rest = <<>> THEN "signal" ELSE "write"

(* Under the standby lock: a frame still marked goes on standby; for one   *)
(* that was rescued meanwhile the slot is given back.                      *)
PublishPage ==
    LET f == swapFrames[1]  s == diskSlots[1] IN
    /\ diskPC = "publish"
    /\ DebugAssert(s \in diskSlotBitmap)
    /\ diskSlots' = AfterPop(diskSlots, 1)
    /\ IF pfnArray[f].isBeingWritten
       THEN /\ pfnArray' = [pfnArray EXCEPT ![f] = OnStandby(OnDisk(UnmarkWritten(@), s))]
            /\ standbyList' = AddToFrameList(standbyList, f)
            /\ swapFrames' = AfterPop(swapFrames, 1)
            /\ diskPC' = NextToWrite(swapFrames')
            /\ UNCHANGED diskSlotBitmap
       ELSE /\ ReleaseDiskSlots({s})
            /\ diskPC' = "readWord"
            /\ UNCHANGED <<pfnArray, standbyList, swapFrames>>
    /\ UNCHANGED <<pageTable, mapped, storage, freeList, activeList, modifiedList,
                   pteLockTable, event, numActiveUserThreads, userVars, trimVars,
                   word, history>>

(* The rescued frame's diskIndex is then invalidated under no lock at all. *)
(* diskIndex shares its 64-bit word with the flags, so the store reads the *)
(* word and writes all of it back.                                         *)
ReadFrameWord ==
    /\ diskPC = "readWord"
    /\ word' = pfnArray[swapFrames[1]]
    /\ diskPC' = "writeWord"
    /\ UNCHANGED <<tables, storage, diskSlotBitmap, lists, pteLockTable, event,
                   numActiveUserThreads, userVars, trimVars, diskSlots, swapFrames,
                   history, halted>>

WriteFrameWord ==
    LET f == swapFrames[1]
        new == [word EXCEPT !.PTE = pfnArray[f].PTE, !.diskIndex = InvalidDiskSlot]
    IN
    /\ diskPC = "writeWord"
    /\ pfnArray' = [pfnArray EXCEPT ![f] = new]
    /\ races' = IF new = [pfnArray[f] EXCEPT !.diskIndex = InvalidDiskSlot]
                THEN races ELSE races \cup {"wordTorn"}
    /\ word' = None
    /\ swapFrames' = AfterPop(swapFrames, 1)
    /\ diskPC' = NextToWrite(swapFrames')
    /\ UNCHANGED <<pageTable, mapped, storage, diskSlotBitmap, lists, pteLockTable,
                   event, numActiveUserThreads, userVars, trimVars, diskSlots, memory,
                   halted>>

(* SetEvent on the manual-reset event releases every waiting user thread.  *)
SignalFinished ==
    /\ diskPC = "signal"
    /\ event' = [event EXCEPT !.finished = TRUE]
    /\ pc' = [u \in Users |-> IF pc[u] = "blocked" THEN "access" ELSE pc[u]]
    /\ diskSlots' = <<>>
    /\ diskPC' = "wait"
    /\ UNCHANGED <<tables, storage, diskSlotBitmap, lists, pteLockTable, counters, va,
                   pteContents, currentFrame, trimVars, swapFrames, word, history,
                   halted>>

-----------------------------------------------------------------------------
ResolveStep(u) ==
    \/ FaultOnValid(u) \/ ReleaseValid(u) \/ FaultInTransition(u) \/ FaultOnAbsent(u)
    \/ RescueWritten(u) \/ RescueModified(u) \/ RescueStandby(u) \/ ReleaseRescuedSlot(u)
    \/ GetFreeFrame(u) \/ StandbyEmpty(u) \/ ResetFinished(u) \/ RequestTrim(u)
    \/ WaitFinished(u) \/ TakeStandbySameLock(u) \/ TakeStandbyOtherLock(u)
    \/ UpdateVictim(u) \/ Reacquire(u) \/ WipePage(u) \/ SwapFromDisk(u)
    \/ CopyFromDisk(u) \/ SwapFromDiskFails(u) \/ MapPage(u)

AccessStep(u) == \E p \in Pages, w \in Words : Store(u, p, w) \/ Fault(u, p, w)

TrimStep == \/ TrimWait \/ PopActive \/ UnmapBatch \/ FixPTE \/ AddModified \/ SignalModWrite

DiskStep == \/ DiskWait \/ ReserveSlots \/ CollectModified \/ WritePage \/ PublishPage
            \/ ReadFrameWord \/ WriteFrameWord \/ SignalFinished

(* Every thread has ended, or DebugBreak has stopped the process.          *)
Stopped ==
    /\ halted # "running" \/ (trimPC = "done" /\ diskPC = "done")
    /\ UNCHANGED vars

Next ==
    \/ /\ halted = "running"
       /\ \/ \E u \in Users : AccessStep(u) \/ ResolveStep(u) \/ Shutdown(u)
          \/ TrimStep
          \/ DiskStep
    \/ Stopped

Spec == Init /\ [][Next]_vars

(***************************************************************************)
(* Each thread of the program keeps running: a user thread in the middle   *)
(* of an access or at the end of its iterations, the trim thread and the   *)
(* disk thread whenever they can take a step.                              *)
(***************************************************************************)
Running(A) == halted = "running" /\ A
Continue(u) == AccessStep(u) \/ ResolveStep(u) \/ Shutdown(u)

ThreadsFair ==
    /\ \A u \in Users : WF_vars(Running(Continue(u)))
    /\ WF_vars(Running(TrimStep)) /\ WF_vars(Running(DiskStep))

(***************************************************************************)
(* Of the threads that wait for a PTE lock and have frames in their hands, *)
(* one is let in eventually, although others take the lock again and       *)
(* again.  The program relies on that of its critical sections: a thread   *)
(* whose page trim has unmapped takes and releases the lock until trim has *)
(* had it and fixed the PTE, and a thread that finds no frame does so      *)
(* until the one that took it is through.                                  *)
(***************************************************************************)
EnterWithFrames == FixPTE \/ \E u \in Users : UpdateVictim(u) \/ Reacquire(u)

FairSpec == Spec /\ ThreadsFair /\ SF_vars(Running(EnterWithFrames))
=============================================================================
