----------------------- MODULE VirtualMemoryProperties -----------------------
(***************************************************************************)
(* What VirtualMemory must guarantee.                                      *)
(*                                                                         *)
(* Three windows of the code are known to break it (README, "Findings"):   *)
(* a slot reused while it is being read, a frame word written back torn,   *)
(* and a frame or PTE that went stale while its lock was dropped.  So is   *)
(* one error path: a page mapped although it could not be filled.  The     *)
(* variable races records which of them a behaviour has gone through, and  *)
(* each property names those it needs to be spared.  Everything else it    *)
(* says, it says of the code as it is.                                     *)
(***************************************************************************)
EXTENDS VirtualMemory

-----------------------------------------------------------------------------
(* Who holds a frame and who owns a disk slot.                             *)

Holding == {"releaseSlot", "updateVictim", "reacquire", "wipe", "swapIn", "copyIn", "map"}
UserHolds(u, f) == pc[u] \in Holding /\ currentFrame[u] = f

(* The frames the disk thread took and nobody rescued since.               *)
InWriting == {f \in ToSet(swapFrames) : pfnArray[f].isBeingWritten}

(* The frames in each list and in each batch.                              *)
FramesAt ==
    [free |-> ToSet(freeList), active |-> ToSet(activeList),
     modified |-> ToSet(modifiedList), standby |-> ToSet(standbyList),
     trim |-> ToSet(evictFrames), disk |-> InWriting]

Places(f) ==
    {<<"at", x>> : x \in {y \in DOMAIN FramesAt : f \in FramesAt[y]}}
    \cup {<<"user", u>> : u \in {v \in Users : UserHolds(v, f)}}

OnePlace(f) == \E x \in Places(f) : Places(f) = {x}

(* Page p is still where slot s says until a thread has released the slot  *)
(* to read the page in.                                                    *)
PageOwns(p, s) ==
    /\ s # 0 /\ pageTable[p] = Disk(s)
    /\ ~ \E u \in Users : pc[u] \in {"copyIn", "map"} /\ Page(u) = p

SlotOwners(s) ==
    {<<"page", p>> : p \in {x \in Pages : PageOwns(x, s)}}
    \cup {<<"frame", f>> : f \in {x \in ToSet(standbyList) : pfnArray[x].diskIndex = s}}
    \cup {<<"user", u>> : u \in {x \in Users : /\ pc[x] \in {"releaseSlot", "updateVictim"}
                                               /\ pfnArray[currentFrame[x]].diskIndex = s}}
    \cup {<<"disk", i>> : i \in {x \in 1 .. Len(diskSlots) : diskSlots[x] = s}}

(* What the program would read at page p.                                  *)
Stored(p) ==
    LET e == pageTable[p]
        filler == {u \in Users : pc[u] = "map" /\ Page(u) = p}
    IN
    CASE filler # {} -> ram[currentFrame[CHOOSE u \in filler : TRUE]]
      [] filler = {} /\ (e.isValid = 1 \/ e.isTransition = 1) -> ram[e.number]
      [] filler = {} /\ e = Zero -> {}
      [] OTHER -> totalDiskSpace[e.number]

-----------------------------------------------------------------------------
(* The types of the variables, by the thread or the table they belong to.  *)
UserPCs == {"access", "fault", "releasePTE", "checkWritten", "checkModified", "checkStandby",
            "releaseSlot", "getFreeFrame", "takeStandby", "resetEvent", "setTrim",
            "waitFinished", "blocked", "updateVictim", "reacquire", "wipe", "swapIn", "copyIn",
            "map", "done"}

PagesTyped ==
    /\ pageTable \in [Pages -> PTEs]
    /\ mapped \in [Pages -> Frames \cup {None}]

FramesTyped == pfnArray \in [Frames -> FrameRecords]

StorageTyped ==
    /\ ram \in [Frames -> SUBSET (Addresses \cup Garbage)]
    /\ totalDiskSpace \in [DiskSlots -> SUBSET (Addresses \cup Garbage)]
    /\ diskSlotBitmap \in SUBSET DiskSlots

ListsTyped ==
    /\ freeList \in Seq(Frames) /\ activeList \in Seq(Frames)
    /\ modifiedList \in Seq(Frames) /\ standbyList \in Seq(Frames)

SyncTyped ==
    /\ pteLockTable \in [Regions -> Users \cup {None}]
    /\ event \in [trim : BOOLEAN, modWrite : BOOLEAN, finished : BOOLEAN, shutdown : BOOLEAN]
    /\ numActiveUserThreads \in 0 .. Cardinality(Users)
    /\ halted \in {"running", "assert", "unlink"}

UsersTyped ==
    /\ remaining \in [Users -> Nat \cup {None}]
    /\ pc \in [Users -> UserPCs]
    /\ va \in [Users -> Addresses \cup {None}]
    /\ pteContents \in [Users -> PTEs]
    /\ currentFrame \in [Users -> Frames \cup {None}]

TrimTyped ==
    /\ trimPC \in {"wait", "blocked", "evict", "unmap", "fix", "add", "signal", "done"}
    /\ evictFrames \in Seq(Frames)

DiskTyped ==
    /\ diskPC \in {"wait", "blocked", "reserve", "collect", "write", "publish", "readWord",
                   "writeWord", "signal", "done"}
    /\ diskSlots \in Seq(DiskSlots)
    /\ swapFrames \in Seq(Frames)
    /\ word \in FrameRecords \cup {None}

HistoryTyped ==
    /\ memory \in [Pages -> SUBSET Words]
    /\ races \in SUBSET {"slotReused", "wordTorn", "staleFrame", "unfilled"}

(***************************************************************************)
(* Every variable has its type.  Of the code: a PTE is one of the three    *)
(* formats, the number in a valid or transition PTE is a frame's, a list   *)
(* holds frames, a PTE lock is free or has one holder.                     *)
(***************************************************************************)
TypeOK == /\ PagesTyped /\ FramesTyped /\ StorageTyped /\ ListsTyped /\ SyncTyped /\ UsersTyped
          /\ TrimTyped /\ DiskTyped /\ HistoryTyped

(* The parts of ControlOK, one for each thread and one for their number.   *)
NeedsFrame == {"checkWritten", "checkModified", "checkStandby"} \cup Holding

UsersControlled ==
    \A u \in Users :
        /\ pc[u] \notin {"access", "done"} => va[u] # None
        /\ pc[u] \in NeedsFrame => currentFrame[u] # None
        /\ pc[u] = "copyIn" /\ halted = "running" => pteContents[u].number \in DiskSlots

TrimControlled ==
    /\ trimPC \in {"fix", "add"} => evictFrames # <<>>
    /\ trimPC \notin {"unmap", "fix", "add"} => evictFrames = <<>>

DiskControlled ==
    /\ diskPC \in {"write", "publish"} => Len(swapFrames) = Len(diskSlots)
    /\ diskPC \in {"readWord", "writeWord"} =>
           /\ Len(swapFrames) = Len(diskSlots) + 1
           /\ ~pfnArray[swapFrames[1]].isBeingWritten
    /\ (diskPC \in {"write", "publish", "readWord", "writeWord"}) = (swapFrames # <<>>)
    /\ diskPC = "writeWord" => word \in FrameRecords

CountControlled ==
    numActiveUserThreads = Cardinality({u \in Users : pc[u] # "done"})

(***************************************************************************)
(* The program counters and what the threads hold in their local variables *)
(* agree: a thread that works on a page or a frame has one, the trim and   *)
(* disk threads have a batch exactly while they work on it, slots and      *)
(* frames of a batch stay paired, a frame the disk thread found rescued is *)
(* not marked again behind its back, and the thread count is the number of *)
(* threads that have not ended.                                            *)
(***************************************************************************)
ControlOK == UsersControlled /\ TrimControlled /\ DiskControlled /\ CountControlled

(* The flags the rescue path goes by say where the frame is.  A torn word  *)
(* may bring back one of them: that of the modified list.                  *)
FlagsAgree ==
    \A f \in Frames :
        /\ "wordTorn" \notin races =>
               (pfnArray[f].isOnModifiedList <=> f \in ToSet(modifiedList))
        /\ pfnArray[f].isOnStandbyList <=> f \in ToSet(standbyList)
        /\ pfnArray[f].isBeingWritten => f \in ToSet(swapFrames)

(***************************************************************************)
(* A frame is in exactly one list, or in the hands of exactly one thread,  *)
(* at every moment of every hand-over; no list links it twice; and the     *)
(* flags the rescue path goes by agree with the lists.  Of the code: the   *)
(* rescue order of resolvePageFault against evictFrame and swapToDisk.     *)
(* It ends where a frame is unlinked that is not in the list.              *)
(***************************************************************************)
FrameInOnePlace ==
    halted # "unlink" =>
        /\ \A f \in Frames : OnePlace(f)
        /\ \A list \in {freeList, activeList, modifiedList, standbyList, evictFrames} :
               IsInjective(list)
        /\ FlagsAgree

(***************************************************************************)
(* A slot whose bit is set has exactly one owner: the page that is stored  *)
(* there, the standby frame it is a copy of, or the thread about to use or *)
(* release it.  Slot 0 alone may be left without one, and that of a page   *)
(* that could not be filled.  A slot whose bit is clear has no owner.  Of  *)
(* the code: every ReleaseDiskSlot happens exactly once per reservation,   *)
(* in the paths of four functions and two threads.                         *)
(***************************************************************************)
SlotHasOneOwner ==
    "staleFrame" \notin races =>
        \A s \in DiskSlots :
            /\ Cardinality(SlotOwners(s)) <= 1
            /\ SlotOwners(s) # {} => s \in diskSlotBitmap
            /\ s \in diskSlotBitmap => SlotOwners(s) # {} \/ s = 0 \/ "unfilled" \in races

(***************************************************************************)
(* No ASSERT fails and no DebugBreak is reached unless a frame went stale, *)
(* and no frame is unlinked from a list it is not in unless a word was     *)
(* torn.                                                                   *)
(***************************************************************************)
NoAssertFails ==
    /\ "staleFrame" \notin races => halted # "assert"
    /\ "wordTorn" \notin races => halted # "unlink"

(***************************************************************************)
(* Through any number of evictions, rescues and swaps the program reads    *)
(* back of a page exactly the words it stored there, and zeros elsewhere;  *)
(* a page that slot 0 forgot reads as zeros.  Of the code: what checkVa    *)
(* was written to check, and more.  A torn word does no harm to this.      *)
(***************************************************************************)
ContentsRight ==
    races \subseteq {"wordTorn"} => \A p \in Pages : Stored(p) = {p} \X memory[p]

(***************************************************************************)
(* The hardware never maps two pages to one frame, and what it maps is     *)
(* what the PTE and the frame say; trim's batch is the only place where a  *)
(* valid PTE is not mapped.                                                *)
(***************************************************************************)
MappingAgrees ==
    "staleFrame" \notin races =>
        /\ \A p \in Pages : mapped[p] # None =>
               /\ pfnArray[mapped[p]].PTE = p
               /\ pageTable[p] = Valid(mapped[p])
        /\ \A p \in Pages : pageTable[p].isValid = 1 /\ mapped[p] = None =>
               /\ trimPC \in {"fix", "add"}
               /\ pageTable[p].number \in ToSet(evictFrames)

(***************************************************************************)
(* Only an unmapped page is mapped: of two threads that fault on the same  *)
(* page, the second finds the first one's work.                            *)
(***************************************************************************)
MapOnlyUnmapped ==
    [][\A p \in Pages : mapped[p] # None /\ "staleFrame" \notin races
                            => mapped'[p] \in {mapped[p], None}]_vars

FQ == INSTANCE FrameQueues WITH
          lists   <- [free |-> freeList, active |-> activeList,
                      modified |-> modifiedList, standby |-> standbyList],
          trusted <- "wordTorn" \notin races,
          astray  <- halted = "unlink"

(***************************************************************************)
(* All that the threads ever ask of the list functions is what FrameQueues *)
(* allows: only a frame in no list is added to one, and until a frame's    *)
(* word was torn only a frame that is in a list is unlinked from it.  The  *)
(* functions of utilities.c check neither, and their links are right only  *)
(* for such callers (LinkedFrameLists).                                    *)
(***************************************************************************)
UsesFrameQueues == FQ!Spec

PM == INSTANCE PagedMemory WITH
          contents  <- [p \in Pages |-> Stored(p)],
          forgotten <- 0 \in diskSlotBitmap /\ SlotOwners(0) = {},
          exact     <- races \subseteq {"wordTorn"}

(***************************************************************************)
(* The implementation of PagedMemory.  What is forgotten is the page whose *)
(* copy was in slot 0: the slot stays in use with nobody to release it, so *)
(* it is never reserved again and no second page is ever forgotten.        *)
(***************************************************************************)
ImplementsPagedMemory == PM!Spec

Ended == (\A u \in Users : pc[u] = "done") /\ trimPC = "done" /\ diskPC = "done"

(***************************************************************************)
(* Every run ends, with every thread through its last step, unless the     *)
(* process is stopped by an assertion or by the unlinking of an absent     *)
(* frame: no access faults for ever, no user thread misses the event that  *)
(* would wake it, no two threads wait for each other's PTE lock, and the   *)
(* trim and disk threads see the shutdown.  Runs that go through the       *)
(* unsynchronised windows end as well.                                     *)
(***************************************************************************)
ProgramEnds == <>(Ended \/ halted # "running")
=============================================================================
