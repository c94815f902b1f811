------------------------- MODULE PagedMemoryProofs -------------------------
(***************************************************************************)
(* The virtual memory implements PagedMemory, and what that rests on, for  *)
(* any users, pages, regions, frames, slots and batch size.                *)
(*                                                                         *)
(* The inductive invariant is built in three layers, each of which uses    *)
(* the ones before it and none of the ones after:                          *)
(*   PagesRight     which page a frame is for, where each page is, and     *)
(*                  what a thread knows while it holds a PTE lock;         *)
(*   SlotsRight     who owns each disk slot;                               *)
(*   ContentsKnown  what the frame or the slot of each page holds.         *)
(* A layer ends in the properties it implies.  Most steps disturb little   *)
(* of a layer, so the lemmas come in two kinds: that everything stays as   *)
(* long as certain variables do, and what the few actions that move a page *)
(* or a slot do to it (RescueTakes, LosesPage, TakesVictim, Maps).         *)
(*                                                                         *)
(* The first two layers hold until a frame goes stale, the third until a   *)
(* window other than the torn word is hit or a page could not be filled.   *)
(***************************************************************************)
EXTENDS VirtualMemoryProofs

USE DEF tables, storage, lists, userVars, trimVars, diskVars, otherThreads, counters, history,
        Queues

-----------------------------------------------------------------------------
(* Which page a frame is for, and where a page is.                         *)

(* The frame whose PTE trim has put in transition, but which is not yet in *)
(* the modified list.                                                      *)
Fixed(f) == trimPC = "add" /\ f = evictFrames[1]

(* A frame some page has, or had until trim's unmapping.                   *)
InUse(f) == f \in ToSet(activeList) \/ (f \in ToSet(evictFrames) /\ ~Fixed(f))
Unmapped(f) == trimPC \in {"fix", "add"} /\ f \in ToSet(evictFrames)

(* A frame a page may still be rescued with.                               *)
Leaving(f) ==
    \/ f \in ToSet(modifiedList) \/ f \in ToSet(standbyList) \/ f \in InWriting
    \/ f \in ToSet(evictFrames) /\ Fixed(f)
    \/ \E u \in Users : pc[u] = "updateVictim" /\ currentFrame[u] = f

(* A frame whose contents are also in its disk slot.                       *)
HasCopy(f) ==
    \/ f \in ToSet(standbyList)
    \/ \E u \in Users : pc[u] \in {"releaseSlot", "updateVictim"} /\ currentFrame[u] = f

(* Page p is being rescued with frame f.                                   *)
Rescued(p, f) ==
    \E u \in Users : pc[u] \in {"releaseSlot", "map"} /\ Page(u) = p /\ currentFrame[u] = f

OnDiskFormat(e) == \E s \in DiskSlots : e = Disk(s)

(* The steps of a fault at which a thread holds its page's PTE lock, and   *)
(* what it knows of the PTE at each of them.                               *)
Rescuing == {"checkWritten", "checkModified", "checkStandby", "releaseSlot"}
Filling == {"getFreeFrame", "takeStandby", "wipe", "swapIn", "copyIn"}
LockHeld == Rescuing \cup Filling \cup {"releasePTE", "map"}

ThreadOK(u) ==
    /\ pc[u] \in LockHeld => pteLockTable[Lock(Page(u))] = u
    /\ pc[u] \in Rescuing => pageTable[Page(u)] = Transition(currentFrame[u])
    /\ pc[u] \in Filling => pageTable[Page(u)] = pteContents[u] /\ OnDiskFormat(pteContents[u])
    /\ pc[u] = "wipe" => pteContents[u] = Zero
    /\ pc[u] \in {"swapIn", "copyIn"} => pteContents[u] # Zero
    /\ pc[u] = "map" => \/ pageTable[Page(u)] = Transition(currentFrame[u])
                        \/ OnDiskFormat(pageTable[Page(u)])

FrameOK(f) ==
    /\ InUse(f) => pfnArray[f].PTE \in Pages /\ pageTable[pfnArray[f].PTE] = Valid(f)
    /\ Leaving(f) => pfnArray[f].PTE \in Pages /\ pageTable[pfnArray[f].PTE] = Transition(f)
    /\ HasCopy(f) => pfnArray[f].diskIndex \in DiskSlots

PageOK(p) ==
    \/ \E f \in Frames :
           /\ pageTable[p] = Valid(f) /\ InUse(f) /\ pfnArray[f].PTE = p
           /\ mapped[p] = IF Unmapped(f) THEN None ELSE f
    \/ \E f \in Frames :
           /\ pageTable[p] = Transition(f) /\ pfnArray[f].PTE = p
           /\ Leaving(f) \/ Rescued(p, f)
           /\ mapped[p] = None
    \/ OnDiskFormat(pageTable[p]) /\ mapped[p] = None

PagesRight ==
    /\ \A u \in Users : ThreadOK(u)
    /\ \A f \in Frames : FrameOK(f)
    /\ \A p \in Pages : PageOK(p)

-----------------------------------------------------------------------------
(* The formats of a PTE are told apart, and so are the numbers in them.    *)
LEMMA Formats ==
    /\ \A f, g : Valid(f) = Valid(g) => f = g
    /\ \A f, g : Transition(f) = Transition(g) => f = g
    /\ \A f, g : Disk(f) = Disk(g) => f = g
    /\ \A f, g : Valid(f) # Transition(g) /\ Valid(f) # Disk(g) /\ Transition(f) # Disk(g)
    /\ \A f : /\ Valid(f).isValid = 1 /\ Valid(f).isTransition = 0 /\ Valid(f).number = f
              /\ Transition(f).isValid = 0 /\ Transition(f).isTransition = 1
              /\ Transition(f).number = f
              /\ Disk(f).isValid = 0 /\ Disk(f).isTransition = 0 /\ Disk(f).number = f
    /\ Zero = Disk(0)
<1>1. \A f : /\ Valid(f).isValid = 1 /\ Valid(f).isTransition = 0 /\ Valid(f).number = f
             /\ Transition(f).isValid = 0 /\ Transition(f).isTransition = 1
             /\ Transition(f).number = f
             /\ Disk(f).isValid = 0 /\ Disk(f).isTransition = 0 /\ Disk(f).number = f
  BY DEF Valid, Transition, Disk, PTE
<1>2. Zero = Disk(0)  BY DEF Zero, Disk
<1>3. \A f, g : Valid(f) = Valid(g) => f = g  BY <1>1
<1>4. \A f, g : Transition(f) = Transition(g) => f = g  BY <1>1
<1>5. \A f, g : Disk(f) = Disk(g) => f = g  BY <1>1
<1>6. \A f, g : Valid(f) # Transition(g) /\ Valid(f) # Disk(g) /\ Transition(f) # Disk(g)
  <2> TAKE f, g
  <2>1. Valid(f).isValid # Transition(g).isValid /\ Valid(f).isValid # Disk(g).isValid
        /\ Transition(f).isTransition # Disk(g).isTransition
    BY <1>1
  <2>. QED  BY <2>1
<1>. QED  BY <1>1, <1>2, <1>3, <1>4, <1>5, <1>6

(* Whose a frame is excludes what else may be done with it.                *)
LEMMA ApartFrames ==
    ASSUME Owned, NEW f \in Frames
    PROVE  /\ InUse(f) => ~Leaving(f) /\ ~HasCopy(f) /\ \A u \in Users : ~UserHolds(u, f)
           /\ Leaving(f) => \A u \in Users : UserHolds(u, f) => pc[u] = "updateVictim"
           /\ HasCopy(f) => f \notin InWriting /\ f \notin ToSet(modifiedList)
           /\ \A u, v \in Users : UserHolds(u, f) /\ UserHolds(v, f) => u = v
<1>1. /\ InOneListOnly(f) /\ \A u \in Users : UserHolds(u, f) => ~InAList(f)
      /\ \A u, v \in Users : UserHolds(u, f) /\ UserHolds(v, f) => u = v
  BY DEF Owned, Apart
<1>2. /\ \A u \in Users : pc[u] = "updateVictim" /\ currentFrame[u] = f => UserHolds(u, f)
      /\ \A u \in Users : pc[u] = "releaseSlot" /\ currentFrame[u] = f => UserHolds(u, f)
  BY DEF UserHolds, Holding
<1>. QED  BY <1>1, <1>2 DEF InUse, Leaving, HasCopy, InAList, InOneListOnly

-----------------------------------------------------------------------------
(* What other threads know of their pages stays true.                      *)

(* A user thread changes only its own program counter and variables.       *)
LEMMA UserMovesAlone ==
    ASSUME TypeOK, NEW u \in Users, AccessStep(u) \/ ResolveStep(u) \/ Shutdown(u)
    PROVE  \A v \in Users : v # u =>
               /\ pc'[v] = pc[v] /\ va'[v] = va[v] /\ pteContents'[v] = pteContents[v]
               /\ currentFrame'[v] = currentFrame[v]
<1>1. CASE AccessStep(u) \/ Shutdown(u)
  BY <1>1 DEF AccessStep, Store, Fault, Shutdown, GoTo, TypeOK, UsersTyped
<1>2. CASE \/ FaultOnValid(u) \/ ReleaseValid(u) \/ FaultInTransition(u) \/ FaultOnAbsent(u)
           \/ RescueWritten(u)
           \/ RescueModified(u) \/ RescueStandby(u) \/ ReleaseRescuedSlot(u)
  BY <1>2 DEF FaultOnValid, ReleaseValid, FaultInTransition, FaultOnAbsent, RescueWritten,
     RescueModified,
     RescueStandby, ReleaseRescuedSlot, GoTo, TypeOK, UsersTyped
<1>3. CASE \/ GetFreeFrame(u) \/ StandbyEmpty(u) \/ ResetFinished(u) \/ RequestTrim(u)
           \/ WaitFinished(u) \/ TakeStandbySameLock(u) \/ TakeStandbyOtherLock(u)
  BY <1>3 DEF GetFreeFrame, StandbyEmpty, ResetFinished, RequestTrim, WaitFinished,
     TakeStandbySameLock, TakeStandbyOtherLock, GoTo, TypeOK, UsersTyped
<1>4. CASE \/ UpdateVictim(u) \/ Reacquire(u) \/ WipePage(u) \/ SwapFromDisk(u)
           \/ CopyFromDisk(u) \/ SwapFromDiskFails(u) \/ MapPage(u)
  BY <1>4 DEF UpdateVictim, Reacquire, WipePage, SwapFromDisk, CopyFromDisk, SwapFromDiskFails,
     MapPage, GoTo, TypeOK, UsersTyped
<1>. QED  BY <1>1, <1>2, <1>3, <1>4 DEF ResolveStep

(* The page of a thread that holds its lock has a lock in the table.       *)
LEMMA HeldLock ==
    ASSUME TypeOK, ControlOK, NEW u \in Users, pc[u] \in LockHeld
    PROVE  Page(u) \in Pages /\ Lock(Page(u)) \in Regions
<1>1. Page(u) \in Pages
  BY WorksOnPage DEF LockHeld, Rescuing, Filling
<1>. QED  BY <1>1 DEF Lock, Regions

(* A lock that another thread holds is not touched.                        *)
LEMMA LocksRespected ==
    ASSUME TypeOK, ControlOK, NEW u \in Users, ThreadOK(u),
           AccessStep(u) \/ ResolveStep(u) \/ Shutdown(u)
    PROVE  \A r \in Regions, v \in Users :
               v # u /\ pteLockTable[r] = v => pteLockTable'[r] = v
<1>1. CASE UNCHANGED pteLockTable
  BY <1>1
<1>2. CASE pc[u] \in LockHeld /\ ReleasePTELock(Page(u))
  BY <1>2, HeldLock DEF ThreadOK, ReleasePTELock, TypeOK, SyncTyped
<1>3. CASE AcquirePTELock(u, Page(u))
  BY <1>3, ConstantProperties DEF AcquirePTELock, TypeOK, SyncTyped
<1>4. CASE AccessStep(u) \/ Shutdown(u)
  BY <1>1, <1>4 DEF AccessStep, Store, Fault, Shutdown
<1>5. CASE \/ FaultOnValid(u) \/ ReleaseValid(u) \/ FaultInTransition(u) \/ FaultOnAbsent(u)
           \/ RescueWritten(u)
           \/ RescueModified(u) \/ RescueStandby(u) \/ ReleaseRescuedSlot(u)
  BY <1>1, <1>2, <1>3, <1>5 DEF FaultOnValid, ReleaseValid, FaultInTransition, FaultOnAbsent,
     RescueWritten,
     RescueModified, RescueStandby, ReleaseRescuedSlot, LockHeld, Rescuing, Filling
<1>6. CASE \/ GetFreeFrame(u) \/ StandbyEmpty(u) \/ ResetFinished(u) \/ RequestTrim(u)
           \/ WaitFinished(u) \/ TakeStandbySameLock(u) \/ TakeStandbyOtherLock(u)
  BY <1>1, <1>2, <1>3, <1>6 DEF GetFreeFrame, StandbyEmpty, ResetFinished, RequestTrim,
     WaitFinished, TakeStandbySameLock, TakeStandbyOtherLock, LockHeld, Rescuing, Filling
<1>7. CASE \/ UpdateVictim(u) \/ Reacquire(u) \/ WipePage(u) \/ SwapFromDisk(u)
           \/ CopyFromDisk(u) \/ SwapFromDiskFails(u) \/ MapPage(u)
  BY <1>1, <1>2, <1>3, <1>7 DEF UpdateVictim, Reacquire, WipePage, SwapFromDisk, CopyFromDisk,
     SwapFromDiskFails, MapPage, LockHeld, Rescuing, Filling
<1>. QED  BY <1>4, <1>5, <1>6, <1>7 DEF ResolveStep

(* A PTE whose lock another thread holds is not touched.                   *)
LEMMA PagesRespected ==
    ASSUME TypeOK, ControlOK, NEW u \in Users, ThreadOK(u),
           AccessStep(u) \/ ResolveStep(u) \/ Shutdown(u)
    PROVE  \A p \in Pages, v \in Users :
               v # u /\ pteLockTable[Lock(p)] = v => pageTable'[p] = pageTable[p]
<1>1. CASE UNCHANGED pageTable
  BY <1>1
<1>2. CASE TakeStandbySameLock(u)
  <2>1. pteLockTable[Lock(pfnArray[standbyList[1]].PTE)] = u
    BY <1>2 DEF TakeStandbySameLock, ThreadOK, LockHeld, Filling
  <2>. QED  BY <1>2, <2>1 DEF TakeStandbySameLock, GiveToDisk, TypeOK, PagesTyped
<1>3. CASE UpdateVictim(u)
  BY <1>3, ConstantProperties DEF UpdateVictim, GiveToDisk, TypeOK, PagesTyped
<1>4. CASE MapPage(u)
  BY <1>4 DEF MapPage, TypeOK, PagesTyped, ThreadOK, LockHeld
<1>5. CASE AccessStep(u) \/ Shutdown(u)
  BY <1>1, <1>5 DEF AccessStep, Store, Fault, Shutdown
<1>6. CASE \/ FaultOnValid(u) \/ ReleaseValid(u) \/ FaultInTransition(u) \/ FaultOnAbsent(u)
           \/ RescueWritten(u)
           \/ RescueModified(u) \/ RescueStandby(u) \/ ReleaseRescuedSlot(u)
  BY <1>1, <1>6 DEF FaultOnValid, ReleaseValid, FaultInTransition, FaultOnAbsent, RescueWritten,
     RescueModified, RescueStandby, ReleaseRescuedSlot
<1>7. CASE \/ GetFreeFrame(u) \/ StandbyEmpty(u) \/ ResetFinished(u) \/ RequestTrim(u)
           \/ WaitFinished(u) \/ TakeStandbyOtherLock(u)
  BY <1>1, <1>7 DEF GetFreeFrame, StandbyEmpty, ResetFinished, RequestTrim,
     WaitFinished, TakeStandbyOtherLock
<1>8. CASE \/ Reacquire(u) \/ WipePage(u) \/ SwapFromDisk(u)
           \/ CopyFromDisk(u) \/ SwapFromDiskFails(u)
  BY <1>1, <1>8 DEF Reacquire, WipePage, SwapFromDisk, CopyFromDisk, SwapFromDiskFails
<1>. QED  BY <1>2, <1>3, <1>4, <1>5, <1>6, <1>7, <1>8 DEF ResolveStep

(* So the other threads' knowledge outlives the step.                      *)
LEMMA OthersStayRight ==
    ASSUME TypeOK, ControlOK, NEW u \in Users, ThreadOK(u),
           AccessStep(u) \/ ResolveStep(u) \/ Shutdown(u),
           NEW v \in Users, v # u, ThreadOK(v)
    PROVE  ThreadOK(v)'
<1>1. /\ pc'[v] = pc[v] /\ va'[v] = va[v] /\ pteContents'[v] = pteContents[v]
      /\ currentFrame'[v] = currentFrame[v]
  BY UserMovesAlone
<1>2. Page(v)' = Page(v)  BY <1>1 DEF Page
<1>3. CASE pc[v] \notin LockHeld
  BY <1>1, <1>3 DEF ThreadOK, LockHeld, Rescuing, Filling
<1>4. CASE pc[v] \in LockHeld
  <2>1. Page(v) \in Pages /\ Lock(Page(v)) \in Regions /\ pteLockTable[Lock(Page(v))] = v
    BY <1>4, HeldLock DEF ThreadOK
  <2>2. pteLockTable'[Lock(Page(v))] = v /\ pageTable'[Page(v)] = pageTable[Page(v)]
    BY <2>1, LocksRespected, PagesRespected
  <2>3. Lock(Page(v))' = Lock(Page(v))  BY <1>2 DEF Lock
  <2>. QED  BY <1>1, <1>2, <2>1, <2>2, <2>3 DEF ThreadOK, OnDiskFormat
<1>. QED  BY <1>3, <1>4

(* A thread that read a PTE under its lock knows in which format it is.    *)
LEMMA ReadsFormat ==
    ASSUME PagesRight, NEW p \in Pages
    PROVE  LET e == pageTable[p] IN
           /\ e.isValid = 0 /\ e.isTransition = 1 => e = Transition(e.number)
           /\ e.isValid = 0 /\ e.isTransition = 0 => OnDiskFormat(e)
           /\ e.isValid \in 0 .. 1 /\ e.isTransition \in 0 .. 1
BY Formats DEF PagesRight, PageOK, OnDiskFormat

(* What a thread knows of its own page stays true.                         *)
LEMMA OwnStaysRight ==
    ASSUME TypeOK, ControlOK, Owned, PagesRight, NEW u \in Users,
           AccessStep(u) \/ ResolveStep(u) \/ Shutdown(u), "staleFrame" \notin races'
    PROVE  ThreadOK(u)'
<1>1. ThreadOK(u)  BY DEF PagesRight
<1>2. CASE AccessStep(u) \/ Shutdown(u)
  BY <1>2 DEF AccessStep, Store, Fault, Shutdown, Accesses, GoTo, TypeOK, UsersTyped, ThreadOK,
     LockHeld, Rescuing, Filling
<1>3. CASE ReleaseValid(u) \/ StandbyEmpty(u) \/ ResetFinished(u) \/ RequestTrim(u)
           \/ WaitFinished(u) \/ TakeStandbyOtherLock(u) \/ UpdateVictim(u) \/ MapPage(u)
  BY <1>3 DEF ReleaseValid, StandbyEmpty, ResetFinished, RequestTrim, WaitFinished, AfterWait,
     TakeStandbyOtherLock, UpdateVictim, MapPage, GoTo, TypeOK, UsersTyped, ThreadOK, LockHeld,
     Rescuing, Filling
<1>4. CASE FaultOnValid(u) \/ FaultInTransition(u) \/ FaultOnAbsent(u)
  <2>1. Page(u) \in Pages /\ Lock(Page(u)) \in Regions
    BY <1>4, WorksOnPage DEF FaultOnValid, FaultInTransition, FaultOnAbsent, Lock, Regions
  <2>2. pteLockTable'[Lock(Page(u))] = u /\ UNCHANGED <<va, pageTable>>
    BY <1>4, <2>1 DEF FaultOnValid, FaultInTransition, FaultOnAbsent, AcquirePTELock,
       TypeOK, SyncTyped
  <2>3. Page(u)' = Page(u) /\ Lock(Page(u))' = Lock(Page(u))  BY <2>2 DEF Page, Lock
  <2>4. CASE FaultInTransition(u)
    <3>1. pc'[u] = "checkWritten" /\ pageTable[Page(u)] = Transition(currentFrame'[u])
      BY <2>1, <2>4, ReadsFormat DEF FaultInTransition, GoTo, TypeOK, UsersTyped
    <3>. QED  BY <2>2, <2>3, <3>1 DEF ThreadOK, LockHeld, Rescuing, Filling
  <2>5. CASE FaultOnAbsent(u)
    <3>1. /\ pc'[u] = "getFreeFrame" /\ pteContents'[u] = pageTable[Page(u)]
          /\ OnDiskFormat(pageTable[Page(u)])
      BY <2>1, <2>5, ReadsFormat DEF FaultOnAbsent, GoTo, TypeOK, UsersTyped
    <3>. QED  BY <2>2, <2>3, <3>1 DEF ThreadOK, LockHeld, Rescuing, Filling, OnDiskFormat
  <2>6. CASE FaultOnValid(u)
    <3>1. pc'[u] = "releasePTE"  BY <2>6 DEF FaultOnValid, GoTo, TypeOK, UsersTyped
    <3>. QED  BY <2>2, <2>3, <3>1 DEF ThreadOK, LockHeld, Rescuing, Filling
  <2>. QED  BY <1>4, <2>4, <2>5, <2>6
<1>5. CASE \/ RescueWritten(u) \/ RescueModified(u) \/ RescueStandby(u) \/ ReleaseRescuedSlot(u)
  <2>1. \/ pc'[u] = "access"
        \/ /\ pc[u] \in Rescuing /\ pc'[u] \in Rescuing \cup {"map"}
           /\ UNCHANGED <<pageTable, pteLockTable, va, currentFrame>>
    BY <1>5 DEF RescueWritten, RescueModified, RescueStandby, ReleaseRescuedSlot, GoTo, TypeOK,
       UsersTyped, Rescuing
  <2>. QED  BY <1>1, <2>1 DEF ThreadOK, LockHeld, Rescuing, Filling, Page, Lock
<1>6. CASE GetFreeFrame(u) \/ WipePage(u) \/ SwapFromDisk(u) \/ CopyFromDisk(u)
           \/ SwapFromDiskFails(u)
  <2>1. /\ pc[u] \in Filling /\ UNCHANGED <<pageTable, pteLockTable, va, pteContents>>
        /\ pc'[u] \in {"map", "takeStandby", "swapIn", "copyIn"}
        /\ pc'[u] \in {"swapIn", "copyIn"} => pteContents[u] # Zero
    BY <1>1, <1>6 DEF GetFreeFrame, WipePage, SwapFromDisk, CopyFromDisk, SwapFromDiskFails,
       GoTo, TypeOK, UsersTyped, Filling, ThreadOK
  <2>2. Page(u)' = Page(u) /\ Lock(Page(u))' = Lock(Page(u))  BY <2>1 DEF Page, Lock
  <2>. QED  BY <1>1, <2>1, <2>2 DEF ThreadOK, LockHeld, Rescuing, Filling, OnDiskFormat
<1>7. CASE TakeStandbySameLock(u)
  <2>1. Page(u) \in Pages  BY <1>7, HeldLock DEF TakeStandbySameLock, LockHeld, Filling
  <2>2. PICK f \in Frames : f = standbyList[1] /\ f \in ToSet(standbyList)
    BY <1>7, PopFirstProperties DEF TakeStandbySameLock, TypeOK, ListsTyped
  <2>3. pageTable[pfnArray[f].PTE] = Transition(f)
    BY <2>2 DEF PagesRight, FrameOK, Leaving
  <2>4. pageTable[Page(u)] = pteContents[u] /\ OnDiskFormat(pteContents[u])
    BY <1>1, <1>7 DEF ThreadOK, TakeStandbySameLock, Filling
  <2>5. pageTable'[Page(u)] = pageTable[Page(u)]
    BY <1>7, <2>1, <2>2, <2>3, <2>4, Formats
       DEF TakeStandbySameLock, GiveToDisk, TypeOK, PagesTyped, OnDiskFormat
  <2>6. /\ UNCHANGED <<pteLockTable, va, pteContents>> /\ pc[u] = "takeStandby"
        /\ pc'[u] = FillStep(pteContents[u])
    BY <1>7 DEF TakeStandbySameLock, GoTo, TypeOK, UsersTyped
  <2>7. Page(u)' = Page(u) /\ Lock(Page(u))' = Lock(Page(u))  BY <2>6 DEF Page, Lock
  <2>8. pteLockTable[Lock(Page(u))] = u
    BY <1>1, <2>6 DEF ThreadOK, LockHeld, Filling
  <2>. QED  BY <2>4, <2>5, <2>6, <2>7, <2>8
            DEF ThreadOK, LockHeld, Rescuing, Filling, OnDiskFormat, FillStep
<1>8. CASE Reacquire(u)
  <2> DEFINE now == pageTable[Page(u)]
  <2>1. Page(u) \in Pages /\ Lock(Page(u)) \in Regions
    BY <1>8, WorksOnPage DEF Reacquire, Lock, Regions
  <2>2. now.isValid # 1 /\ now.isTransition # 1
    BY <1>8 DEF Reacquire
  <2>3. OnDiskFormat(now)
    BY <2>1, <2>2, ReadsFormat
  <2>4. /\ UNCHANGED <<pageTable, va>> /\ pteLockTable'[Lock(Page(u))] = u
        /\ pteContents'[u] = now /\ pc'[u] = FillStep(now)
    BY <1>8, <2>1, <2>2 DEF Reacquire, AcquirePTELock, GoTo, TypeOK, UsersTyped, SyncTyped
  <2>5. Page(u)' = Page(u) /\ Lock(Page(u))' = Lock(Page(u))  BY <2>4 DEF Page, Lock
  <2>. QED  BY <2>3, <2>4, <2>5 DEF ThreadOK, LockHeld, Rescuing, Filling, OnDiskFormat, FillStep
<1>. QED  BY <1>2, <1>3, <1>4, <1>5, <1>6, <1>7, <1>8 DEF ResolveStep

(* The threads' knowledge through a step of one of them.                   *)
LEMMA ThreadsStayRight ==
    ASSUME TypeOK, ControlOK, Owned, PagesRight, NEW u \in Users,
           AccessStep(u) \/ ResolveStep(u) \/ Shutdown(u), "staleFrame" \notin races'
    PROVE  \A v \in Users : ThreadOK(v)'
<1>1. \A v \in Users : ThreadOK(v)  BY DEF PagesRight
<1>2. ThreadOK(u)'  BY OwnStaysRight
<1>3. ASSUME NEW v \in Users, v # u  PROVE ThreadOK(v)'
  BY <1>1, <1>3, OthersStayRight
<1>. QED  BY <1>2, <1>3

(* The trim thread changes a PTE only under its lock, the disk thread      *)
(* changes none.                                                           *)
LEMMA ThreadsKeepKnowing ==
    ASSUME TypeOK, ControlOK, Owned, PagesRight, TrimStep \/ DiskStep
    PROVE  \A v \in Users : ThreadOK(v)'
<1>1. /\ UNCHANGED <<va, pteContents, currentFrame, pteLockTable>>
      /\ \A v \in Users : pc'[v] # "access" => pc'[v] = pc[v]
  <2>1. CASE TrimStep
    BY <2>1 DEF TrimStep, TrimWait, PopActive, UnmapBatch, FixPTE, AddModified, SignalModWrite
  <2>2. CASE DiskStep
    BY <2>2 DEF DiskStep, DiskWait, ReserveSlots, CollectModified, WritePage, PublishPage,
       ReadFrameWord, WriteFrameWord, SignalFinished, TypeOK, UsersTyped
  <2>. QED  BY <2>1, <2>2
<1>2. ASSUME NEW p \in Pages, pteLockTable[Lock(p)] # None  PROVE pageTable'[p] = pageTable[p]
  <2>1. CASE FixPTE
    BY <1>2, <2>1, ConstantProperties DEF FixPTE, TypeOK, PagesTyped
  <2>2. CASE TrimStep /\ ~FixPTE
    BY <2>2 DEF TrimStep, TrimWait, PopActive, UnmapBatch, AddModified, SignalModWrite
  <2>3. CASE DiskStep
    BY <2>3 DEF DiskStep, DiskWait, ReserveSlots, CollectModified, WritePage, PublishPage,
       ReadFrameWord, WriteFrameWord, SignalFinished
  <2>. QED  BY <2>1, <2>2, <2>3
<1>3. ASSUME NEW v \in Users  PROVE ThreadOK(v)'
  <2>1. ThreadOK(v)  BY DEF PagesRight
  <2>2. CASE pc'[v] = "access"
    BY <2>2 DEF ThreadOK, LockHeld, Rescuing, Filling
  <2>3. CASE pc[v] \in LockHeld /\ pc'[v] = pc[v]
    <3>1. Page(v) \in Pages /\ pteLockTable[Lock(Page(v))] = v
      BY <2>1, <2>3, HeldLock DEF ThreadOK
    <3>2. pageTable'[Page(v)] = pageTable[Page(v)]
      BY <1>2, <3>1, ConstantProperties
    <3>3. Page(v)' = Page(v) /\ Lock(Page(v))' = Lock(Page(v))  BY <1>1 DEF Page, Lock
    <3>. QED  BY <1>1, <2>1, <2>3, <3>2, <3>3 DEF ThreadOK, OnDiskFormat
  <2>4. CASE pc[v] \notin LockHeld /\ pc'[v] = pc[v]
    BY <2>4 DEF ThreadOK, LockHeld, Rescuing, Filling
  <2>. QED  BY <1>1, <2>2, <2>3, <2>4
<1>. QED  BY <1>3

-----------------------------------------------------------------------------
(* Steps that leave pages and frames as they are.                          *)

(* A frame that stays where it is, or is no longer anywhere a page wants.  *)
LEMMA FrameStays ==
    ASSUME NEW f \in Frames, FrameOK(f), InUse(f)' => InUse(f), Leaving(f)' => Leaving(f),
           HasCopy(f)' => HasCopy(f) /\ pfnArray'[f].diskIndex = pfnArray[f].diskIndex,
           pfnArray'[f].PTE = pfnArray[f].PTE,
           InUse(f)' \/ Leaving(f)' => pageTable'[pfnArray[f].PTE] = pageTable[pfnArray[f].PTE]
    PROVE  FrameOK(f)'
BY DEF FrameOK

(* A page whose PTE is not changed, nor the place of its frame.            *)
LEMMA PageStays ==
    ASSUME NEW p \in Pages, PageOK(p), pageTable'[p] = pageTable[p], mapped'[p] = mapped[p],
           \A f \in Frames : pfnArray[f].PTE = p /\ pageTable[p] = Valid(f) /\ InUse(f) =>
               pfnArray'[f].PTE = p /\ InUse(f)' /\ (Unmapped(f)' <=> Unmapped(f)),
           \A f \in Frames :
               pfnArray[f].PTE = p /\ pageTable[p] = Transition(f) /\ (Leaving(f) \/ Rescued(p, f))
                   => pfnArray'[f].PTE = p /\ (Leaving(f)' \/ Rescued(p, f)')
    PROVE  PageOK(p)'
<1>1. CASE \E f \in Frames :
              /\ pageTable[p] = Valid(f) /\ InUse(f) /\ pfnArray[f].PTE = p
              /\ mapped[p] = IF Unmapped(f) THEN None ELSE f
  BY <1>1 DEF PageOK
<1>2. CASE \E f \in Frames :
              /\ pageTable[p] = Transition(f) /\ pfnArray[f].PTE = p
              /\ Leaving(f) \/ Rescued(p, f)
              /\ mapped[p] = None
  BY <1>2 DEF PageOK
<1>3. CASE OnDiskFormat(pageTable[p]) /\ mapped[p] = None
  BY <1>3 DEF PageOK, OnDiskFormat
<1>. QED  BY <1>1, <1>2, <1>3 DEF PageOK

(* A step that moves no frame, maps no page and touches no PTE.            *)
StillTables ==
    /\ UNCHANGED <<pageTable, mapped, activeList, modifiedList, standbyList, evictFrames>>
    /\ InWriting' = InWriting
    /\ evictFrames # <<>> => trimPC' = trimPC
    /\ \A f \in Frames : /\ pfnArray'[f].PTE = pfnArray[f].PTE
                         /\ HasCopy(f) => \/ pfnArray'[f].diskIndex = pfnArray[f].diskIndex
                                          \/ ~HasCopy(f)'

StillUsers ==
    \A v \in Users :
        /\ pc[v] = "updateVictim" <=> pc'[v] = "updateVictim"
        /\ pc'[v] = "updateVictim" => currentFrame'[v] = currentFrame[v]
        /\ pc'[v] = "releaseSlot" => pc[v] = "releaseSlot" /\ currentFrame'[v] = currentFrame[v]
        /\ pc[v] \in {"releaseSlot", "map"} =>
               /\ pc'[v] \in {"releaseSlot", "map"}
               /\ currentFrame'[v] = currentFrame[v] /\ va'[v] = va[v]

(* Where tables and users are still, frames and pages stay as they were.   *)
LEMMA TablesStay ==
    ASSUME TypeOK, PagesRight, StillTables, StillUsers
    PROVE  /\ \A f \in Frames : FrameOK(f)'
           /\ \A p \in Pages : PageOK(p)'
<1>1. ASSUME NEW f \in Frames
      PROVE  /\ InUse(f)' <=> InUse(f)
             /\ Leaving(f)' <=> Leaving(f)
             /\ HasCopy(f)' => HasCopy(f)
             /\ Unmapped(f)' <=> Unmapped(f)
  <2>1. f \in ToSet(evictFrames) => evictFrames # <<>>
    BY DEF ToSet
  <2>2. f \in ToSet(evictFrames) => (Fixed(f)' <=> Fixed(f)) /\ trimPC' = trimPC
    BY <2>1 DEF StillTables, Fixed
  <2>3. InUse(f)' <=> InUse(f)
    BY <2>2 DEF StillTables, InUse
  <2>4. Leaving(f)' <=> Leaving(f)
    BY <2>2 DEF StillTables, StillUsers, Leaving
  <2>5. HasCopy(f)' => HasCopy(f)
    BY DEF StillTables, StillUsers, HasCopy
  <2>6. Unmapped(f)' <=> Unmapped(f)
    BY <2>2 DEF StillTables, Unmapped
  <2>. QED  BY <2>3, <2>4, <2>5, <2>6
<1>2. ASSUME NEW p \in Pages, NEW f \in Frames, Rescued(p, f)  PROVE Rescued(p, f)'
  BY <1>2 DEF Rescued, StillUsers, Page
<1>3. ASSUME NEW f \in Frames  PROVE FrameOK(f)'
  BY <1>1, FrameStays DEF PagesRight, StillTables
<1>4. ASSUME NEW p \in Pages  PROVE PageOK(p)'
  BY <1>1, <1>2, PageStays DEF PagesRight, StillTables
<1>. QED  BY <1>3, <1>4

(* Most steps of a user thread.                                            *)
LEMMA UserTablesStay ==
    ASSUME TypeOK, ControlOK, Owned, PagesRight, NEW u \in Users,
           \/ AccessStep(u) \/ Shutdown(u) \/ FaultOnValid(u) \/ ReleaseValid(u)
           \/ FaultInTransition(u)
           \/ FaultOnAbsent(u) \/ GetFreeFrame(u) \/ StandbyEmpty(u) \/ ResetFinished(u)
           \/ RequestTrim(u) \/ WaitFinished(u) \/ WipePage(u) \/ CopyFromDisk(u)
           \/ SwapFromDiskFails(u)
    PROVE  (\A f \in Frames : FrameOK(f)') /\ \A p \in Pages : PageOK(p)'
<1>1. /\ UNCHANGED <<tables, activeList, modifiedList, standbyList, evictFrames, swapFrames>>
      /\ evictFrames # <<>> => trimPC' = trimPC
  <2>1. evictFrames # <<>> => trimPC # "blocked"
    BY DEF ControlOK, TrimControlled
  <2>2. CASE AccessStep(u) \/ Shutdown(u)
    BY <2>1, <2>2 DEF AccessStep, Store, Fault, Shutdown
  <2>3. CASE \/ FaultOnValid(u) \/ ReleaseValid(u) \/ FaultInTransition(u) \/ FaultOnAbsent(u)
             \/ StandbyEmpty(u)
             \/ ResetFinished(u) \/ RequestTrim(u) \/ WaitFinished(u)
    BY <2>1, <2>3 DEF FaultOnValid, ReleaseValid, FaultInTransition, FaultOnAbsent, StandbyEmpty,
       ResetFinished,
       RequestTrim, SetTrimEvent, WaitFinished
  <2>4. CASE GetFreeFrame(u) \/ WipePage(u) \/ CopyFromDisk(u) \/ SwapFromDiskFails(u)
    BY <2>4 DEF GetFreeFrame, WipePage, CopyFromDisk, SwapFromDiskFails
  <2>. QED  BY <2>2, <2>3, <2>4
<1>2. StillUsers
  <2>1. CASE AccessStep(u) \/ Shutdown(u)
    BY <2>1 DEF AccessStep, Store, Fault, Accesses, Shutdown, GoTo, TypeOK, UsersTyped, StillUsers
  <2>2. CASE FaultOnValid(u) \/ ReleaseValid(u) \/ FaultInTransition(u) \/ FaultOnAbsent(u)
             \/ StandbyEmpty(u)
    BY <2>2 DEF FaultOnValid, ReleaseValid, FaultInTransition, FaultOnAbsent, StandbyEmpty, GoTo,
       TypeOK,
       UsersTyped, StillUsers
  <2>3. CASE ResetFinished(u) \/ RequestTrim(u) \/ WaitFinished(u)
    BY <2>3 DEF ResetFinished, RequestTrim, WaitFinished, AfterWait, GoTo, TypeOK,
       UsersTyped, StillUsers
  <2>4. CASE GetFreeFrame(u) \/ WipePage(u) \/ CopyFromDisk(u) \/ SwapFromDiskFails(u)
    BY <2>4 DEF GetFreeFrame, WipePage, CopyFromDisk, SwapFromDiskFails, GoTo, TypeOK, UsersTyped,
       StillUsers
  <2>. QED  BY <2>1, <2>2, <2>3, <2>4
<1>3. StillTables
  BY <1>1, WritingKept DEF StillTables
<1>. QED  BY <1>2, <1>3, TablesStay

(* The steps of a user thread that only forget the slot of the frame in    *)
(* its hands.                                                              *)
LEMMA SlotTablesStay ==
    ASSUME TypeOK, ControlOK, Owned, PagesRight, NEW u \in Users,
           ReleaseRescuedSlot(u) \/ SwapFromDisk(u)
    PROVE  (\A f \in Frames : FrameOK(f)') /\ \A p \in Pages : PageOK(p)'
<1>1. PICK f \in Frames : f = currentFrame[u]
  BY WorksOnFrame DEF ReleaseRescuedSlot, SwapFromDisk, NeedsFrame, Holding
<1>2. /\ UNCHANGED <<pageTable, mapped, activeList, modifiedList, standbyList, evictFrames,
                     swapFrames, trimPC, currentFrame, va>>
      /\ pfnArray' = [pfnArray EXCEPT ![f] = OnDisk(pfnArray[f], InvalidDiskSlot)]
  BY <1>1 DEF ReleaseRescuedSlot, SwapFromDisk
<1>3. /\ pc[u] \in {"releaseSlot", "swapIn"} /\ pc'[u] \in {"map", "copyIn"}
      /\ pc[u] = "releaseSlot" => pc'[u] = "map"
      /\ \A v \in Users : v # u => pc'[v] = pc[v]
  BY DEF ReleaseRescuedSlot, SwapFromDisk, GoTo, TypeOK, UsersTyped
<1>4. /\ \A g \in Frames : g # f => pfnArray'[g] = pfnArray[g]
      /\ pfnArray'[f].PTE = pfnArray[f].PTE
      /\ pfnArray'[f].isBeingWritten = pfnArray[f].isBeingWritten
  <2>1. pfnArray[f] \in FrameRecords  BY DEF TypeOK, FramesTyped
  <2>. QED  BY <1>2, <2>1 DEF TypeOK, FramesTyped, FrameRecords, OnDisk
<1>5. ~HasCopy(f)'
  <2>1. UserHolds(u, f)  BY <1>1, <1>3 DEF UserHolds, Holding
  <2>2. f \notin ToSet(standbyList) /\ \A v \in Users : UserHolds(v, f) => v = u
    BY <2>1 DEF Owned, Apart, InAList
  <2>. QED  BY <1>2, <1>3, <2>2 DEF HasCopy, UserHolds, Holding
<1>6. InWriting' = InWriting
  BY <1>2, <1>4, WritingKept
<1>7. StillTables  BY <1>2, <1>4, <1>5, <1>6 DEF StillTables
<1>8. StillUsers  BY <1>2, <1>3 DEF StillUsers
<1>. QED  BY <1>7, <1>8, TablesStay

(* A thread that reads its PTE again and finds it as it left it.           *)
LEMMA ReacquireTablesStay ==
    ASSUME TypeOK, ControlOK, Owned, PagesRight, NEW u \in Users,
           Reacquire(u), "staleFrame" \notin races'
    PROVE  (\A f \in Frames : FrameOK(f)') /\ \A p \in Pages : PageOK(p)'
<1>1. pageTable[Page(u)].isValid # 1
  BY DEF Reacquire
<1>2. /\ UNCHANGED <<tables, Queues, swapFrames, trimPC, currentFrame, va>>
      /\ pc[u] = "reacquire" /\ pc'[u] \in {"wipe", "swapIn"}
      /\ \A v \in Users : v # u => pc'[v] = pc[v]
  BY <1>1 DEF Reacquire, GoTo, FillStep, TypeOK, UsersTyped
<1>3. StillTables  BY <1>2, WritingKept DEF StillTables
<1>4. StillUsers  BY <1>2 DEF StillUsers
<1>. QED  BY <1>3, <1>4, TablesStay

(* A rescue that does not find its frame in this place.                    *)
LEMMA NoRescueTablesStay ==
    ASSUME TypeOK, ControlOK, Owned, PagesRight, NEW u \in Users,
           \/ RescueWritten(u) /\ ~pfnArray[currentFrame[u]].isBeingWritten
           \/ RescueModified(u) /\ ~pfnArray[currentFrame[u]].isOnModifiedList
           \/ RescueStandby(u) /\ ~pfnArray[currentFrame[u]].isOnStandbyList
    PROVE  (\A f \in Frames : FrameOK(f)') /\ \A p \in Pages : PageOK(p)'
<1>1. /\ UNCHANGED <<tables, Queues, swapFrames, trimPC, va>>
      /\ pc[u] \in {"checkWritten", "checkModified", "checkStandby"}
      /\ pc'[u] \in {"checkModified", "checkStandby", "access"}
      /\ \A v \in Users : v # u => pc'[v] = pc[v] /\ currentFrame'[v] = currentFrame[v]
  BY DEF RescueWritten, RescueModified, RescueStandby, GoTo, TypeOK, UsersTyped
<1>2. StillTables  BY <1>1, WritingKept DEF StillTables
<1>3. StillUsers  BY <1>1 DEF StillUsers
<1>. QED  BY <1>2, <1>3, TablesStay

(* What a frame word written back changes of a rescued frame.              *)
LEMMA WriteFrameWordEffect ==
    ASSUME TypeOK, ControlOK, Owned, BatchApart, WriteFrameWord
    PROVE  \E f \in Frames :
               /\ f = swapFrames[1] /\ ~HasCopy(f) /\ InWriting' = InWriting
               /\ \A g \in Frames : g # f => pfnArray'[g] = pfnArray[g]
               /\ pfnArray'[f].PTE = pfnArray[f].PTE
<1>1. swapFrames # <<>>
  BY DEF ControlOK, DiskControlled, WriteFrameWord
<1>2. PICK f \in Frames : f = swapFrames[1] /\ f \in ToSet(swapFrames)
  BY <1>1, PopFirstProperties DEF TypeOK, DiskTyped
<1> DEFINE new == [word EXCEPT !.PTE = pfnArray[f].PTE, !.diskIndex = InvalidDiskSlot]
<1>3. swapFrames' = AfterPop(swapFrames, 1) /\ pfnArray' = [pfnArray EXCEPT ![f] = new]
  BY <1>2 DEF WriteFrameWord
<1>4. (\A g \in Frames : g # f => pfnArray'[g] = pfnArray[g]) /\ pfnArray'[f] = new
  BY <1>3 DEF TypeOK, FramesTyped
<1>5. new.PTE = pfnArray[f].PTE /\ ~new.isBeingWritten
  <2>1. word \in FrameRecords  BY DEF ControlOK, DiskControlled, WriteFrameWord
  <2>2. ~word.isBeingWritten  BY DEF BatchApart, WriteFrameWord
  <2>. QED  BY <2>1, <2>2 DEF FrameRecords
<1>. HIDE DEF new
<1>6. InWriting' = InWriting
  <2>1. ToSet(swapFrames) = ToSet(swapFrames') \cup {f}
    BY <1>1, <1>2, <1>3, PopFirstProperties DEF TypeOK, DiskTyped
  <2>2. ~pfnArray[f].isBeingWritten
    BY <1>2 DEF ControlOK, DiskControlled, WriteFrameWord
  <2>3. ToSet(swapFrames) \subseteq Frames
    BY LenProperties, ElementOfSeq DEF TypeOK, DiskTyped, ToSet
  <2>. QED  BY <1>4, <1>5, <2>1, <2>2, <2>3 DEF InWriting
<1>7. ~HasCopy(f)
  BY <1>2 DEF BatchApart, BatchFrame, FromStandby, HasCopy
<1>. QED  BY <1>2, <1>4, <1>5, <1>6, <1>7

(* The steps of the trim and disk threads that move no frame.              *)
LEMMA ThreadTablesStay ==
    ASSUME TypeOK, ControlOK, Owned, BatchApart, PagesRight,
           \/ TrimWait \/ SignalModWrite \/ DiskWait \/ ReserveSlots \/ WritePage
           \/ ReadFrameWord \/ WriteFrameWord \/ SignalFinished
    PROVE  (\A f \in Frames : FrameOK(f)') /\ \A p \in Pages : PageOK(p)'
<1>1. StillUsers
  <2>1. CASE SignalFinished
    BY <2>1 DEF SignalFinished, TypeOK, UsersTyped, StillUsers
  <2>2. CASE ~SignalFinished
    BY <2>2 DEF TrimWait, SignalModWrite, DiskWait, ReserveSlots, WritePage, ReadFrameWord,
       WriteFrameWord, StillUsers
  <2>. QED  BY <2>1, <2>2
<1>2. StillTables
  <2>1. CASE WriteFrameWord
    <3>1. UNCHANGED <<pageTable, mapped, Queues, trimPC, pc, currentFrame>>
      BY <2>1 DEF WriteFrameWord
    <3>. QED  BY <2>1, <3>1, WriteFrameWordEffect DEF StillTables, HasCopy
  <2>2. CASE TrimWait \/ SignalModWrite
    <3>1. evictFrames = <<>>  BY <2>2 DEF ControlOK, TrimControlled, TrimWait, SignalModWrite
    <3>2. UNCHANGED <<tables, Queues, swapFrames>>  BY <2>2 DEF TrimWait, SignalModWrite
    <3>. QED  BY <3>1, <3>2, WritingKept DEF StillTables
  <2>3. CASE DiskWait \/ ReserveSlots \/ WritePage \/ ReadFrameWord \/ SignalFinished
    <3>1. UNCHANGED <<tables, Queues, swapFrames, trimPC>>
      BY <2>3 DEF DiskWait, ReserveSlots, WritePage, ReadFrameWord, SignalFinished
    <3>. QED  BY <3>1, WritingKept DEF StillTables
  <2>. QED  BY <2>1, <2>2, <2>3
<1>. QED  BY <1>1, <1>2, TablesStay

-----------------------------------------------------------------------------
(* Steps that move a frame.                                                *)

(* What a thread does that finds the frame of its page and takes it.       *)
RescueTakes(u, f) ==
    /\ pc[u] \in {"checkWritten", "checkModified", "checkStandby"} /\ currentFrame[u] = f
    /\ pc'[u] \in {"map", "releaseSlot"}
    /\ \A v \in Users : v # u => pc'[v] = pc[v]
    /\ UNCHANGED <<pageTable, mapped, storage, diskSlotBitmap, activeList, evictFrames, trimPC,
                   diskVars, va, pteContents, currentFrame, history>>
    /\ \A g \in Frames : /\ pfnArray'[g].PTE = pfnArray[g].PTE
                         /\ pfnArray'[g].diskIndex = pfnArray[g].diskIndex
    /\ ToSet(modifiedList') = IF pc[u] = "checkModified" THEN ToSet(modifiedList) \ {f}
                                                         ELSE ToSet(modifiedList)
    /\ ToSet(standbyList') = IF pc[u] = "checkStandby" THEN ToSet(standbyList) \ {f}
                                                       ELSE ToSet(standbyList)
    /\ InWriting' = IF pc[u] = "checkWritten" THEN InWriting \ {f} ELSE InWriting
    /\ pc'[u] = "releaseSlot" <=> pc[u] = "checkStandby"
    /\ pc[u] = "checkStandby" => f \in ToSet(standbyList)

(* A rescue from the disk thread takes the frame for its page.             *)
LEMMA RescueWrittenEffect ==
    ASSUME TypeOK, ControlOK, Owned, NEW u \in Users, RescueWritten(u),
           pfnArray[currentFrame[u]].isBeingWritten
    PROVE  \E f \in Frames : RescueTakes(u, f)
<1>1. PICK f \in Frames : f = currentFrame[u]
  BY WorksOnFrame DEF RescueWritten, NeedsFrame
<1>2. pfnArray' = [pfnArray EXCEPT ![f] = UnmarkWritten(pfnArray[f])]
  BY <1>1 DEF RescueWritten
<1>3. /\ \A g \in Frames : g # f => pfnArray'[g] = pfnArray[g]
      /\ pfnArray'[f].isBeingWritten = FALSE
      /\ pfnArray'[f].PTE = pfnArray[f].PTE /\ pfnArray'[f].diskIndex = pfnArray[f].diskIndex
  <2>1. pfnArray[f] \in FrameRecords  BY DEF TypeOK, FramesTyped
  <2>. QED  BY <1>2, <2>1 DEF TypeOK, FramesTyped, FrameRecords, UnmarkWritten
<1>4. InWriting' = InWriting \ {f}
  <2>1. ToSet(swapFrames) \subseteq Frames
    BY LenProperties, ElementOfSeq DEF TypeOK, DiskTyped, ToSet
  <2>2. swapFrames' = swapFrames  BY DEF RescueWritten
  <2>. QED  BY <1>3, <2>1, <2>2 DEF InWriting
<1>5. pc[u] = "checkWritten" /\ pc'[u] = "map" /\ \A v \in Users : v # u => pc'[v] = pc[v]
  BY DEF RescueWritten, GoTo, TypeOK, UsersTyped
<1>6. UNCHANGED <<pageTable, mapped, storage, diskSlotBitmap, activeList, evictFrames, trimPC,
                  diskVars, va, pteContents, currentFrame, history, modifiedList, standbyList>>
  BY DEF RescueWritten
<1>7. \A g \in Frames : /\ pfnArray'[g].PTE = pfnArray[g].PTE
                        /\ pfnArray'[g].diskIndex = pfnArray[g].diskIndex
  BY <1>3
<1>. QED  BY <1>1, <1>4, <1>5, <1>6, <1>7 DEF RescueTakes

(* A rescue from the modified list takes the frame for its page.           *)
LEMMA RescueModifiedEffect ==
    ASSUME TypeOK, ControlOK, Owned, NEW u \in Users, RescueModified(u),
           pfnArray[currentFrame[u]].isOnModifiedList
    PROVE  \E f \in Frames : RescueTakes(u, f)
<1>1. PICK f \in Frames : f = currentFrame[u]
  BY WorksOnFrame DEF RescueModified, NeedsFrame
<1>2. pfnArray' = [pfnArray EXCEPT ![f] = OffModified(pfnArray[f])]
  BY <1>1 DEF RescueModified
<1>3. /\ \A g \in Frames : /\ pfnArray'[g].isBeingWritten = pfnArray[g].isBeingWritten
                           /\ pfnArray'[g].PTE = pfnArray[g].PTE
                           /\ pfnArray'[g].diskIndex = pfnArray[g].diskIndex
  <2>1. pfnArray[f] \in FrameRecords  BY DEF TypeOK, FramesTyped
  <2>2. /\ \A g \in Frames : g # f => pfnArray'[g] = pfnArray[g]
        /\ pfnArray'[f] = OffModified(pfnArray[f])
    BY <1>2 DEF TypeOK, FramesTyped
  <2>. QED  BY <2>1, <2>2 DEF FrameRecords, OffModified
<1>4. ToSet(modifiedList') = ToSet(modifiedList) \ {f}
  BY <1>1, RemoveFromFrameListProperties
     DEF RescueModified, TypeOK, ListsTyped, Owned, NoDuplicates
<1>5. InWriting' = InWriting
  <2>1. swapFrames' = swapFrames  BY DEF RescueModified
  <2>. QED  BY <1>3, <2>1, WritingKept
<1>6. pc[u] = "checkModified" /\ pc'[u] = "map" /\ \A v \in Users : v # u => pc'[v] = pc[v]
  BY DEF RescueModified, GoTo, TypeOK, UsersTyped
<1>7. UNCHANGED <<pageTable, mapped, storage, diskSlotBitmap, activeList, evictFrames, trimPC,
                  diskVars, va, pteContents, currentFrame, history, standbyList>>
  BY DEF RescueModified
<1>. QED  BY <1>1, <1>3, <1>4, <1>5, <1>6, <1>7 DEF RescueTakes

(* A rescue from the standby list takes the frame for its page.            *)
LEMMA RescueStandbyEffect ==
    ASSUME TypeOK, ControlOK, Owned, NEW u \in Users, RescueStandby(u),
           pfnArray[currentFrame[u]].isOnStandbyList
    PROVE  \E f \in Frames : RescueTakes(u, f)
<1>1. PICK f \in Frames : f = currentFrame[u]
  BY WorksOnFrame DEF RescueStandby, NeedsFrame
<1>2. pfnArray' = [pfnArray EXCEPT ![f] = OffStandby(pfnArray[f])]
  BY <1>1 DEF RescueStandby
<1>3. /\ \A g \in Frames : /\ pfnArray'[g].isBeingWritten = pfnArray[g].isBeingWritten
                           /\ pfnArray'[g].PTE = pfnArray[g].PTE
                           /\ pfnArray'[g].diskIndex = pfnArray[g].diskIndex
  <2>1. pfnArray[f] \in FrameRecords  BY DEF TypeOK, FramesTyped
  <2>2. /\ \A g \in Frames : g # f => pfnArray'[g] = pfnArray[g]
        /\ pfnArray'[f] = OffStandby(pfnArray[f])
    BY <1>2 DEF TypeOK, FramesTyped
  <2>. QED  BY <2>1, <2>2 DEF FrameRecords, OffStandby
<1>4. ToSet(standbyList') = ToSet(standbyList) \ {f} /\ f \in ToSet(standbyList)
  BY <1>1, RemoveFromFrameListProperties
     DEF RescueStandby, TypeOK, ListsTyped, Owned, NoDuplicates, FlagsAgree
<1>5. InWriting' = InWriting
  <2>1. swapFrames' = swapFrames  BY DEF RescueStandby
  <2>. QED  BY <1>3, <2>1, WritingKept
<1>6. pc[u] = "checkStandby" /\ pc'[u] = "releaseSlot" /\ \A v \in Users : v # u => pc'[v] = pc[v]
  BY DEF RescueStandby, GoTo, TypeOK, UsersTyped
<1>7. UNCHANGED <<pageTable, mapped, storage, diskSlotBitmap, activeList, evictFrames, trimPC,
                  diskVars, va, pteContents, currentFrame, history, modifiedList>>
  BY DEF RescueStandby
<1>. QED  BY <1>1, <1>3, <1>4, <1>5, <1>6, <1>7 DEF RescueTakes

(* A page whose frame is taken is the one being rescued.                   *)
LEMMA RescueTablesStay ==
    ASSUME TypeOK, ControlOK, Owned, PagesRight, NEW u \in Users, NEW f \in Frames,
           RescueTakes(u, f)
    PROVE  (\A g \in Frames : FrameOK(g)') /\ \A p \in Pages : PageOK(p)'
<1>1. Page(u) \in Pages /\ pageTable[Page(u)] = Transition(f)
  BY HeldLock DEF RescueTakes, LockHeld, Rescuing, PagesRight, ThreadOK
<1>2. pfnArray[f].PTE = Page(u)
  BY <1>1, Formats DEF PagesRight, PageOK, OnDiskFormat
<1>3. ASSUME NEW g \in Frames
      PROVE  /\ InUse(g)' <=> InUse(g)
             /\ Unmapped(g)' <=> Unmapped(g)
             /\ Leaving(g)' => Leaving(g)
             /\ Leaving(g) /\ g # f => Leaving(g)'
             /\ HasCopy(g)' => HasCopy(g)
  <2>1. (Fixed(g)' <=> Fixed(g)) /\ (InUse(g)' <=> InUse(g)) /\ (Unmapped(g)' <=> Unmapped(g))
    BY DEF RescueTakes, InUse, Fixed, Unmapped
  <2>2. \A v \in Users : (pc'[v] = "updateVictim" <=> pc[v] = "updateVictim")
    BY DEF RescueTakes
  <2>3. (Leaving(g)' => Leaving(g)) /\ (Leaving(g) /\ g # f => Leaving(g)')
    BY <2>1, <2>2 DEF RescueTakes, Leaving
  <2>4. HasCopy(g)' => HasCopy(g)
    <3>1. \A v \in Users : v # u => pc'[v] = pc[v]  BY DEF RescueTakes
    <3>2. pc'[u] \in {"releaseSlot", "updateVictim"} => HasCopy(f)
      BY DEF RescueTakes, HasCopy
    <3>3. ToSet(standbyList') \subseteq ToSet(standbyList) /\ currentFrame' = currentFrame
          /\ currentFrame[u] = f
      BY DEF RescueTakes
    <3>. QED  BY <3>1, <3>2, <3>3 DEF HasCopy
  <2>. QED  BY <2>1, <2>3, <2>4
<1>4. ASSUME NEW p \in Pages, NEW g \in Frames, Rescued(p, g)  PROVE Rescued(p, g)'
  BY <1>4 DEF Rescued, RescueTakes, Page
<1>5. ASSUME NEW p \in Pages, p = Page(u)  PROVE Rescued(p, f)'
  BY <1>5 DEF Rescued, RescueTakes, Page
<1>6. ASSUME NEW g \in Frames  PROVE FrameOK(g)'
  BY <1>3, FrameStays DEF PagesRight, RescueTakes
<1>7. ASSUME NEW p \in Pages  PROVE PageOK(p)'
  <2>1. pageTable'[p] = pageTable[p] /\ mapped'[p] = mapped[p]
        /\ \A g \in Frames : pfnArray'[g].PTE = pfnArray[g].PTE
    BY DEF RescueTakes
  <2>2. \A g \in Frames : pfnArray[g].PTE = p /\ (Leaving(g) \/ Rescued(p, g))
                             => Leaving(g)' \/ Rescued(p, g)'
    BY <1>2, <1>3, <1>4, <1>5
  <2>. QED  BY <1>3, <2>1, <2>2, PageStays DEF PagesRight
<1>. QED  BY <1>6, <1>7

(* What a thread does that takes a frame off the standby list for its own  *)
(* page, or gives the victim's PTE to the disk afterwards.                 *)
LosesPage(f, u) ==
    /\ pageTable' = [pageTable EXCEPT ![pfnArray[f].PTE] = Disk(pfnArray[f].diskIndex)]
    /\ memory' = IF pfnArray[f].diskIndex = 0 THEN [memory EXCEPT ![pfnArray[f].PTE] = {}]
                                              ELSE memory
    /\ UNCHANGED <<mapped, storage, diskSlotBitmap, activeList, modifiedList, evictFrames,
                   trimPC, diskVars, va, pteContents, races>>
    /\ InWriting' = InWriting
    /\ \A g \in Frames : /\ pfnArray'[g].PTE = pfnArray[g].PTE
                         /\ g # f => pfnArray'[g].diskIndex = pfnArray[g].diskIndex
    /\ ToSet(standbyList') = ToSet(standbyList) \ {f}
    /\ \A v \in Users : v # u => pc'[v] = pc[v] /\ currentFrame'[v] = currentFrame[v]
    /\ pc[u] \in {"takeStandby", "updateVictim"} /\ pc'[u] \in {"wipe", "swapIn", "reacquire"}
    /\ currentFrame'[u] = f
    /\ pc[u] = "takeStandby" => f \in ToSet(standbyList)
    /\ pc[u] = "updateVictim" => currentFrame[u] = f

(* With the lock in hand the victim loses its page at once.                *)
LEMMA TakeStandbyEffect ==
    ASSUME TypeOK, ControlOK, Owned, NEW u \in Users, TakeStandbySameLock(u)
    PROVE  \E f \in Frames : LosesPage(f, u)
<1>1. standbyList # <<>>  BY DEF TakeStandbySameLock
<1>2. PICK f \in Frames : f = standbyList[1]
  BY <1>1, PopFirstProperties DEF TypeOK, ListsTyped
<1>3. /\ f \in ToSet(standbyList)
      /\ ToSet(standbyList') = ToSet(standbyList) \ {f}
  BY <1>1, <1>2, PopFirstProperties
     DEF TakeStandbySameLock, TypeOK, ListsTyped, Owned, NoDuplicates
<1>4. \A g \in Frames : /\ pfnArray'[g].PTE = pfnArray[g].PTE
                        /\ pfnArray'[g].isBeingWritten = pfnArray[g].isBeingWritten
                        /\ g # f => pfnArray'[g].diskIndex = pfnArray[g].diskIndex
  <2>1. pfnArray[f] \in FrameRecords /\ InvalidDiskSlot \in Nat
    BY ConstantProperties DEF TypeOK, FramesTyped
  <2>2. /\ \A g \in Frames : g # f => pfnArray'[g] = pfnArray[g]
        /\ pfnArray'[f] = OnDisk(OffStandby(pfnArray[f]), InvalidDiskSlot)
    BY <1>2 DEF TypeOK, FramesTyped, TakeStandbySameLock
  <2>. QED  BY <2>1, <2>2 DEF FrameRecords, OffStandby, OnDisk
<1>5. InWriting' = InWriting
  <2>1. swapFrames' = swapFrames  BY DEF TakeStandbySameLock
  <2>. QED  BY <1>4, <2>1, WritingKept
<1>6. /\ \A v \in Users : v # u => pc'[v] = pc[v] /\ currentFrame'[v] = currentFrame[v]
      /\ pc[u] = "takeStandby" /\ pc'[u] \in {"wipe", "swapIn"} /\ currentFrame'[u] = f
  BY <1>2 DEF TakeStandbySameLock, GoTo, FillStep, TypeOK, UsersTyped
<1>7. /\ pageTable' = [pageTable EXCEPT ![pfnArray[f].PTE] = Disk(pfnArray[f].diskIndex)]
      /\ memory' = IF pfnArray[f].diskIndex = 0 THEN [memory EXCEPT ![pfnArray[f].PTE] = {}]
                                                ELSE memory
      /\ UNCHANGED <<mapped, storage, diskSlotBitmap, activeList, modifiedList, evictFrames,
                     trimPC, diskVars, va, pteContents, races>>
  BY <1>2 DEF TakeStandbySameLock, GiveToDisk
<1>. QED  BY <1>3, <1>4, <1>5, <1>6, <1>7 DEF LosesPage

(* With two locks it loses it when both are held.                          *)
LEMMA UpdateVictimEffect ==
    ASSUME TypeOK, ControlOK, Owned, NEW u \in Users, UpdateVictim(u)
    PROVE  \E f \in Frames : LosesPage(f, u)
<1>1. PICK f \in Frames : f = currentFrame[u]
  BY WorksOnFrame DEF UpdateVictim, NeedsFrame, Holding
<1>2. f \notin ToSet(standbyList)
  BY <1>1 DEF UpdateVictim, UserHolds, Holding, Owned, Apart, InAList
<1>3. UNCHANGED <<pfnArray, swapFrames, standbyList>> /\ InWriting' = InWriting
  BY WritingKept DEF UpdateVictim
<1>4. /\ \A v \in Users : v # u => pc'[v] = pc[v] /\ currentFrame'[v] = currentFrame[v]
      /\ pc[u] = "updateVictim" /\ pc'[u] = "reacquire" /\ currentFrame'[u] = f
  BY <1>1 DEF UpdateVictim, GoTo, TypeOK, UsersTyped
<1>5. /\ pageTable' = [pageTable EXCEPT ![pfnArray[f].PTE] = Disk(pfnArray[f].diskIndex)]
      /\ memory' = IF pfnArray[f].diskIndex = 0 THEN [memory EXCEPT ![pfnArray[f].PTE] = {}]
                                                ELSE memory
      /\ UNCHANGED <<mapped, storage, diskSlotBitmap, activeList, modifiedList, evictFrames,
                     trimPC, diskVars, va, pteContents, races>>
  BY <1>1 DEF UpdateVictim, GiveToDisk
<1>. QED  BY <1>1, <1>2, <1>3, <1>4, <1>5 DEF LosesPage

(* What is known of a frame that loses its page.                           *)
LEMMA LosesKnown ==
    ASSUME TypeOK, ControlOK, Owned, PagesRight, NEW u \in Users, NEW f \in Frames,
           LosesPage(f, u)
    PROVE  /\ Leaving(f) /\ HasCopy(f) /\ ~InUse(f)
           /\ pfnArray[f].PTE \in Pages /\ pageTable[pfnArray[f].PTE] = Transition(f)
           /\ pfnArray[f].diskIndex \in DiskSlots
           /\ mapped[pfnArray[f].PTE] = None
           /\ \A v \in Users : UserHolds(v, f) => v = u /\ pc[u] = "updateVictim"
<1>1. Leaving(f) /\ HasCopy(f)
  BY DEF LosesPage, Leaving, HasCopy
<1>2. ~InUse(f)  BY <1>1, ApartFrames
<1>3. /\ pfnArray[f].PTE \in Pages /\ pageTable[pfnArray[f].PTE] = Transition(f)
      /\ pfnArray[f].diskIndex \in DiskSlots
  BY <1>1 DEF PagesRight, FrameOK
<1>4. mapped[pfnArray[f].PTE] = None
  BY <1>3, Formats DEF PagesRight, PageOK
<1>5. ASSUME NEW v \in Users, UserHolds(v, f)  PROVE v = u /\ pc[u] = "updateVictim"
  <2>1. pc[u] # "takeStandby"
    BY <1>5 DEF LosesPage, Owned, Apart, InAList
  <2>2. pc[u] = "updateVictim" /\ UserHolds(u, f)
    BY <2>1 DEF LosesPage, UserHolds, Holding
  <2>. QED  BY <1>5, <2>2 DEF Owned, Apart
<1>. QED  BY <1>1, <1>2, <1>3, <1>4, <1>5

(* The page a frame loses is the one on disk; the others stay right.       *)
LEMMA LosesTablesStay ==
    ASSUME TypeOK, ControlOK, Owned, PagesRight, NEW u \in Users, NEW f \in Frames,
           LosesPage(f, u)
    PROVE  (\A g \in Frames : FrameOK(g)') /\ \A p \in Pages : PageOK(p)'
<1> DEFINE v == pfnArray[f].PTE
<1>1. /\ Leaving(f) /\ HasCopy(f) /\ ~InUse(f) /\ v \in Pages /\ pageTable[v] = Transition(f)
      /\ pfnArray[f].diskIndex \in DiskSlots /\ mapped[v] = None
      /\ \A w \in Users : UserHolds(w, f) => w = u /\ pc[u] = "updateVictim"
  BY LosesKnown
<1>2. /\ pageTable'[v] = Disk(pfnArray[f].diskIndex)
      /\ \A p \in Pages : p # v => pageTable'[p] = pageTable[p]
      /\ mapped' = mapped
  BY <1>1 DEF LosesPage, TypeOK, PagesTyped
<1>. HIDE DEF v
<1>3. /\ \A w \in Users : w # u => pc'[w] = pc[w] /\ currentFrame'[w] = currentFrame[w]
      /\ pc[u] \in {"takeStandby", "updateVictim"} /\ pc'[u] \in {"wipe", "swapIn", "reacquire"}
      /\ pc[u] = "updateVictim" => currentFrame[u] = f
      /\ va' = va
  BY DEF LosesPage
<1>4. ASSUME NEW g \in Frames
      PROVE  /\ InUse(g)' <=> InUse(g)
             /\ Unmapped(g)' <=> Unmapped(g)
             /\ Leaving(g)' => Leaving(g) /\ g # f
             /\ Leaving(g) /\ g # f => Leaving(g)'
             /\ HasCopy(g)' => HasCopy(g) /\ g # f
  <2>1. (Fixed(g)' <=> Fixed(g)) /\ (InUse(g)' <=> InUse(g)) /\ (Unmapped(g)' <=> Unmapped(g))
    BY DEF LosesPage, InUse, Fixed, Unmapped
  <2>2. \A w \in Users : pc'[w] \in {"updateVictim", "releaseSlot"} =>
            w # u /\ pc'[w] = pc[w] /\ currentFrame'[w] = currentFrame[w]
    BY <1>3
  <2>3. \A w \in Users : pc[w] \in {"updateVictim", "releaseSlot"} /\ currentFrame[w] = f => w = u
    BY <1>1 DEF UserHolds, Holding
  <2>4. \A w \in Users : pc[w] = "updateVictim" /\ currentFrame[w] # f =>
            pc'[w] = pc[w] /\ currentFrame'[w] = currentFrame[w]
    BY <1>3
  <2>5. f \in ToSet(standbyList) \/ UserHolds(u, f)
    BY DEF LosesPage, UserHolds, Holding
  <2>6. /\ f \notin ToSet(modifiedList) /\ f \notin InWriting
        /\ f \notin ToSet(evictFrames)
    BY <2>5 DEF Owned, Apart, InAList, InOneListOnly
  <2>7. /\ ToSet(standbyList') = ToSet(standbyList) \ {f} /\ InWriting' = InWriting
        /\ modifiedList' = modifiedList /\ evictFrames' = evictFrames
    BY DEF LosesPage
  <2>8. Leaving(g)' => Leaving(g) /\ g # f
    BY <2>1, <2>2, <2>3, <2>6, <2>7 DEF Leaving
  <2>9. Leaving(g) /\ g # f => Leaving(g)'
    BY <2>1, <2>4, <2>7 DEF Leaving
  <2>10. HasCopy(g)' => HasCopy(g) /\ g # f
    BY <2>2, <2>3, <2>7 DEF HasCopy
  <2>. QED  BY <2>1, <2>8, <2>9, <2>10
<1>5. ASSUME NEW g \in Frames, g # f, InUse(g) \/ Leaving(g)
      PROVE  pfnArray[g].PTE \in Pages /\ pfnArray[g].PTE # v
  BY <1>1, <1>5, Formats DEF PagesRight, FrameOK
<1>6. \A g \in Frames : /\ pfnArray'[g].PTE = pfnArray[g].PTE
                        /\ g # f => pfnArray'[g].diskIndex = pfnArray[g].diskIndex
  BY DEF LosesPage
<1>7. ASSUME NEW g \in Frames  PROVE FrameOK(g)'
  <2>1. CASE g = f
    BY <1>1, <1>4, <2>1 DEF FrameOK
  <2>2. CASE g # f
    <3>1. InUse(g)' \/ Leaving(g)' =>
              pageTable'[pfnArray[g].PTE] = pageTable[pfnArray[g].PTE]
      BY <1>2, <1>4, <1>5, <2>2
    <3>. QED  BY <1>4, <1>6, <2>2, <3>1, FrameStays DEF PagesRight
  <2>. QED  BY <2>1, <2>2
<1>8. ASSUME NEW p \in Pages, NEW g \in Frames, Rescued(p, g)  PROVE Rescued(p, g)'
  BY <1>3, <1>8 DEF Rescued, Page
<1>9. ASSUME NEW p \in Pages  PROVE PageOK(p)'
  <2>1. CASE p = v
    <3>1. OnDiskFormat(pageTable'[p]) /\ mapped'[p] = None
      BY <1>1, <1>2, <2>1 DEF OnDiskFormat
    <3>. QED  BY <3>1 DEF PageOK, OnDiskFormat
  <2>2. CASE p # v
    <3>1. \A g \in Frames : pfnArray[g].PTE = p => g # f  BY <2>2 DEF v
    <3>. QED  BY <1>2, <1>4, <1>6, <1>8, <2>2, <3>1, PageStays DEF PagesRight
  <2>. QED  BY <2>1, <2>2
<1>. QED  BY <1>7, <1>9

(* A victim whose PTE is in another region is taken first and loses its    *)
(* page later.                                                             *)
TakesVictim(u, f) ==
    /\ f \in ToSet(standbyList) /\ ToSet(standbyList') = ToSet(standbyList) \ {f}
    /\ UNCHANGED <<pageTable, mapped, storage, diskSlotBitmap, activeList, modifiedList,
                   evictFrames, trimPC, diskVars, va, pteContents, history>>
    /\ InWriting' = InWriting
    /\ \A g \in Frames : /\ pfnArray'[g].PTE = pfnArray[g].PTE
                         /\ pfnArray'[g].diskIndex = pfnArray[g].diskIndex
    /\ \A v \in Users : v # u => pc'[v] = pc[v] /\ currentFrame'[v] = currentFrame[v]
    /\ pc[u] = "takeStandby" /\ pc'[u] = "updateVictim" /\ currentFrame'[u] = f

(* A victim under another lock is only taken off the standby list.         *)
LEMMA TakeVictimEffect ==
    ASSUME TypeOK, ControlOK, Owned, NEW u \in Users, TakeStandbyOtherLock(u)
    PROVE  \E f \in Frames : f = standbyList[1] /\ TakesVictim(u, f)
<1>1. standbyList # <<>>  BY DEF TakeStandbyOtherLock
<1>2. PICK f \in Frames : f = standbyList[1]
  BY <1>1, PopFirstProperties DEF TypeOK, ListsTyped
<1>3. /\ f \in ToSet(standbyList)
      /\ ToSet(standbyList') = ToSet(standbyList) \ {f}
  BY <1>1, <1>2, PopFirstProperties
     DEF TakeStandbyOtherLock, TypeOK, ListsTyped, Owned, NoDuplicates
<1>4. \A g \in Frames : /\ pfnArray'[g].PTE = pfnArray[g].PTE
                        /\ pfnArray'[g].isBeingWritten = pfnArray[g].isBeingWritten
                        /\ pfnArray'[g].diskIndex = pfnArray[g].diskIndex
  <2>1. pfnArray[f] \in FrameRecords  BY DEF TypeOK, FramesTyped
  <2>2. /\ \A g \in Frames : g # f => pfnArray'[g] = pfnArray[g]
        /\ pfnArray'[f] = OffStandby(pfnArray[f])
    BY <1>2 DEF TypeOK, FramesTyped, TakeStandbyOtherLock
  <2>. QED  BY <2>1, <2>2 DEF FrameRecords, OffStandby
<1>5. InWriting' = InWriting
  <2>1. swapFrames' = swapFrames  BY DEF TakeStandbyOtherLock
  <2>. QED  BY <1>4, <2>1, WritingKept
<1>6. /\ \A v \in Users : v # u => pc'[v] = pc[v] /\ currentFrame'[v] = currentFrame[v]
      /\ pc[u] = "takeStandby" /\ pc'[u] = "updateVictim" /\ currentFrame'[u] = f
  BY <1>2 DEF TakeStandbyOtherLock, GoTo, TypeOK, UsersTyped
<1>7. UNCHANGED <<pageTable, mapped, storage, diskSlotBitmap, activeList, modifiedList,
                  evictFrames, trimPC, diskVars, va, pteContents, history>>
  BY DEF TakeStandbyOtherLock
<1>. QED  BY <1>2, <1>3, <1>4, <1>5, <1>6, <1>7 DEF TakesVictim

(* Frames and pages are right with a victim between two locks.             *)
LEMMA TakeVictimTablesStay ==
    ASSUME TypeOK, ControlOK, Owned, PagesRight, NEW u \in Users, NEW f \in Frames,
           TakesVictim(u, f)
    PROVE  (\A g \in Frames : FrameOK(g)') /\ \A p \in Pages : PageOK(p)'
<1>1. ASSUME NEW g \in Frames
      PROVE  /\ InUse(g)' <=> InUse(g)
             /\ Unmapped(g)' <=> Unmapped(g)
             /\ Leaving(g)' <=> Leaving(g)
             /\ HasCopy(g)' <=> HasCopy(g)
  <2>1. (Fixed(g)' <=> Fixed(g)) /\ (InUse(g)' <=> InUse(g)) /\ (Unmapped(g)' <=> Unmapped(g))
    BY DEF TakesVictim, InUse, Fixed, Unmapped
  <2>2. Leaving(g)' <=> Leaving(g)
    BY <2>1 DEF TakesVictim, Leaving
  <2>3. HasCopy(g)' <=> HasCopy(g)
    BY DEF TakesVictim, HasCopy
  <2>. QED  BY <2>1, <2>2, <2>3
<1>2. ASSUME NEW p \in Pages, NEW g \in Frames, Rescued(p, g)  PROVE Rescued(p, g)'
  BY <1>2 DEF Rescued, Page, TakesVictim
<1>3. \A g \in Frames : FrameOK(g)'
  BY <1>1, FrameStays DEF PagesRight, TakesVictim
<1>4. \A p \in Pages : PageOK(p)'
  BY <1>1, <1>2, PageStays DEF PagesRight, TakesVictim
<1>. QED  BY <1>3, <1>4

(* What a thread does that maps its page.                                  *)
Maps(u, p, f) ==
    /\ pc[u] = "map" /\ pc'[u] = "access" /\ Page(u) = p /\ currentFrame[u] = f
    /\ \A v \in Users : v # u => pc'[v] = pc[v] /\ currentFrame'[v] = currentFrame[v]
    /\ UNCHANGED <<storage, diskSlotBitmap, modifiedList, standbyList, evictFrames, trimPC,
                   diskVars, va, history>>
    /\ mapped' = [mapped EXCEPT ![p] = f]
    /\ pageTable' = [pageTable EXCEPT ![p] = Valid(f)]
    /\ ToSet(activeList') = ToSet(activeList) \cup {f}
    /\ InWriting' = InWriting
    /\ \A g \in Frames : /\ pfnArray'[g].PTE = IF g = f THEN p ELSE pfnArray[g].PTE
                         /\ pfnArray'[g].diskIndex = pfnArray[g].diskIndex

(* MapPage maps the frame of the thread for the page of its fault.         *)
LEMMA MapPageEffect ==
    ASSUME TypeOK, ControlOK, Owned, NEW u \in Users, MapPage(u)
    PROVE  \E p \in Pages, f \in Frames : Maps(u, p, f)
<1>1. PICK f \in Frames : f = currentFrame[u]
  BY WorksOnFrame DEF MapPage, NeedsFrame, Holding
<1>2. PICK p \in Pages : p = Page(u)  BY WorksOnPage DEF MapPage
<1>3. ToSet(activeList') = ToSet(activeList) \cup {f}
  BY <1>1, AddToFrameListTailProperties DEF MapPage, TypeOK, ListsTyped
<1>4. \A g \in Frames : /\ pfnArray'[g].PTE = IF g = f THEN p ELSE pfnArray[g].PTE
                        /\ pfnArray'[g].isBeingWritten = pfnArray[g].isBeingWritten
                        /\ pfnArray'[g].diskIndex = pfnArray[g].diskIndex
  <2>1. pfnArray[f] \in FrameRecords  BY DEF TypeOK, FramesTyped
  <2>2. /\ \A g \in Frames : g # f => pfnArray'[g] = pfnArray[g]
        /\ pfnArray'[f] = OwnedBy(pfnArray[f], p)
    BY <1>1, <1>2 DEF TypeOK, FramesTyped, MapPage
  <2>. QED  BY <2>1, <2>2 DEF FrameRecords, OwnedBy
<1>5. InWriting' = InWriting
  <2>1. swapFrames' = swapFrames  BY DEF MapPage
  <2>. QED  BY <1>4, <2>1, WritingKept
<1>6. /\ pc[u] = "map" /\ pc'[u] = "access"
      /\ \A v \in Users : v # u => pc'[v] = pc[v] /\ currentFrame'[v] = currentFrame[v]
  BY DEF MapPage, GoTo, TypeOK, UsersTyped
<1>7. /\ mapped' = [mapped EXCEPT ![p] = f] /\ pageTable' = [pageTable EXCEPT ![p] = Valid(f)]
      /\ UNCHANGED <<storage, diskSlotBitmap, modifiedList, standbyList, evictFrames, trimPC,
                     diskVars, va, history>>
  BY <1>1, <1>2 DEF MapPage
<1>. QED  BY <1>1, <1>2, <1>3, <1>4, <1>5, <1>6, <1>7 DEF Maps

(* A page that is mapped is the only one with that frame.                  *)
LEMMA MapTablesStay ==
    ASSUME TypeOK, ControlOK, Owned, PagesRight, NEW u \in Users, NEW p \in Pages, NEW f \in Frames,
           Maps(u, p, f)
    PROVE  (\A g \in Frames : FrameOK(g)') /\ \A q \in Pages : PageOK(q)'
<1>1. UserHolds(u, f)  BY DEF Maps, UserHolds, Holding
<1>2. ~InAList(f) /\ ~InUse(f) /\ ~Leaving(f) /\ ~HasCopy(f)
  <2>1. ~InAList(f) /\ ~HasCopy(f)
    BY <1>1 DEF Owned, Apart, InAList, HasCopy, UserHolds, Holding, Maps
  <2>. QED  BY <1>1, <2>1, ApartFrames DEF Maps
<1>3. pageTable[p] = Transition(f) \/ OnDiskFormat(pageTable[p])
  BY DEF PagesRight, ThreadOK, Maps
<1>4. ASSUME NEW g \in Frames
      PROVE  /\ InUse(g)' <=> InUse(g) \/ g = f
             /\ Unmapped(g)' <=> Unmapped(g)
             /\ Leaving(g)' <=> Leaving(g)
             /\ HasCopy(g)' <=> HasCopy(g)
  <2>1. (Fixed(g)' <=> Fixed(g)) /\ (InUse(g)' <=> InUse(g) \/ g = f)
        /\ (Unmapped(g)' <=> Unmapped(g))
    BY DEF Maps, InUse, Fixed, Unmapped
  <2>2. Leaving(g)' <=> Leaving(g)
    BY <2>1 DEF Maps, Leaving
  <2>3. HasCopy(g)' <=> HasCopy(g)
    BY DEF Maps, HasCopy
  <2>. QED  BY <2>1, <2>2, <2>3
<1>5. /\ pageTable'[p] = Valid(f) /\ mapped'[p] = f
      /\ \A q \in Pages : q # p => pageTable'[q] = pageTable[q] /\ mapped'[q] = mapped[q]
  BY DEF Maps, TypeOK, PagesTyped
<1>6. \A g \in Frames : /\ pfnArray'[g].PTE = IF g = f THEN p ELSE pfnArray[g].PTE
                        /\ pfnArray'[g].diskIndex = pfnArray[g].diskIndex
  BY DEF Maps
<1>7. ASSUME NEW g \in Frames  PROVE FrameOK(g)'
  <2>1. CASE g = f
    BY <1>2, <1>4, <1>5, <1>6, <2>1 DEF FrameOK
  <2>2. CASE g # f
    <3>1. InUse(g) \/ Leaving(g) => pfnArray[g].PTE \in Pages /\ pfnArray[g].PTE # p
      BY <1>3, <2>2, Formats DEF PagesRight, FrameOK, OnDiskFormat
    <3>2. InUse(g)' \/ Leaving(g)' =>
              pageTable'[pfnArray[g].PTE] = pageTable[pfnArray[g].PTE]
      BY <1>4, <1>5, <2>2, <3>1
    <3>. QED  BY <1>4, <1>6, <2>2, <3>2, FrameStays DEF PagesRight
  <2>. QED  BY <2>1, <2>2
<1>8. ASSUME NEW q \in Pages, q # p, NEW g \in Frames, Rescued(q, g)
      PROVE  Rescued(q, g)' /\ g # f
  <2>1. PICK v \in Users : /\ pc[v] \in {"releaseSlot", "map"} /\ Page(v) = q
                           /\ currentFrame[v] = g
    BY <1>8 DEF Rescued
  <2>2. v # u  BY <1>8, <2>1 DEF Maps
  <2>3. UserHolds(v, g)  BY <2>1 DEF UserHolds, Holding
  <2>4. g # f  BY <1>1, <2>2, <2>3 DEF Owned, Apart
  <2>5. Rescued(q, g)'  BY <2>1, <2>2 DEF Rescued, Page, Maps
  <2>. QED  BY <2>4, <2>5
<1>9. ASSUME NEW q \in Pages  PROVE PageOK(q)'
  <2>1. CASE q = p
    <3>1. ~Unmapped(f)'  BY <1>2, <1>4 DEF Unmapped, InAList
    <3>2. /\ pageTable'[q] = Valid(f) /\ InUse(f)' /\ pfnArray'[f].PTE = q
          /\ mapped'[q] = f
      BY <1>4, <1>5, <1>6, <2>1
    <3>. QED  BY <3>1, <3>2 DEF PageOK
  <2>2. CASE q # p
    BY <1>2, <1>4, <1>5, <1>6, <1>8, <2>2, PageStays DEF PagesRight
  <2>. QED  BY <2>1, <2>2
<1>. QED  BY <1>7, <1>9

(* A step of trim or the disk thread keeps every rescue.                   *)
LEMMA RescuesStay ==
    ASSUME UNCHANGED <<pc, va, currentFrame>>
    PROVE  \A p, f : Rescued(p, f) => Rescued(p, f)'
BY DEF Rescued, Page

(* A batch of active frames becomes trim's.                                *)
LEMMA PopActiveTablesStay ==
    ASSUME TypeOK, ControlOK, Owned, PagesRight, PopActive
    PROVE  (\A g \in Frames : FrameOK(g)') /\ \A q \in Pages : PageOK(q)'
<1> DEFINE n == MinOf(MaxWritePages, Len(activeList))
<1>1. ToSet(activeList) = ToSet(evictFrames') \cup ToSet(activeList')
  <2>1. n \in 0 .. Len(activeList)
    BY ConstantsAssumption, LenProperties DEF TypeOK, ListsTyped, MinOf
  <2>2. evictFrames' = Popped(activeList, n) /\ activeList' = AfterPop(activeList, n)
    BY DEF PopActive
  <2>. QED  BY <2>1, <2>2, PopProperties DEF TypeOK, ListsTyped
<1>2. ToSet(evictFrames) = {}
  BY DEF ControlOK, TrimControlled, PopActive, ToSet
<1>3. UNCHANGED <<pageTable, mapped, pfnArray, modifiedList, standbyList, swapFrames, pc, va,
                  currentFrame>> /\ InWriting' = InWriting
  BY WritingKept DEF PopActive
<1>4. trimPC = "evict" /\ trimPC' = "unmap"  BY DEF PopActive
<1>5. ASSUME NEW g \in Frames
      PROVE  /\ InUse(g)' <=> InUse(g)
             /\ Unmapped(g)' <=> Unmapped(g)
             /\ Leaving(g)' <=> Leaving(g)
             /\ HasCopy(g)' <=> HasCopy(g)
  BY <1>1, <1>2, <1>3, <1>4 DEF InUse, Unmapped, Leaving, HasCopy, Fixed
<1>6. \A g \in Frames : FrameOK(g)'
  BY <1>3, <1>5, FrameStays DEF PagesRight
<1>7. \A p \in Pages : PageOK(p)'
  BY <1>3, <1>5, RescuesStay, PageStays DEF PagesRight
<1>. QED  BY <1>6, <1>7

(* Trim unmaps the pages of its frames and no other page.                  *)
LEMMA UnmapBatchTablesStay ==
    ASSUME TypeOK, ControlOK, Owned, PagesRight, UnmapBatch
    PROVE  (\A g \in Frames : FrameOK(g)') /\ \A q \in Pages : PageOK(q)'
<1>1. UNCHANGED <<pageTable, pfnArray, activeList, modifiedList, standbyList, evictFrames,
                  swapFrames, pc, va, currentFrame>> /\ InWriting' = InWriting
  BY WritingKept DEF UnmapBatch
<1>2. /\ trimPC = "unmap" /\ trimPC' \in {"signal", "fix"}
      /\ evictFrames # <<>> => trimPC' = "fix"
  BY DEF UnmapBatch
<1>3. \A g : g \in ToSet(evictFrames) => evictFrames # <<>>  BY DEF ToSet
<1>4. ASSUME NEW g \in Frames
      PROVE  /\ InUse(g)' <=> InUse(g)
             /\ ~Unmapped(g)
             /\ Unmapped(g)' <=> g \in ToSet(evictFrames)
             /\ Leaving(g)' <=> Leaving(g)
             /\ HasCopy(g)' <=> HasCopy(g)
  BY <1>1, <1>2, <1>3 DEF InUse, Unmapped, Leaving, HasCopy, Fixed
<1>5. ToSet(evictFrames) \subseteq Frames
  BY LenProperties, ElementOfSeq DEF TypeOK, TrimTyped, ToSet
<1>6. \A g \in ToSet(evictFrames) : InUse(g) /\ pageTable[pfnArray[g].PTE] = Valid(g)
  BY <1>2, <1>5 DEF InUse, Fixed, PagesRight, FrameOK
<1>7. \A p \in Pages : mapped'[p] = IF \E g \in ToSet(evictFrames) : pfnArray[g].PTE = p
                                    THEN None ELSE mapped[p]
  BY DEF UnmapBatch
<1>8. ASSUME NEW g \in Frames  PROVE FrameOK(g)'
  BY <1>1, <1>4, FrameStays DEF PagesRight
<1>9. ASSUME NEW p \in Pages  PROVE PageOK(p)'
  <2>1. PageOK(p)  BY DEF PagesRight
  <2>2. CASE \E g \in Frames :
              /\ pageTable[p] = Valid(g) /\ InUse(g) /\ pfnArray[g].PTE = p
              /\ mapped[p] = IF Unmapped(g) THEN None ELSE g
    <3>1. PICK g \in Frames : /\ pageTable[p] = Valid(g) /\ InUse(g) /\ pfnArray[g].PTE = p
                              /\ mapped[p] = g
      BY <1>4, <2>2
    <3>2. (\E h \in ToSet(evictFrames) : pfnArray[h].PTE = p) <=> g \in ToSet(evictFrames)
      BY <1>6, <3>1, Formats
    <3>3. mapped'[p] = IF Unmapped(g)' THEN None ELSE g
      BY <1>4, <1>7, <3>1, <3>2
    <3>. QED  BY <1>1, <1>4, <3>1, <3>3 DEF PageOK
  <2>3. CASE \E g \in Frames :
              /\ pageTable[p] = Transition(g) /\ pfnArray[g].PTE = p
              /\ Leaving(g) \/ Rescued(p, g)
              /\ mapped[p] = None
    BY <1>1, <1>4, <1>7, <2>3, RescuesStay DEF PageOK
  <2>4. CASE OnDiskFormat(pageTable[p]) /\ mapped[p] = None
    BY <1>1, <1>7, <2>4 DEF PageOK, OnDiskFormat
  <2>. QED  BY <2>1, <2>2, <2>3, <2>4 DEF PageOK
<1>. QED  BY <1>8, <1>9

(* The PTE that trim puts in transition.                                   *)
LEMMA FixPTEKnown ==
    ASSUME TypeOK, ControlOK, Owned, PagesRight, FixPTE
    PROVE  \E f \in Frames :
               /\ f = evictFrames[1] /\ f \in ToSet(evictFrames) /\ InUse(f) /\ Unmapped(f)
               /\ pfnArray[f].PTE \in Pages /\ pageTable[pfnArray[f].PTE] = Valid(f)
               /\ mapped[pfnArray[f].PTE] = None
               /\ pageTable' = [pageTable EXCEPT ![pfnArray[f].PTE] = Transition(f)]
               /\ \A g \in Frames : /\ pfnArray'[g].PTE = pfnArray[g].PTE
                                    /\ pfnArray'[g].isBeingWritten = pfnArray[g].isBeingWritten
                                    /\ g # f => pfnArray'[g].diskIndex = pfnArray[g].diskIndex
<1>1. PICK f \in Frames : f = evictFrames[1] /\ f \in ToSet(evictFrames)
  BY PopFirstProperties DEF TypeOK, TrimTyped, ControlOK, TrimControlled, FixPTE
<1>2. InUse(f) /\ Unmapped(f)
  BY <1>1 DEF InUse, Unmapped, Fixed, FixPTE
<1>3. pfnArray[f].PTE \in Pages /\ pageTable[pfnArray[f].PTE] = Valid(f)
  BY <1>2 DEF PagesRight, FrameOK
<1>4. mapped[pfnArray[f].PTE] = None
  BY <1>2, <1>3, Formats DEF PagesRight, PageOK, OnDiskFormat
<1>5. pageTable' = [pageTable EXCEPT ![pfnArray[f].PTE] = Transition(f)]
  BY <1>1 DEF FixPTE
<1>6. \A g \in Frames : /\ pfnArray'[g].PTE = pfnArray[g].PTE
                        /\ pfnArray'[g].isBeingWritten = pfnArray[g].isBeingWritten
                        /\ g # f => pfnArray'[g].diskIndex = pfnArray[g].diskIndex
  <2>1. pfnArray[f] \in FrameRecords  BY DEF TypeOK, FramesTyped
  <2>2. /\ \A g \in Frames : g # f => pfnArray'[g] = pfnArray[g]
        /\ pfnArray'[f] = OnDisk(pfnArray[f], 0)
    BY <1>1 DEF TypeOK, FramesTyped, FixPTE
  <2>. QED  BY <2>1, <2>2 DEF FrameRecords, OnDisk
<1>. QED  BY <1>1, <1>2, <1>3, <1>4, <1>5, <1>6

(* An unmapped page becomes a transition page with the same frame.         *)
LEMMA FixPTETablesStay ==
    ASSUME TypeOK, ControlOK, Owned, PagesRight, FixPTE
    PROVE  (\A g \in Frames : FrameOK(g)') /\ \A q \in Pages : PageOK(q)'
<1>1. PICK f \in Frames :
               /\ f = evictFrames[1] /\ f \in ToSet(evictFrames) /\ InUse(f) /\ Unmapped(f)
               /\ pfnArray[f].PTE \in Pages /\ pageTable[pfnArray[f].PTE] = Valid(f)
               /\ mapped[pfnArray[f].PTE] = None
               /\ pageTable' = [pageTable EXCEPT ![pfnArray[f].PTE] = Transition(f)]
               /\ \A g \in Frames : /\ pfnArray'[g].PTE = pfnArray[g].PTE
                                    /\ pfnArray'[g].isBeingWritten = pfnArray[g].isBeingWritten
                                    /\ g # f => pfnArray'[g].diskIndex = pfnArray[g].diskIndex
  BY FixPTEKnown
<1>2. UNCHANGED <<mapped, activeList, modifiedList, standbyList, evictFrames, swapFrames, pc, va,
                  currentFrame>> /\ InWriting' = InWriting
  BY <1>1, WritingKept DEF FixPTE
<1>3. trimPC = "fix" /\ trimPC' = "add"  BY DEF FixPTE
<1> DEFINE p == pfnArray[f].PTE
<1>4. p \in Pages /\ pageTable[p] = Valid(f) /\ mapped[p] = None
  BY <1>1
<1>5. pageTable'[p] = Transition(f) /\ \A q \in Pages : q # p => pageTable'[q] = pageTable[q]
  BY <1>1 DEF TypeOK, PagesTyped
<1>6. \A q \in Pages, g \in Frames : pfnArray[g].PTE = q /\ q # p => g # f
  OBVIOUS
<1>. HIDE DEF p
<1>7. ~Leaving(f) /\ ~HasCopy(f)  BY <1>1, ApartFrames
<1>8. f \notin ToSet(activeList)
  BY <1>1 DEF Owned, Apart, InOneListOnly
<1>9. ASSUME NEW g \in Frames
      PROVE  /\ InUse(g)' <=> InUse(g) /\ g # f
             /\ Unmapped(g)' <=> Unmapped(g)
             /\ Leaving(g)' <=> Leaving(g) \/ g = f
             /\ HasCopy(g)' <=> HasCopy(g)
  BY <1>1, <1>2, <1>3, <1>8 DEF InUse, Unmapped, Leaving, HasCopy, Fixed
<1>10. ASSUME NEW g \in Frames  PROVE FrameOK(g)'
  <2>1. CASE g = f
    BY <1>1, <1>4, <1>5, <1>7, <1>9, <2>1 DEF FrameOK, p
  <2>2. CASE g # f
    <3>1. InUse(g) \/ Leaving(g) => pfnArray[g].PTE \in Pages /\ pfnArray[g].PTE # p
      BY <1>4, <2>2, Formats DEF PagesRight, FrameOK
    <3>2. InUse(g)' \/ Leaving(g)' =>
              pageTable'[pfnArray[g].PTE] = pageTable[pfnArray[g].PTE]
      BY <1>5, <1>9, <2>2, <3>1
    <3>. QED  BY <1>1, <1>9, <2>2, <3>2, FrameStays DEF PagesRight
  <2>. QED  BY <2>1, <2>2
<1>11. ASSUME NEW q \in Pages  PROVE PageOK(q)'
  <2>1. CASE q = p
    <3>1. /\ pageTable'[q] = Transition(f) /\ pfnArray'[f].PTE = q /\ Leaving(f)'
          /\ mapped'[q] = None
      BY <1>1, <1>2, <1>4, <1>5, <1>9, <2>1 DEF p
    <3>. QED  BY <3>1 DEF PageOK
  <2>2. CASE q # p
    BY <1>1, <1>2, <1>5, <1>6, <1>9, <2>2, RescuesStay, PageStays DEF PagesRight
  <2>. QED  BY <2>1, <2>2
<1>. QED  BY <1>10, <1>11

(* The frame whose PTE was put in transition joins the modified list.      *)
LEMMA AddModifiedEffect ==
    ASSUME TypeOK, ControlOK, Owned, AddModified
    PROVE  \E f \in Frames :
               /\ Fixed(f) /\ f \in ToSet(evictFrames) /\ InWriting' = InWriting
               /\ ToSet(modifiedList') = ToSet(modifiedList) \cup {f}
               /\ ToSet(evictFrames') = ToSet(evictFrames) \ {f}
               /\ trimPC' \in {"fix", "signal"}
               /\ trimPC' = "signal" => ToSet(evictFrames') = {}
               /\ \A g \in Frames : /\ pfnArray'[g].PTE = pfnArray[g].PTE
                                    /\ pfnArray'[g].diskIndex = pfnArray[g].diskIndex
<1>1. evictFrames # <<>>
  BY DEF ControlOK, TrimControlled, AddModified
<1>2. PICK f \in Frames : f = evictFrames[1] /\ f \in ToSet(evictFrames)
  BY <1>1, PopFirstProperties DEF TypeOK, TrimTyped
<1>3. Fixed(f)  BY <1>2 DEF Fixed, AddModified
<1>4. /\ ToSet(evictFrames') = ToSet(evictFrames) \ {f}
      /\ evictFrames' \in Seq(Frames) /\ Len(evictFrames') = Len(evictFrames) - 1
  BY <1>1, <1>2, PopFirstProperties DEF AddModified, TypeOK, TrimTyped, Owned, NoDuplicates
<1>5. ToSet(modifiedList') = ToSet(modifiedList) \cup {f}
  BY <1>2, AddToFrameListProperties DEF AddModified, TypeOK, ListsTyped
<1>6. \A g \in Frames : /\ pfnArray'[g].PTE = pfnArray[g].PTE
                        /\ pfnArray'[g].isBeingWritten = pfnArray[g].isBeingWritten
                        /\ pfnArray'[g].diskIndex = pfnArray[g].diskIndex
  <2>1. pfnArray[f] \in FrameRecords  BY DEF TypeOK, FramesTyped
  <2>2. /\ \A g \in Frames : g # f => pfnArray'[g] = pfnArray[g]
        /\ pfnArray'[f] = OnModified(pfnArray[f])
    BY <1>2 DEF TypeOK, FramesTyped, AddModified
  <2>. QED  BY <2>1, <2>2 DEF FrameRecords, OnModified
<1>7. InWriting' = InWriting
  <2>1. swapFrames' = swapFrames  BY DEF AddModified
  <2>. QED  BY <1>6, <2>1, WritingKept
<1>8. trimPC' \in {"fix", "signal"}  BY DEF AddModified
<1>9. trimPC' = "signal" => ToSet(evictFrames') = {}
  <2>1. trimPC' = "signal" => Len(evictFrames') = 0
    BY <1>4 DEF AddModified
  <2>2. DOMAIN evictFrames' = 1 .. Len(evictFrames')  BY <1>4, LenProperties
  <2>3. 1 .. 0 = {}  OBVIOUS
  <2>. QED  BY <2>1, <2>2, <2>3 DEF ToSet
<1>. QED  BY <1>2, <1>3, <1>4, <1>5, <1>6, <1>7, <1>8, <1>9

(* A frame that goes to the modified list keeps its page.                  *)
LEMMA AddModifiedTablesStay ==
    ASSUME TypeOK, ControlOK, Owned, PagesRight, AddModified
    PROVE  (\A g \in Frames : FrameOK(g)') /\ \A q \in Pages : PageOK(q)'
<1>1. PICK f \in Frames :
               /\ Fixed(f) /\ f \in ToSet(evictFrames) /\ InWriting' = InWriting
               /\ ToSet(modifiedList') = ToSet(modifiedList) \cup {f}
               /\ ToSet(evictFrames') = ToSet(evictFrames) \ {f}
               /\ trimPC' \in {"fix", "signal"}
               /\ trimPC' = "signal" => ToSet(evictFrames') = {}
               /\ \A g \in Frames : /\ pfnArray'[g].PTE = pfnArray[g].PTE
                                    /\ pfnArray'[g].diskIndex = pfnArray[g].diskIndex
  BY AddModifiedEffect
<1>2. UNCHANGED <<pageTable, mapped, activeList, standbyList, pc, va, currentFrame>>
  BY DEF AddModified
<1>3. trimPC = "add"  BY DEF AddModified
<1>4. f \notin ToSet(activeList)
  BY <1>1 DEF Owned, Apart, InOneListOnly
<1>5. ASSUME NEW g \in Frames
      PROVE  /\ InUse(g)' <=> InUse(g)
             /\ InUse(g) => (Unmapped(g)' <=> Unmapped(g))
             /\ Leaving(g)' <=> Leaving(g)
             /\ HasCopy(g)' <=> HasCopy(g)
  <2>1. Fixed(g) <=> g = f  BY <1>1 DEF Fixed
  <2>2. ~Fixed(g)'  BY <1>1 DEF Fixed
  <2>3. InUse(g)' <=> InUse(g)
    BY <1>1, <1>2, <1>4, <2>1, <2>2 DEF InUse
  <2>4. InUse(g) => g # f  BY <1>4, <2>1 DEF InUse
  <2>5. InUse(g) => (Unmapped(g)' <=> Unmapped(g))
    BY <1>1, <1>3, <2>4 DEF Unmapped
  <2>6. Leaving(g)' <=> Leaving(g)
    BY <1>1, <1>2, <2>1, <2>2 DEF Leaving
  <2>7. HasCopy(g)' <=> HasCopy(g)
    BY <1>2 DEF HasCopy
  <2>. QED  BY <2>3, <2>5, <2>6, <2>7
<1>6. \A g \in Frames : FrameOK(g)'
  BY <1>1, <1>2, <1>5, FrameStays DEF PagesRight
<1>7. \A p \in Pages : PageOK(p)'
  BY <1>1, <1>2, <1>5, RescuesStay, PageStays DEF PagesRight
<1>. QED  BY <1>6, <1>7

(* A batch of modified frames becomes the disk thread's.                   *)
LEMMA CollectModifiedEffect ==
    ASSUME TypeOK, ControlOK, Owned, CollectModified
    PROVE  /\ InWriting = {}
           /\ ToSet(modifiedList) = ToSet(modifiedList') \cup InWriting'
           /\ \A g \in Frames : /\ pfnArray'[g].PTE = pfnArray[g].PTE
                                /\ pfnArray'[g].diskIndex = pfnArray[g].diskIndex
<1> DEFINE n == MinOf(Len(diskSlots), Len(modifiedList))
           batch == Popped(modifiedList, n)
<1>1. n \in 0 .. Len(modifiedList)
  BY LenProperties DEF TypeOK, DiskTyped, ListsTyped, MinOf
<1>2. /\ swapFrames' = batch /\ modifiedList' = AfterPop(modifiedList, n)
      /\ pfnArray' = [f \in Frames |->
             IF f \in ToSet(batch) THEN MarkWritten(OffModified(pfnArray[f]))
                                       ELSE pfnArray[f]]
  BY DEF CollectModified
<1>3. swapFrames = <<>>
  BY DEF ControlOK, DiskControlled, CollectModified
<1>4. ToSet(swapFrames) = {} /\ InWriting = {}
  BY <1>3 DEF ToSet, InWriting
<1>5. /\ batch \in Seq(Frames)
      /\ ToSet(modifiedList) = ToSet(batch) \cup ToSet(modifiedList')
  BY <1>1, <1>2, PopProperties DEF TypeOK, ListsTyped
<1>6. ToSet(batch) \subseteq Frames
  BY <1>5, LenProperties, ElementOfSeq DEF ToSet
<1>. HIDE DEF batch, n
<1>7. \A f \in Frames :
          /\ f \in ToSet(batch) => pfnArray'[f].isBeingWritten = TRUE
          /\ pfnArray'[f].PTE = pfnArray[f].PTE
          /\ pfnArray'[f].diskIndex = pfnArray[f].diskIndex
  <2> TAKE f \in Frames
  <2>1. pfnArray[f] \in FrameRecords  BY DEF TypeOK, FramesTyped
  <2>2. pfnArray'[f] = IF f \in ToSet(batch) THEN MarkWritten(OffModified(pfnArray[f]))
                                             ELSE pfnArray[f]
    BY <1>2
  <2>. QED  BY <2>1, <2>2 DEF FrameRecords, OffModified, MarkWritten
<1>8. InWriting' = ToSet(batch)
  BY <1>2, <1>6, <1>7 DEF InWriting
<1>. QED  BY <1>4, <1>5, <1>7, <1>8

(* So does one that the disk thread takes off it.                          *)
LEMMA CollectModifiedTablesStay ==
    ASSUME TypeOK, ControlOK, Owned, PagesRight, CollectModified
    PROVE  (\A g \in Frames : FrameOK(g)') /\ \A q \in Pages : PageOK(q)'
<1>1. /\ InWriting = {}
      /\ ToSet(modifiedList) = ToSet(modifiedList') \cup InWriting'
      /\ \A g \in Frames : /\ pfnArray'[g].PTE = pfnArray[g].PTE
                           /\ pfnArray'[g].diskIndex = pfnArray[g].diskIndex
  BY CollectModifiedEffect
<1>2. UNCHANGED <<pageTable, mapped, activeList, standbyList, evictFrames, trimPC, pc, va,
                  currentFrame>>
  BY DEF CollectModified
<1>3. ASSUME NEW g \in Frames
      PROVE  /\ InUse(g)' <=> InUse(g)
             /\ Unmapped(g)' <=> Unmapped(g)
             /\ Leaving(g)' <=> Leaving(g)
             /\ HasCopy(g)' <=> HasCopy(g)
  <2>1. (Fixed(g)' <=> Fixed(g)) /\ (InUse(g)' <=> InUse(g)) /\ (Unmapped(g)' <=> Unmapped(g))
    BY <1>2 DEF InUse, Fixed, Unmapped
  <2>2. Leaving(g)' <=> Leaving(g)
    BY <1>1, <1>2, <2>1 DEF Leaving
  <2>3. HasCopy(g)' <=> HasCopy(g)
    BY <1>2 DEF HasCopy
  <2>. QED  BY <2>1, <2>2, <2>3
<1>4. \A g \in Frames : FrameOK(g)'
  BY <1>1, <1>2, <1>3, FrameStays DEF PagesRight
<1>5. \A p \in Pages : PageOK(p)'
  BY <1>1, <1>2, <1>3, RescuesStay, PageStays DEF PagesRight
<1>. QED  BY <1>4, <1>5

(* A written frame that was not rescued joins the standby list, with the   *)
(* slot it was written to.                                                 *)
LEMMA PublishEffect ==
    ASSUME TypeOK, ControlOK, Owned, BatchApart, PublishPage,
           pfnArray[swapFrames[1]].isBeingWritten
    PROVE  \E f \in Frames, s \in DiskSlots :
               /\ f = swapFrames[1] /\ f \in InWriting /\ s = diskSlots[1]
               /\ InWriting' = InWriting \ {f}
               /\ ToSet(standbyList') = ToSet(standbyList) \cup {f}
               /\ \A g \in Frames :
                      /\ pfnArray'[g].PTE = pfnArray[g].PTE
                      /\ pfnArray'[g].diskIndex = IF g = f THEN s ELSE pfnArray[g].diskIndex
<1>1. swapFrames # <<>>
  BY DEF ControlOK, DiskControlled, PublishPage
<1>2. PICK f \in Frames : f = swapFrames[1] /\ f \in ToSet(swapFrames)
  BY <1>1, PopFirstProperties DEF TypeOK, DiskTyped
<1>3. PICK s \in DiskSlots : s = diskSlots[1]
  <2>1. diskSlots \in Seq(DiskSlots) /\ diskSlots # <<>>
    BY <1>1, LenProperties, EmptySeq DEF TypeOK, DiskTyped, ControlOK, DiskControlled, PublishPage
  <2>. QED  BY <2>1, PopFirstProperties
<1>4. /\ swapFrames' = AfterPop(swapFrames, 1)
      /\ standbyList' = AddToFrameList(standbyList, f)
      /\ pfnArray' = [pfnArray EXCEPT ![f] = OnStandby(OnDisk(UnmarkWritten(pfnArray[f]), s))]
  BY <1>2, <1>3 DEF PublishPage
<1>5. f \in InWriting  BY <1>2 DEF InWriting
<1>6. ToSet(standbyList') = ToSet(standbyList) \cup {f}
  BY <1>4, AddToFrameListProperties DEF TypeOK, ListsTyped
<1>7. /\ \A g \in Frames : g # f => pfnArray'[g] = pfnArray[g]
      /\ pfnArray'[f].isBeingWritten = FALSE
      /\ pfnArray'[f].PTE = pfnArray[f].PTE
      /\ pfnArray'[f].diskIndex = s
  <2>1. pfnArray[f] \in FrameRecords /\ s \in Nat
    BY ConstantProperties DEF TypeOK, FramesTyped
  <2>2. /\ \A g \in Frames : g # f => pfnArray'[g] = pfnArray[g]
        /\ pfnArray'[f] = OnStandby(OnDisk(UnmarkWritten(pfnArray[f]), s))
    BY <1>4 DEF TypeOK, FramesTyped
  <2>. QED  BY <2>1, <2>2 DEF FrameRecords, OnStandby, OnDisk, UnmarkWritten
<1>8. InWriting' = InWriting \ {f}
  <2>1. ToSet(swapFrames) \subseteq Frames
    BY LenProperties, ElementOfSeq DEF TypeOK, DiskTyped, ToSet
  <2>2. ToSet(swapFrames') = ToSet(swapFrames) \ {f}
    BY <1>1, <1>2, <1>4, PopFirstProperties DEF TypeOK, DiskTyped, BatchApart
  <2>. QED  BY <1>7, <2>1, <2>2 DEF InWriting
<1>. QED  BY <1>2, <1>3, <1>5, <1>6, <1>7, <1>8

(* So does one that is published, or that was rescued meanwhile.           *)
LEMMA PublishTablesStay ==
    ASSUME TypeOK, ControlOK, Owned, BatchApart, PagesRight, PublishPage
    PROVE  (\A g \in Frames : FrameOK(g)') /\ \A q \in Pages : PageOK(q)'
<1>1. UNCHANGED <<pageTable, mapped, activeList, modifiedList, evictFrames, trimPC, pc, va,
                  currentFrame>>
  BY DEF PublishPage
<1>2. CASE pfnArray[swapFrames[1]].isBeingWritten
  <2>1. PICK f \in Frames, s \in DiskSlots :
               /\ f = swapFrames[1] /\ f \in InWriting /\ s = diskSlots[1]
               /\ InWriting' = InWriting \ {f}
               /\ ToSet(standbyList') = ToSet(standbyList) \cup {f}
               /\ \A g \in Frames :
                      /\ pfnArray'[g].PTE = pfnArray[g].PTE
                      /\ pfnArray'[g].diskIndex = IF g = f THEN s ELSE pfnArray[g].diskIndex
    BY <1>2, PublishEffect
  <2>2. ASSUME NEW g \in Frames
        PROVE  /\ InUse(g)' <=> InUse(g)
               /\ Unmapped(g)' <=> Unmapped(g)
               /\ Leaving(g)' <=> Leaving(g)
               /\ HasCopy(g)' <=> HasCopy(g) \/ g = f
    <3>1. (Fixed(g)' <=> Fixed(g)) /\ (InUse(g)' <=> InUse(g)) /\ (Unmapped(g)' <=> Unmapped(g))
      BY <1>1 DEF InUse, Fixed, Unmapped
    <3>2. Leaving(g)' <=> Leaving(g)
      BY <1>1, <2>1, <3>1 DEF Leaving
    <3>3. HasCopy(g)' <=> HasCopy(g) \/ g = f
      BY <1>1, <2>1 DEF HasCopy
    <3>. QED  BY <3>1, <3>2, <3>3
  <2>3. ASSUME NEW g \in Frames  PROVE FrameOK(g)'
    <3>1. FrameOK(g)  BY DEF PagesRight
    <3>. QED  BY <1>1, <2>1, <2>2, <3>1 DEF FrameOK
  <2>4. \A p \in Pages : PageOK(p)'
    BY <1>1, <2>1, <2>2, RescuesStay, PageStays DEF PagesRight
  <2>. QED  BY <2>3, <2>4
<1>3. CASE ~pfnArray[swapFrames[1]].isBeingWritten
  <2>1. UNCHANGED <<pfnArray, standbyList, swapFrames>>  BY <1>3 DEF PublishPage
  <2>2. StillTables  BY <1>1, <2>1, WritingKept DEF StillTables
  <2>3. StillUsers  BY <1>1 DEF StillUsers
  <2>. QED  BY <2>2, <2>3, TablesStay
<1>. QED  BY <1>2, <1>3

-----------------------------------------------------------------------------
(***************************************************************************)
(* The inductive invariant: PagesRight while no frame went stale.          *)
(***************************************************************************)
PagesUntilStale == "staleFrame" \notin races => PagesRight

(* No page is in use at the start.                                         *)
LEMMA PagesInit == Init => PagesRight
<1> SUFFICES ASSUME Init PROVE PagesRight
  OBVIOUS
<1>1. 0 \in DiskSlots  BY ConstantsAssumption DEF DiskSlots
<1>2. /\ activeList = <<>> /\ modifiedList = <<>> /\ standbyList = <<>>
      /\ evictFrames = <<>> /\ swapFrames = <<>>
  BY DEF Init
<1>3. /\ ToSet(activeList) = {} /\ ToSet(modifiedList) = {} /\ ToSet(standbyList) = {}
      /\ ToSet(evictFrames) = {} /\ InWriting = {}
  BY <1>2 DEF ToSet, InWriting
<1>4. \A u \in Users : pc[u] = "access"  BY DEF Init
<1>5. \A f \in Frames : ~InUse(f) /\ ~Leaving(f) /\ ~HasCopy(f)
  BY <1>3, <1>4 DEF InUse, Leaving, HasCopy
<1>6. \A u \in Users : ThreadOK(u)
  BY <1>4 DEF ThreadOK, LockHeld, Rescuing, Filling
<1>7. \A f \in Frames : FrameOK(f)
  BY <1>5 DEF FrameOK
<1>8. \A p \in Pages : PageOK(p)
  BY <1>1, Formats DEF Init, PageOK, OnDiskFormat
<1>. QED  BY <1>6, <1>7, <1>8 DEF PagesRight

(* Nothing changes in a step that changes nothing.                         *)
LEMMA PagesStutter == PagesRight /\ UNCHANGED vars => PagesRight'
BY DEF vars, PagesRight, ThreadOK, FrameOK, PageOK, OnDiskFormat, InUse, Leaving, HasCopy, Fixed,
   Unmapped, Rescued, Page, Lock, InWriting

(* Every step of a user thread keeps the tables right.                     *)
LEMMA UserKeepsPages ==
    ASSUME TypeOK, ControlOK, Owned, PagesRight, NEW u \in Users,
           AccessStep(u) \/ ResolveStep(u) \/ Shutdown(u), "staleFrame" \notin races'
    PROVE  PagesRight'
<1>1. (\A f \in Frames : FrameOK(f)') /\ \A p \in Pages : PageOK(p)'
  <2>1. CASE RescueWritten(u)
    BY <2>1, NoRescueTablesStay, RescueWrittenEffect, RescueTablesStay
  <2>2. CASE RescueModified(u)
    BY <2>2, NoRescueTablesStay, RescueModifiedEffect, RescueTablesStay
  <2>3. CASE RescueStandby(u)
    BY <2>3, NoRescueTablesStay, RescueStandbyEffect, RescueTablesStay
  <2>4. CASE TakeStandbySameLock(u) \/ UpdateVictim(u)
    BY <2>4, TakeStandbyEffect, UpdateVictimEffect, LosesTablesStay
  <2>5. CASE TakeStandbyOtherLock(u)
    BY <2>5, TakeVictimEffect, TakeVictimTablesStay
  <2>6. CASE MapPage(u)
    BY <2>6, MapPageEffect, MapTablesStay
  <2>. QED  BY <2>1, <2>2, <2>3, <2>4, <2>5, <2>6, UserTablesStay, SlotTablesStay,
               ReacquireTablesStay DEF ResolveStep
<1>. QED  BY <1>1, ThreadsStayRight DEF PagesRight

(* Every step of the trim and disk threads does.                           *)
LEMMA OthersKeepPages ==
    ASSUME TypeOK, ControlOK, Owned, BatchApart, PagesRight, TrimStep \/ DiskStep
    PROVE  PagesRight'
<1>1. (\A f \in Frames : FrameOK(f)') /\ \A p \in Pages : PageOK(p)'
  BY ThreadTablesStay, PopActiveTablesStay, UnmapBatchTablesStay, FixPTETablesStay,
     AddModifiedTablesStay, CollectModifiedTablesStay, PublishTablesStay DEF TrimStep, DiskStep
<1>. QED  BY <1>1, ThreadsKeepKnowing DEF PagesRight

(* Every step keeps pages and frames right, until a frame is stale.        *)
LEMMA PagesInductive ==
    TypeOK /\ ControlOK /\ OwnedUntilUnlink /\ PagesUntilStale /\ [Next]_vars => PagesUntilStale'
<1> SUFFICES ASSUME TypeOK, ControlOK, OwnedUntilUnlink, PagesUntilStale, [Next]_vars,
                    "staleFrame" \notin races'
             PROVE  PagesRight'
  BY DEF PagesUntilStale
<1>1. PagesRight  BY RacesRemembered DEF PagesUntilStale
<1>2. CASE UNCHANGED vars  BY <1>1, <1>2, PagesStutter
<1>3. CASE ~ UNCHANGED vars
  <2>1. /\ halted = "running"
        /\ \/ \E u \in Users : AccessStep(u) \/ ResolveStep(u) \/ Shutdown(u)
           \/ TrimStep \/ DiskStep
    BY <1>3 DEF Next, Stopped
  <2>2. Owned /\ BatchApart  BY <2>1 DEF OwnedUntilUnlink
  <2>. QED  BY <1>1, <2>1, <2>2, UserKeepsPages, OthersKeepPages
<1>. QED  BY <1>2, <1>3

(* The invariants of the frames and the pages together.                    *)
FramesAndPages == TypeOK /\ ControlOK /\ OwnedUntilUnlink /\ PagesUntilStale

(* The first two layers of the invariant hold.                             *)
LEMMA FramesAndPagesHold == Spec => []FramesAndPages
<1>1. Init => FramesAndPages
  <2>1. Init => halted # "unlink"  BY DEF Init
  <2>. QED  BY <2>1, TypeInit, OwnedInit, BatchInit, PagesInit
            DEF FramesAndPages, OwnedUntilUnlink, PagesUntilStale
<1>2. FramesAndPages /\ [Next]_vars => FramesAndPages'
  BY TypeInductive, OwnedInductive, PagesInductive DEF FramesAndPages
<1>. QED  BY <1>1, <1>2, PTL DEF Spec

(***************************************************************************)
(* What the hardware maps is what the PTE and the frame say, and trim's    *)
(* batch is the only place where a valid PTE is not mapped, as long as no  *)
(* frame went stale.                                                       *)
(***************************************************************************)
THEOREM MappingsAgree == Spec => []MappingAgrees
<1>1. FramesAndPages => MappingAgrees
  <2> SUFFICES ASSUME FramesAndPages, "staleFrame" \notin races, NEW p \in Pages
               PROVE  /\ mapped[p] # None =>
                             /\ pfnArray[mapped[p]].PTE = p
                             /\ pageTable[p] = Valid(mapped[p])
                      /\ pageTable[p].isValid = 1 /\ mapped[p] = None =>
                             /\ trimPC \in {"fix", "add"}
                             /\ pageTable[p].number \in ToSet(evictFrames)
    BY DEF MappingAgrees
  <2>1. PageOK(p)  BY DEF FramesAndPages, PagesUntilStale, PagesRight
  <2>2. CASE \E f \in Frames :
              /\ pageTable[p] = Valid(f) /\ InUse(f) /\ pfnArray[f].PTE = p
              /\ mapped[p] = IF Unmapped(f) THEN None ELSE f
    BY <2>2, Formats, ConstantProperties DEF Unmapped
  <2>3. CASE pageTable[p].isValid # 1 /\ mapped[p] = None
    BY <2>3
  <2>. QED  BY <2>1, <2>2, <2>3, Formats DEF PageOK, OnDiskFormat
<1>. QED  BY <1>1, FramesAndPagesHold, PTL

(***************************************************************************)
(* A page that is mapped stays mapped to its frame until trim unmaps it:   *)
(* of two threads that fault on one page the second never maps it again.   *)
(***************************************************************************)
THEOREM MapsOnlyUnmapped == Spec => MapOnlyUnmapped
<1>1. FramesAndPages /\ [Next]_vars =>
          \A p \in Pages : mapped[p] # None /\ "staleFrame" \notin races
                               => mapped'[p] \in {mapped[p], None}
  <2> SUFFICES ASSUME FramesAndPages, [Next]_vars, NEW p \in Pages, mapped[p] # None,
                      "staleFrame" \notin races
               PROVE  mapped'[p] \in {mapped[p], None}
    OBVIOUS
  <2>1. TypeOK /\ ControlOK /\ PagesRight  BY DEF FramesAndPages, PagesUntilStale
  <2>2. CASE \E u \in Users : MapPage(u)
    <3>1. PICK u \in Users : MapPage(u)  BY <2>2
    <3>2. pageTable[Page(u)] = Transition(currentFrame[u]) \/ OnDiskFormat(pageTable[Page(u)])
      BY <2>1, <3>1 DEF MapPage, PagesRight, ThreadOK
    <3>3. Page(u) # p
      BY <2>1, <3>2, Formats DEF PagesRight, PageOK, OnDiskFormat
    <3>. QED  BY <2>1, <3>1, <3>3 DEF MapPage, TypeOK, PagesTyped
  <2>3. CASE UnmapBatch  BY <2>3 DEF UnmapBatch
  <2>4. CASE UNCHANGED mapped  BY <2>4
  <2>5. CASE \E u \in Users : AccessStep(u) \/ Shutdown(u) \/ (ResolveStep(u) /\ ~MapPage(u))
    <3>1. UNCHANGED mapped
      BY <2>5 DEF AccessStep, Store, Fault, Shutdown, ResolveStep, FaultOnValid, ReleaseValid,
         FaultInTransition,
         FaultOnAbsent, RescueWritten, RescueModified, RescueStandby, ReleaseRescuedSlot,
         GetFreeFrame, StandbyEmpty, ResetFinished, RequestTrim, WaitFinished, TakeStandbySameLock,
         TakeStandbyOtherLock, UpdateVictim, Reacquire, WipePage, SwapFromDisk, SwapFromDiskFails,
         CopyFromDisk
    <3>. QED  BY <3>1
  <2>6. CASE (TrimStep /\ ~UnmapBatch) \/ DiskStep
    <3>1. UNCHANGED mapped
      BY <2>6 DEF TrimStep, TrimWait, PopActive, FixPTE, AddModified, SignalModWrite, DiskStep,
         DiskWait, ReserveSlots, CollectModified, WritePage, PublishPage, ReadFrameWord,
         WriteFrameWord, SignalFinished
    <3>. QED  BY <3>1
  <2>. QED  BY <2>2, <2>3, <2>4, <2>5, <2>6 DEF Next, Stopped, vars
<1>. QED  BY <1>1, FramesAndPagesHold, PTL DEF Spec, MapOnlyUnmapped

-----------------------------------------------------------------------------
(* Who owns a disk slot.                                                   *)

(* The steps at which a thread has a page's copy in hand or a frame whose  *)
(* slot it is about to give away.                                          *)
Loading == {"copyIn", "map"}
Parting == {"releaseSlot", "updateVictim"}

FrameOwns(f, s) == HasCopy(f) /\ pfnArray[f].diskIndex = s

SlotOwned(s) ==
    \/ \E p \in Pages : PageOwns(p, s)
    \/ \E f \in Frames : FrameOwns(f, s)
    \/ s \in ToSet(diskSlots)

SlotOK(s) ==
    /\ \A p, q \in Pages : PageOwns(p, s) /\ PageOwns(q, s) => p = q
    /\ \A f, g \in Frames : FrameOwns(f, s) /\ FrameOwns(g, s) => f = g
    /\ \A p \in Pages, f \in Frames : ~(PageOwns(p, s) /\ FrameOwns(f, s))
    /\ s \in ToSet(diskSlots) => /\ \A p \in Pages : ~PageOwns(p, s)
                                 /\ \A f \in Frames : ~FrameOwns(f, s)
    /\ SlotOwned(s) => s \in diskSlotBitmap
    /\ s \in diskSlotBitmap => SlotOwned(s) \/ s = 0 \/ "unfilled" \in races

(* The disk thread has slots only while it works on a batch, each once.    *)
BatchSlots ==
    /\ IsInjective(diskSlots)
    /\ diskPC \notin {"collect", "write", "publish", "readWord", "writeWord"} => diskSlots = <<>>

(* A frame in the hands of a thread that parts from its slot is in no      *)
(* other such hands, nor on standby.                                       *)
PartingApart ==
    \A u \in Users : pc[u] \in Parting =>
        /\ currentFrame[u] \in Frames \ ToSet(standbyList)
        /\ \A v \in Users : pc[v] \in Parting /\ currentFrame[v] = currentFrame[u] => v = u

SlotsRight == (\A s \in DiskSlots : SlotOK(s)) /\ BatchSlots /\ PartingApart

(* A slot that is in use with nobody to release it.                        *)
Lost(s) == s \in diskSlotBitmap /\ ~SlotOwned(s)

(* A step keeps the owners right, and neither loses nor finds a slot.      *)
SlotsKept == \A s \in DiskSlots : SlotOK(s)' /\ (Lost(s)' <=> Lost(s))

-----------------------------------------------------------------------------
(* Steps that change no owner.                                             *)

(* Slots whose owners do not change are kept.                              *)
LEMMA OwnersStay ==
    ASSUME \A s \in DiskSlots : SlotOK(s), races \subseteq races',
           UNCHANGED <<diskSlotBitmap, diskSlots>>,
           \A p \in Pages, s \in DiskSlots : PageOwns(p, s)' <=> PageOwns(p, s),
           \A f \in Frames, s \in DiskSlots : FrameOwns(f, s)' <=> FrameOwns(f, s)
    PROVE  SlotsKept
BY DEF SlotsKept, Lost, SlotOK, SlotOwned

(* A page keeps its slot unless its PTE changes or a thread loads it.      *)
LEMMA PageOwnersStay ==
    ASSUME NEW u \in Users, UNCHANGED pageTable,
           \A v \in Users : v # u => pc'[v] = pc[v] /\ va'[v] = va[v],
           \/ pc[u] \notin Loading /\ pc'[u] \notin Loading
           \/ va'[u] = va[u] /\ pc[u] \in Loading /\ pc'[u] \in Loading
           \/ va'[u] = va[u] /\ \A s \in DiskSlots \ {0} : pageTable[Page(u)] # Disk(s)
    PROVE  \A p \in Pages, s \in DiskSlots : PageOwns(p, s)' <=> PageOwns(p, s)
<1> TAKE p \in Pages, s \in DiskSlots
<1>1. \A v \in Users : v # u => (Page(v)' = Page(v))  BY DEF Page
<1>2. va'[u] = va[u] => Page(u)' = Page(u)  BY DEF Page
<1>. QED  BY <1>1, <1>2 DEF PageOwns, Loading

(* A frame keeps its slot, on standby or in a thread's hands.              *)
LEMMA FrameOwnersStay ==
    ASSUME UNCHANGED standbyList,
           \A v \in Users : /\ pc'[v] \in Parting <=> pc[v] \in Parting
                            /\ pc[v] \in Parting => currentFrame'[v] = currentFrame[v],
           \A f \in Frames : HasCopy(f) => pfnArray'[f].diskIndex = pfnArray[f].diskIndex
    PROVE  \A f \in Frames, s \in DiskSlots : FrameOwns(f, s)' <=> FrameOwns(f, s)
BY DEF FrameOwns, HasCopy, Parting

(* A thread that waits, faults or fails to rescue, and one that reads its  *)
(* PTE again and finds it as it left it.                                   *)
LEMMA WaitingOwnersStay ==
    ASSUME TypeOK, ControlOK, Owned, PagesRight, \A s \in DiskSlots : SlotOK(s), NEW u \in Users,
           races \subseteq races', "staleFrame" \notin races',
           \/ AccessStep(u) \/ Shutdown(u) \/ FaultOnValid(u) \/ ReleaseValid(u)
           \/ FaultInTransition(u)
           \/ FaultOnAbsent(u) \/ StandbyEmpty(u) \/ ResetFinished(u) \/ RequestTrim(u)
           \/ WaitFinished(u) \/ Reacquire(u)
           \/ RescueWritten(u) /\ ~pfnArray[currentFrame[u]].isBeingWritten
           \/ RescueModified(u) /\ ~pfnArray[currentFrame[u]].isOnModifiedList
           \/ RescueStandby(u) /\ ~pfnArray[currentFrame[u]].isOnStandbyList
    PROVE  SlotsKept
<1>1. UNCHANGED <<diskSlotBitmap, diskSlots, standbyList, pageTable, pfnArray>>
  <2>1. CASE AccessStep(u) \/ Shutdown(u)
    BY <2>1 DEF AccessStep, Store, Fault, Shutdown
  <2>2. CASE \/ FaultOnValid(u) \/ ReleaseValid(u) \/ FaultInTransition(u) \/ FaultOnAbsent(u)
             \/ StandbyEmpty(u)
             \/ ResetFinished(u) \/ RequestTrim(u) \/ WaitFinished(u)
    BY <2>2 DEF FaultOnValid, ReleaseValid, FaultInTransition, FaultOnAbsent, StandbyEmpty,
       ResetFinished,
       RequestTrim, WaitFinished
  <2>3. CASE Reacquire(u)
    BY <2>3 DEF Reacquire
  <2>4. CASE \/ RescueWritten(u) /\ ~pfnArray[currentFrame[u]].isBeingWritten
             \/ RescueModified(u) /\ ~pfnArray[currentFrame[u]].isOnModifiedList
             \/ RescueStandby(u) /\ ~pfnArray[currentFrame[u]].isOnStandbyList
    BY <2>4 DEF RescueWritten, RescueModified, RescueStandby
  <2>. QED  BY <2>1, <2>2, <2>3, <2>4
<1>2. pc[u] \notin Loading \cup Parting /\ pc'[u] \notin Loading \cup Parting
  <2>1. CASE AccessStep(u) \/ Shutdown(u)
    BY <2>1 DEF AccessStep, Store, Fault, Accesses, Shutdown, GoTo, TypeOK, UsersTyped, Loading,
       Parting
  <2>2. CASE \/ FaultOnValid(u) \/ ReleaseValid(u) \/ FaultInTransition(u) \/ FaultOnAbsent(u)
             \/ StandbyEmpty(u)
             \/ ResetFinished(u) \/ RequestTrim(u) \/ WaitFinished(u)
    BY <2>2 DEF FaultOnValid, ReleaseValid, FaultInTransition, FaultOnAbsent, StandbyEmpty,
       ResetFinished,
       RequestTrim, WaitFinished, AfterWait, GoTo, TypeOK, UsersTyped, Loading, Parting
  <2>3. CASE Reacquire(u)
    BY <2>3 DEF Reacquire, GoTo, FillStep, TypeOK, UsersTyped, Loading, Parting
  <2>4. CASE \/ RescueWritten(u) /\ ~pfnArray[currentFrame[u]].isBeingWritten
             \/ RescueModified(u) /\ ~pfnArray[currentFrame[u]].isOnModifiedList
             \/ RescueStandby(u) /\ ~pfnArray[currentFrame[u]].isOnStandbyList
    BY <2>4 DEF RescueWritten, RescueModified, RescueStandby, GoTo, TypeOK, UsersTyped, Loading,
       Parting
  <2>. QED  BY <2>1, <2>2, <2>3, <2>4
<1>3. \A v \in Users : v # u => /\ pc'[v] = pc[v] /\ va'[v] = va[v]
                                /\ currentFrame'[v] = currentFrame[v]
  BY UserMovesAlone DEF ResolveStep
<1>4. \A p \in Pages, s \in DiskSlots : PageOwns(p, s)' <=> PageOwns(p, s)
  BY <1>1, <1>2, <1>3, PageOwnersStay
<1>5. \A v \in Users : /\ pc'[v] \in Parting <=> pc[v] \in Parting
                       /\ pc[v] \in Parting => currentFrame'[v] = currentFrame[v]
  BY <1>2, <1>3
<1>6. \A f \in Frames, s \in DiskSlots : FrameOwns(f, s)' <=> FrameOwns(f, s)
  BY <1>1, <1>5, FrameOwnersStay
<1>. QED  BY <1>1, <1>4, <1>6, OwnersStay

(* A thread that fills a frame which needs no slot, or has read it.        *)
LEMMA FillingOwnersStay ==
    ASSUME TypeOK, ControlOK, Owned, PagesRight, \A s \in DiskSlots : SlotOK(s), NEW u \in Users,
           races \subseteq races', GetFreeFrame(u) \/ WipePage(u) \/ CopyFromDisk(u)
    PROVE  SlotsKept
<1>1. /\ UNCHANGED <<diskSlotBitmap, diskSlots, standbyList, pageTable, pfnArray, va>>
      /\ pc[u] \notin Parting /\ pc'[u] \notin Parting
      /\ \/ pc[u] \notin Loading /\ pc'[u] \notin Loading
         \/ pc[u] \in Loading /\ pc'[u] \in Loading
         \/ pc[u] \in Filling /\ pteContents[u] = Zero
  BY DEF GetFreeFrame, WipePage, CopyFromDisk, GoTo, TypeOK, UsersTyped, Loading, Parting, Filling,
     PagesRight, ThreadOK
<1>2. \A v \in Users : v # u => /\ pc'[v] = pc[v] /\ va'[v] = va[v]
                                /\ currentFrame'[v] = currentFrame[v]
  BY UserMovesAlone DEF ResolveStep
<1>3. pc[u] \in Filling /\ pteContents[u] = Zero =>
          \A s \in DiskSlots \ {0} : pageTable[Page(u)] # Disk(s)
  BY Formats DEF PagesRight, ThreadOK
<1>4. \A p \in Pages, s \in DiskSlots : PageOwns(p, s)' <=> PageOwns(p, s)
  BY <1>1, <1>2, <1>3, PageOwnersStay
<1>5. \A v \in Users : /\ pc'[v] \in Parting <=> pc[v] \in Parting
                       /\ pc[v] \in Parting => currentFrame'[v] = currentFrame[v]
  BY <1>1, <1>2
<1>6. \A f \in Frames, s \in DiskSlots : FrameOwns(f, s)' <=> FrameOwns(f, s)
  BY <1>1, <1>5, FrameOwnersStay
<1>. QED  BY <1>1, <1>4, <1>6, OwnersStay

(* A rescue, of which the slot is still to be released if there is one.    *)
LEMMA RescueOwnersStay ==
    ASSUME TypeOK, ControlOK, Owned, PagesRight, \A s \in DiskSlots : SlotOK(s), NEW u \in Users,
           NEW f \in Frames, RescueTakes(u, f)
    PROVE  SlotsKept
<1>1. Page(u) \in Pages /\ pageTable[Page(u)] = Transition(f)
  BY HeldLock DEF RescueTakes, LockHeld, Rescuing, PagesRight, ThreadOK
<1>2. \A p \in Pages, s \in DiskSlots : PageOwns(p, s)' <=> PageOwns(p, s)
  BY <1>1, Formats, PageOwnersStay DEF RescueTakes
<1>3. ASSUME NEW g \in Frames  PROVE HasCopy(g)' <=> HasCopy(g)
  <2>1. HasCopy(g)' <=> \/ g \in ToSet(standbyList) /\ ~(pc[u] = "checkStandby" /\ g = f)
                        \/ \E v \in Users \ {u} : pc[v] \in Parting /\ currentFrame[v] = g
                        \/ pc[u] = "checkStandby" /\ g = f
    BY DEF RescueTakes, HasCopy, Parting
  <2>2. HasCopy(g) <=> \/ g \in ToSet(standbyList)
                       \/ \E v \in Users \ {u} : pc[v] \in Parting /\ currentFrame[v] = g
    BY DEF RescueTakes, HasCopy, Parting
  <2>3. pc[u] = "checkStandby" => f \in ToSet(standbyList)  BY DEF RescueTakes
  <2>. QED  BY <2>1, <2>2, <2>3
<1>4. \A g \in Frames, s \in DiskSlots : FrameOwns(g, s)' <=> FrameOwns(g, s)
  BY <1>3 DEF FrameOwns, RescueTakes
<1>5. UNCHANGED <<diskSlotBitmap, diskSlots>> /\ races \subseteq races'
  BY DEF RescueTakes
<1>. QED  BY <1>2, <1>4, <1>5, OwnersStay

(* A victim taken from standby keeps its slot until its PTE has it.        *)
LEMMA VictimOwnersStay ==
    ASSUME TypeOK, ControlOK, Owned, PagesRight, \A s \in DiskSlots : SlotOK(s), NEW u \in Users,
           NEW f \in Frames, TakesVictim(u, f)
    PROVE  SlotsKept
<1>1. pc[u] \notin Loading /\ pc'[u] \notin Loading  BY DEF TakesVictim, Loading
<1>2. \A p \in Pages, s \in DiskSlots : PageOwns(p, s)' <=> PageOwns(p, s)
  BY <1>1, PageOwnersStay DEF TakesVictim
<1>3. ASSUME NEW g \in Frames  PROVE HasCopy(g)' <=> HasCopy(g)
  BY DEF TakesVictim, HasCopy
<1>4. \A g \in Frames, s \in DiskSlots : FrameOwns(g, s)' <=> FrameOwns(g, s)
  BY <1>3 DEF FrameOwns, TakesVictim
<1>5. UNCHANGED <<diskSlotBitmap, diskSlots>> /\ races \subseteq races'
  BY DEF TakesVictim
<1>. QED  BY <1>2, <1>4, <1>5, OwnersStay

(* A page that is mapped has given up its slot before.                     *)
LEMMA MapOwnersStay ==
    ASSUME TypeOK, ControlOK, Owned, PagesRight, \A s \in DiskSlots : SlotOK(s), NEW u \in Users,
           NEW p \in Pages, NEW f \in Frames, Maps(u, p, f)
    PROVE  SlotsKept
<1>1. /\ pageTable'[p] = Valid(f)
      /\ \A q \in Pages : q # p => pageTable'[q] = pageTable[q]
  BY DEF Maps, TypeOK, PagesTyped
<1>2. ASSUME NEW q \in Pages, NEW s \in DiskSlots  PROVE PageOwns(q, s)' <=> PageOwns(q, s)
  <2>1. CASE q = p
    BY <1>1, <2>1, Formats DEF PageOwns, Maps
  <2>2. CASE q # p
    <3>1. \A v \in Users : v # u => pc'[v] = pc[v] /\ Page(v)' = Page(v)
      BY DEF Maps, Page
    <3>2. Page(u) # q /\ Page(u)' # q  BY <2>2 DEF Maps, Page
    <3>. QED  BY <1>1, <2>2, <3>1, <3>2 DEF PageOwns
  <2>. QED  BY <2>1, <2>2
<1>3. ASSUME NEW g \in Frames  PROVE HasCopy(g)' <=> HasCopy(g)
  BY DEF Maps, HasCopy
<1>4. \A g \in Frames, s \in DiskSlots : FrameOwns(g, s)' <=> FrameOwns(g, s)
  BY <1>3 DEF FrameOwns, Maps
<1>5. UNCHANGED <<diskSlotBitmap, diskSlots>> /\ races \subseteq races'
  BY DEF Maps
<1>. QED  BY <1>2, <1>4, <1>5, OwnersStay

(* The trim thread changes no owner.                                       *)
LEMMA TrimOwnersStay ==
    ASSUME TypeOK, ControlOK, Owned, PagesRight, \A s \in DiskSlots : SlotOK(s), TrimStep
    PROVE  SlotsKept
<1>1. UNCHANGED <<diskSlotBitmap, diskSlots, standbyList, pc, va, currentFrame, races>>
  BY DEF TrimStep, TrimWait, PopActive, UnmapBatch, FixPTE, AddModified, SignalModWrite,
     SetModWriteEvent
<1>2. ASSUME NEW p \in Pages, NEW s \in DiskSlots
      PROVE  pageTable'[p] = Disk(s) <=> pageTable[p] = Disk(s)
  <2>1. CASE FixPTE
    BY <2>1, FixPTEKnown, Formats DEF TypeOK, PagesTyped
  <2>2. CASE ~FixPTE
    BY <2>2 DEF TrimStep, TrimWait, PopActive, UnmapBatch, AddModified, SignalModWrite
  <2>. QED  BY <2>1, <2>2
<1>3. ASSUME NEW f \in Frames, HasCopy(f)  PROVE pfnArray'[f].diskIndex = pfnArray[f].diskIndex
  <2>1. CASE FixPTE
    BY <1>3, <2>1, FixPTEKnown, ApartFrames
  <2>2. CASE AddModified
    BY <2>2, AddModifiedEffect
  <2>3. CASE TrimWait \/ PopActive \/ UnmapBatch \/ SignalModWrite
    BY <2>3 DEF TrimWait, PopActive, UnmapBatch, SignalModWrite
  <2>. QED  BY <2>1, <2>2, <2>3 DEF TrimStep
<1>4. \A p \in Pages, s \in DiskSlots : PageOwns(p, s)' <=> PageOwns(p, s)
  BY <1>1, <1>2 DEF PageOwns, Page
<1>5. \A f \in Frames, s \in DiskSlots : FrameOwns(f, s)' <=> FrameOwns(f, s)
  BY <1>1, <1>3, FrameOwnersStay
<1>. QED  BY <1>1, <1>4, <1>5, OwnersStay

(* Nor does the disk thread while it writes.                               *)
LEMMA WritingOwnersStay ==
    ASSUME TypeOK, ControlOK, Owned, BatchApart, PagesRight, \A s \in DiskSlots : SlotOK(s),
           races \subseteq races', DiskWait \/ WritePage \/ ReadFrameWord \/ WriteFrameWord
    PROVE  SlotsKept
<1>1. UNCHANGED <<diskSlotBitmap, diskSlots, standbyList, pc, va, currentFrame, pageTable>>
  BY DEF DiskWait, WritePage, ReadFrameWord, WriteFrameWord
<1>2. \A f \in Frames : HasCopy(f) => pfnArray'[f].diskIndex = pfnArray[f].diskIndex
  <2>1. CASE WriteFrameWord
    BY <2>1, WriteFrameWordEffect
  <2>2. CASE ~WriteFrameWord
    BY <2>2 DEF DiskWait, WritePage, ReadFrameWord
  <2>. QED  BY <2>1, <2>2
<1>3. \A p \in Pages, s \in DiskSlots : PageOwns(p, s)' <=> PageOwns(p, s)
  BY <1>1 DEF PageOwns, Page
<1>4. \A f \in Frames, s \in DiskSlots : FrameOwns(f, s)' <=> FrameOwns(f, s)
  BY <1>1, <1>2, FrameOwnersStay
<1>. QED  BY <1>1, <1>3, <1>4, OwnersStay

-----------------------------------------------------------------------------
(* Steps that release, give away or reserve a slot.                        *)

(* A slot released together with its only owner.                           *)
LEMMA OwnerLeaves ==
    ASSUME \A s \in DiskSlots : SlotOK(s), races \subseteq races', NEW gone \in DiskSlots,
           SlotOwned(gone),
           diskSlotBitmap' = diskSlotBitmap \ {gone},
           \A p \in Pages, s \in DiskSlots : PageOwns(p, s)' <=> PageOwns(p, s) /\ s # gone,
           \A f \in Frames, s \in DiskSlots : FrameOwns(f, s)' <=> FrameOwns(f, s) /\ s # gone,
           ToSet(diskSlots') = ToSet(diskSlots) \ {gone}
    PROVE  SlotsKept
BY DEF SlotsKept, Lost, SlotOK, SlotOwned

(* The slot of a frame rescued from standby.                               *)
LEMMA ReleaseRescuedOwners ==
    ASSUME TypeOK, ControlOK, Owned, PagesRight, \A s \in DiskSlots : SlotOK(s), NEW u \in Users,
           ReleaseRescuedSlot(u)
    PROVE  SlotsKept /\ halted' = halted
<1>1. PICK f \in Frames : f = currentFrame[u]
  BY WorksOnFrame DEF ReleaseRescuedSlot, NeedsFrame, Holding
<1>2. /\ UNCHANGED <<pageTable, standbyList, currentFrame, va, diskSlots, races>>
      /\ pc[u] = "releaseSlot" /\ pc'[u] = "map"
      /\ \A v \in Users : v # u => pc'[v] = pc[v]
  BY DEF ReleaseRescuedSlot, GoTo, TypeOK, UsersTyped
<1> DEFINE gone == pfnArray[f].diskIndex
<1>3. HasCopy(f) /\ FrameOwns(f, gone)  BY <1>1, <1>2 DEF HasCopy, FrameOwns
<1>4. gone \in DiskSlots  BY <1>3 DEF PagesRight, FrameOK
<1>5. diskSlotBitmap' = diskSlotBitmap \ {gone}
  BY <1>1 DEF ReleaseRescuedSlot, ReleaseDiskSlots
<1>6. SlotOwned(gone)  BY <1>3 DEF SlotOwned
<1>7. halted' = halted
  BY <1>1, <1>4, <1>6 DEF SlotOK, ReleaseRescuedSlot, DebugAssert
<1>8. \A g \in Frames : g # f => pfnArray'[g] = pfnArray[g]
  BY <1>1 DEF ReleaseRescuedSlot, TypeOK, FramesTyped
<1>9. ~HasCopy(f)' /\ \A g \in Frames : g # f => (HasCopy(g)' <=> HasCopy(g))
  <2>1. UserHolds(u, f)  BY <1>1, <1>2 DEF UserHolds, Holding
  <2>2. f \notin ToSet(standbyList) /\ \A v \in Users : UserHolds(v, f) => v = u
    BY <2>1 DEF Owned, Apart, InAList
  <2>3. ~HasCopy(f)'
    BY <1>2, <2>2 DEF HasCopy, UserHolds, Holding
  <2>. QED  BY <1>1, <1>2, <2>3 DEF HasCopy
<1>10. ASSUME NEW g \in Frames, NEW s \in DiskSlots
       PROVE  FrameOwns(g, s)' <=> FrameOwns(g, s) /\ s # gone
  <2>1. CASE g = f  BY <1>9, <2>1 DEF FrameOwns
  <2>2. CASE g # f
    <3>1. ~FrameOwns(g, gone)  BY <1>3, <1>4, <2>2 DEF SlotOK
    <3>. QED  BY <1>8, <1>9, <2>2, <3>1 DEF FrameOwns
  <2>. QED  BY <2>1, <2>2
<1>11. ASSUME NEW p \in Pages, NEW s \in DiskSlots
       PROVE  PageOwns(p, s)' <=> PageOwns(p, s) /\ s # gone
  <2>1. pageTable[Page(u)] = Transition(f)
    BY <1>1, <1>2 DEF PagesRight, ThreadOK, Rescuing
  <2>2. PageOwns(p, s)' <=> PageOwns(p, s)
    BY <1>2, <2>1, Formats, PageOwnersStay
  <2>3. ~PageOwns(p, gone)  BY <1>3, <1>4 DEF SlotOK
  <2>. QED  BY <2>2, <2>3
<1>12. gone \notin ToSet(diskSlots)  BY <1>3, <1>4 DEF SlotOK
<1>13. ToSet(diskSlots') = ToSet(diskSlots) \ {gone} /\ races \subseteq races'
  BY <1>2, <1>12
<1>. HIDE DEF gone
<1>. QED  BY <1>4, <1>5, <1>6, <1>7, <1>10, <1>11, <1>13, OwnerLeaves

(* The slot a thread is about to read its page from is the page's own.     *)
LEMMA SwapsOwnSlot ==
    ASSUME TypeOK, ControlOK, PagesRight, NEW u \in Users, pc[u] = "swapIn"
    PROVE  \E s \in DiskSlots :
               /\ s = pteContents[u].number /\ s # 0 /\ Page(u) \in Pages
               /\ pageTable[Page(u)] = Disk(s) /\ PageOwns(Page(u), s)
               /\ \A v \in Users : pc[v] \in Loading => Page(v) # Page(u)
<1>1. Page(u) \in Pages  BY WorksOnPage
<1>2. PICK s \in DiskSlots : pteContents[u] = Disk(s) /\ pageTable[Page(u)] = Disk(s)
  BY DEF PagesRight, ThreadOK, Filling, OnDiskFormat
<1>3. s = pteContents[u].number /\ s # 0
  BY <1>2, Formats DEF PagesRight, ThreadOK
<1>4. ASSUME NEW v \in Users, pc[v] \in Loading, Page(v) = Page(u)  PROVE FALSE
  <2>1. pteLockTable[Lock(Page(u))] = u /\ pteLockTable[Lock(Page(v))] = v
    BY <1>4 DEF PagesRight, ThreadOK, LockHeld, Filling, Loading
  <2>. QED  BY <1>4, <2>1 DEF Loading
<1>5. PageOwns(Page(u), s)
  BY <1>2, <1>3, <1>4 DEF PageOwns, Loading
<1>. QED  BY <1>1, <1>2, <1>3, <1>4, <1>5

(* That slot is released before it is read.                                *)
LEMMA SwapOwners ==
    ASSUME TypeOK, ControlOK, Owned, PagesRight, \A s \in DiskSlots : SlotOK(s), NEW u \in Users,
           SwapFromDisk(u)
    PROVE  SlotsKept /\ halted' = halted
<1>1. PICK gone \in DiskSlots :
               /\ gone = pteContents[u].number /\ gone # 0 /\ Page(u) \in Pages
               /\ pageTable[Page(u)] = Disk(gone) /\ PageOwns(Page(u), gone)
               /\ \A v \in Users : pc[v] \in Loading => Page(v) # Page(u)
  BY SwapsOwnSlot DEF SwapFromDisk
<1>2. /\ UNCHANGED <<pageTable, standbyList, currentFrame, va, diskSlots, races>>
      /\ pc[u] = "swapIn" /\ pc'[u] = "copyIn"
      /\ \A v \in Users : v # u => pc'[v] = pc[v]
  BY DEF SwapFromDisk, GoTo, TypeOK, UsersTyped
<1>3. diskSlotBitmap' = diskSlotBitmap \ {gone}
  BY <1>1 DEF SwapFromDisk, ReleaseDiskSlots
<1>4. SlotOwned(gone)  BY <1>1 DEF SlotOwned
<1>5. halted' = halted
  BY <1>1, <1>4 DEF SlotOK, SwapFromDisk, DebugAssert
<1>6. PICK f \in Frames : f = currentFrame[u]
  BY WorksOnFrame DEF SwapFromDisk, NeedsFrame, Holding
<1>7. \A g \in Frames : g # f => pfnArray'[g] = pfnArray[g]
  BY <1>6 DEF SwapFromDisk, TypeOK, FramesTyped
<1>8. ~HasCopy(f)
  <2>1. UserHolds(u, f)  BY <1>2, <1>6 DEF UserHolds, Holding
  <2>2. f \notin ToSet(standbyList) /\ \A v \in Users : UserHolds(v, f) => v = u
    BY <2>1 DEF Owned, Apart, InAList
  <2>. QED  BY <1>2, <2>2 DEF HasCopy, UserHolds, Holding
<1>9. ASSUME NEW g \in Frames, NEW s \in DiskSlots
      PROVE  FrameOwns(g, s)' <=> FrameOwns(g, s) /\ s # gone
  <2>1. \A v \in Users : /\ pc'[v] \in Parting <=> pc[v] \in Parting
                         /\ pc[v] \in Parting => currentFrame'[v] = currentFrame[v]
    BY <1>2 DEF Parting
  <2>2. FrameOwns(g, s)' <=> FrameOwns(g, s)
    BY <1>2, <1>7, <1>8, <2>1, FrameOwnersStay
  <2>3. ~FrameOwns(g, gone)  BY <1>1 DEF SlotOK
  <2>. QED  BY <2>2, <2>3
<1>10. ASSUME NEW p \in Pages, NEW s \in DiskSlots
       PROVE  PageOwns(p, s)' <=> PageOwns(p, s) /\ s # gone
  <2>1. \A v \in Users : Page(v)' = Page(v)  BY <1>2 DEF Page
  <2>2. CASE p = Page(u)
    <3>1. ~PageOwns(p, s)'  BY <1>2, <2>1, <2>2 DEF PageOwns
    <3>2. PageOwns(p, s) => s = gone  BY <1>1, <2>2, Formats DEF PageOwns
    <3>. QED  BY <3>1, <3>2
  <2>3. CASE p # Page(u)
    <3>1. PageOwns(p, s)' <=> PageOwns(p, s)  BY <1>2, <2>1, <2>3 DEF PageOwns
    <3>2. ~PageOwns(p, gone)  BY <1>1, <2>3 DEF SlotOK
    <3>. QED  BY <3>1, <3>2
  <2>. QED  BY <2>2, <2>3
<1>11. gone \notin ToSet(diskSlots)  BY <1>1 DEF SlotOK
<1>12. ToSet(diskSlots') = ToSet(diskSlots) \ {gone} /\ races \subseteq races'
  BY <1>2, <1>11
<1>. QED  BY <1>3, <1>4, <1>5, <1>9, <1>10, <1>12, OwnerLeaves

(* A page that could not be filled leaves its slot without an owner.       *)
LEMMA SwapFailsOwners ==
    ASSUME TypeOK, ControlOK, Owned, PagesRight, \A s \in DiskSlots : SlotOK(s), NEW u \in Users,
           SwapFromDiskFails(u)
    PROVE  \A s \in DiskSlots : SlotOK(s)'
<1>1. /\ UNCHANGED <<pageTable, pfnArray, standbyList, currentFrame, va, diskSlots,
                     diskSlotBitmap>>
      /\ pc[u] = "swapIn" /\ pc'[u] = "map" /\ "unfilled" \in races'
      /\ \A v \in Users : v # u => pc'[v] = pc[v]
  BY DEF SwapFromDiskFails, GoTo, TypeOK, UsersTyped
<1>2. \A p \in Pages, s \in DiskSlots : PageOwns(p, s)' => PageOwns(p, s)
  <2>1. \A v \in Users : Page(v)' = Page(v)  BY <1>1 DEF Page
  <2>. QED  BY <1>1, <2>1 DEF PageOwns
<1>3. \A v \in Users : /\ pc'[v] \in Parting <=> pc[v] \in Parting
                       /\ pc[v] \in Parting => currentFrame'[v] = currentFrame[v]
  BY <1>1 DEF Parting
<1>4. \A f \in Frames, s \in DiskSlots : FrameOwns(f, s)' <=> FrameOwns(f, s)
  BY <1>1, <1>3, FrameOwnersStay
<1>. QED  BY <1>1, <1>2, <1>4 DEF SlotOK, SlotOwned

(* The slot of a victim becomes its page's, unless it is slot 0.           *)
LEMMA LosesOwners ==
    ASSUME TypeOK, ControlOK, Owned, PagesRight, \A s \in DiskSlots : SlotOK(s), NEW u \in Users,
           NEW f \in Frames, LosesPage(f, u)
    PROVE  /\ \A s \in DiskSlots : SlotOK(s)'
           /\ Lost(0)' <=> Lost(0) \/ pfnArray[f].diskIndex = 0
           /\ pfnArray[f].diskIndex = 0 => ~Lost(0)
<1> DEFINE v == pfnArray[f].PTE
           slot == pfnArray[f].diskIndex
<1>1. /\ Leaving(f) /\ HasCopy(f) /\ v \in Pages /\ pageTable[v] = Transition(f)
      /\ slot \in DiskSlots
      /\ \A w \in Users : UserHolds(w, f) => w = u /\ pc[u] = "updateVictim"
  BY LosesKnown
<1>2. /\ pageTable'[v] = Disk(slot)
      /\ \A p \in Pages : p # v => pageTable'[p] = pageTable[p]
  BY <1>1 DEF LosesPage, TypeOK, PagesTyped
<1>3. FrameOwns(f, slot)  BY <1>1 DEF FrameOwns
<1>. HIDE DEF v, slot
<1>4. /\ \A w \in Users : w # u => pc'[w] = pc[w] /\ currentFrame'[w] = currentFrame[w]
      /\ pc[u] \in {"takeStandby", "updateVictim"} /\ pc'[u] \in {"wipe", "swapIn", "reacquire"}
      /\ pc[u] = "updateVictim" => currentFrame[u] = f
      /\ ToSet(standbyList') = ToSet(standbyList) \ {f}
      /\ UNCHANGED <<va, diskSlots, diskSlotBitmap, races>>
      /\ \A g \in Frames : g # f => pfnArray'[g].diskIndex = pfnArray[g].diskIndex
  BY DEF LosesPage
<1>5. \A w \in Users : pc[w] \in Loading => Page(w) # v
  <2> SUFFICES ASSUME NEW w \in Users, pc[w] \in Loading, Page(w) = v  PROVE FALSE
    OBVIOUS
  <2>1. ~OnDiskFormat(pageTable[v])  BY <1>1, Formats DEF OnDiskFormat
  <2>2. pc[w] = "map" /\ pageTable[v] = Transition(currentFrame[w])
    BY <2>1 DEF PagesRight, ThreadOK, Loading, Filling
  <2>3. currentFrame[w] = f  BY <1>1, <2>2, Formats
  <2>4. UserHolds(w, f)  BY <2>2, <2>3 DEF UserHolds, Holding
  <2>. QED  BY <1>1, <2>2, <2>4
<1>6. \A w \in Users : /\ pc'[w] \in {"copyIn", "map"} <=> pc[w] \in {"copyIn", "map"}
                       /\ Page(w)' = Page(w)
  BY <1>4 DEF Page
<1>7. ASSUME NEW p \in Pages, NEW s \in DiskSlots
      PROVE  PageOwns(p, s)' <=> PageOwns(p, s) \/ (p = v /\ s = slot /\ s # 0)
  <2>1. CASE p = v
    <3>1. ~PageOwns(p, s)  BY <1>1, <2>1, Formats DEF PageOwns
    <3>2. PageOwns(p, s)' <=> s # 0 /\ s = slot
      BY <1>2, <1>5, <1>6, <2>1, Formats DEF PageOwns, Loading
    <3>. QED  BY <2>1, <3>1, <3>2
  <2>2. CASE p # v
    BY <1>2, <1>6, <2>2 DEF PageOwns
  <2>. QED  BY <2>1, <2>2
<1>8. ~HasCopy(f)' /\ \A g \in Frames : g # f => (HasCopy(g)' <=> HasCopy(g))
  <2>1. \A w \in Users : pc[w] \in Parting /\ currentFrame[w] = f => w = u
    BY <1>1 DEF UserHolds, Holding, Parting
  <2>2. ~HasCopy(f)'  BY <1>4, <2>1 DEF HasCopy, Parting
  <2>. QED  BY <1>4, <2>2 DEF HasCopy
<1>9. ASSUME NEW g \in Frames, NEW s \in DiskSlots
      PROVE  FrameOwns(g, s)' <=> FrameOwns(g, s) /\ g # f
  BY <1>4, <1>8 DEF FrameOwns
<1>10. ASSUME NEW s \in DiskSlots  PROVE SlotOK(s)'
  <2>1. SlotOK(s)  OBVIOUS
  <2>2. CASE s = slot
    <3>1. /\ \A p \in Pages : ~PageOwns(p, s)
          /\ \A g \in Frames : FrameOwns(g, s) => g = f
          /\ s \notin ToSet(diskSlots) /\ s \in diskSlotBitmap
      BY <1>3, <2>1, <2>2 DEF SlotOK, SlotOwned
    <3>2. \A g \in Frames : ~FrameOwns(g, s)'  BY <1>9, <3>1
    <3>3. \A p \in Pages : PageOwns(p, s)' <=> p = v /\ s # 0  BY <1>7, <2>2, <3>1
    <3>4. s # 0 => \E p \in Pages : PageOwns(p, s)'  BY <1>1, <3>3
    <3>5. s \notin ToSet(diskSlots') /\ s \in diskSlotBitmap'  BY <1>4, <3>1
    <3>6. SlotOwned(s)' \/ s = 0  BY <3>4 DEF SlotOwned
    <3>. QED  BY <3>2, <3>3, <3>5, <3>6 DEF SlotOK
  <2>3. CASE s # slot
    <3>1. ~FrameOwns(f, s)  BY <2>3 DEF FrameOwns, slot
    <3>. QED  BY <1>4, <1>7, <1>9, <2>1, <2>3, <3>1 DEF SlotOK, SlotOwned
  <2>. QED  BY <2>2, <2>3
<1>11. slot = 0 => ~Lost(0) /\ Lost(0)'
  <2> SUFFICES ASSUME slot = 0  PROVE ~Lost(0) /\ Lost(0)'
    OBVIOUS
  <2>1. SlotOK(0) /\ SlotOwned(0)  BY <1>1, <1>3 DEF SlotOwned
  <2>2. \A g \in Frames : ~FrameOwns(g, 0)'  BY <1>1, <1>3, <1>9, <2>1 DEF SlotOK
  <2>3. \A p \in Pages : ~PageOwns(p, 0)'  BY DEF PageOwns
  <2>4. 0 \notin ToSet(diskSlots') /\ 0 \in diskSlotBitmap'
    BY <1>3, <1>4, <2>1 DEF SlotOK
  <2>. QED  BY <2>1, <2>2, <2>3, <2>4 DEF Lost, SlotOwned
<1>12. slot # 0 => (Lost(0)' <=> Lost(0))
  <2> SUFFICES ASSUME slot # 0  PROVE Lost(0)' <=> Lost(0)
    OBVIOUS
  <2>1. 0 \in DiskSlots  BY ConstantsAssumption DEF DiskSlots
  <2>2. ~FrameOwns(f, 0)  BY DEF FrameOwns, slot
  <2>. QED  BY <1>4, <1>7, <1>9, <2>1, <2>2 DEF Lost, SlotOwned
<1>. QED  BY <1>10, <1>11, <1>12 DEF slot

(* Free slots become the disk thread's.                                    *)
LEMMA ReserveOwners ==
    ASSUME TypeOK, ControlOK, Owned, PagesRight, SlotsRight, ReserveSlots
    PROVE  SlotsKept /\ IsInjective(diskSlots')
<1>1. /\ UNCHANGED <<pageTable, pfnArray, standbyList, currentFrame, va, pc, races>>
      /\ diskSlotBitmap' = diskSlotBitmap \cup ToSet(diskSlots')
      /\ IsInjective(diskSlots')
  BY DEF ReserveSlots
<1>2. ToSet(diskSlots) = {}
  BY DEF SlotsRight, BatchSlots, ReserveSlots, ToSet
<1>3. \A s \in ToSet(diskSlots') : s \notin diskSlotBitmap
  BY DEF ReserveSlots, ToSet, FreeSlots
<1>4. \A p \in Pages, s \in DiskSlots : PageOwns(p, s)' <=> PageOwns(p, s)
  BY <1>1 DEF PageOwns, Page
<1>5. \A f \in Frames, s \in DiskSlots : FrameOwns(f, s)' <=> FrameOwns(f, s)
  BY <1>1 DEF FrameOwns, HasCopy
<1>6. ASSUME NEW s \in DiskSlots  PROVE SlotOK(s)' /\ (Lost(s)' <=> Lost(s))
  <2>1. SlotOK(s)  BY DEF SlotsRight
  <2>. QED  BY <1>1, <1>2, <1>3, <1>4, <1>5, <2>1 DEF Lost, SlotOK, SlotOwned
<1>. QED  BY <1>1, <1>6 DEF SlotsKept

(* The slots the batch does not need are released.                         *)
LEMMA CollectOwners ==
    ASSUME TypeOK, ControlOK, Owned, PagesRight, SlotsRight, CollectModified
    PROVE  SlotsKept /\ IsInjective(diskSlots')
<1> DEFINE n == MinOf(Len(diskSlots), Len(modifiedList))
           back == ToSet(AfterPop(diskSlots, n))
<1>1. n \in 0 .. Len(diskSlots)
  BY LenProperties DEF TypeOK, DiskTyped, ListsTyped, MinOf
<1>2. diskSlots' = Popped(diskSlots, n) /\ diskSlotBitmap' = diskSlotBitmap \ back
  BY DEF CollectModified, ReleaseDiskSlots
<1>3. /\ UNCHANGED <<pageTable, standbyList, currentFrame, va, pc, races>>
      /\ \A g \in Frames : pfnArray'[g].diskIndex = pfnArray[g].diskIndex
  BY CollectModifiedEffect DEF CollectModified
<1>4. diskSlots \in Seq(DiskSlots) /\ IsInjective(diskSlots)
  BY DEF TypeOK, DiskTyped, SlotsRight, BatchSlots
<1>. HIDE DEF n
<1>8. /\ ToSet(diskSlots) = ToSet(diskSlots') \cup back
      /\ ToSet(diskSlots') \cap back = {}
      /\ IsInjective(diskSlots')
  BY <1>1, <1>2, <1>4, PopProperties
<1>. HIDE DEF back
<1>5. \A p \in Pages, s \in DiskSlots : PageOwns(p, s)' <=> PageOwns(p, s)
  BY <1>3 DEF PageOwns, Page
<1>6. \A f \in Frames, s \in DiskSlots : FrameOwns(f, s)' <=> FrameOwns(f, s)
  BY <1>3 DEF FrameOwns, HasCopy
<1>7. ASSUME NEW s \in DiskSlots  PROVE SlotOK(s)' /\ (Lost(s)' <=> Lost(s))
  <2>1. SlotOK(s)  BY DEF SlotsRight
  <2>. QED  BY <1>2, <1>3, <1>5, <1>6, <1>8, <2>1 DEF Lost, SlotOK, SlotOwned
<1>. QED  BY <1>7, <1>8 DEF SlotsKept

(* A written slot becomes that of the frame put on standby; that of a      *)
(* rescued frame is released.                                              *)
LEMMA PublishOwners ==
    ASSUME TypeOK, ControlOK, Owned, BatchApart, PagesRight, SlotsRight, PublishPage
    PROVE  SlotsKept /\ IsInjective(diskSlots') /\ halted' = halted
<1>1. diskSlots \in Seq(DiskSlots) /\ diskSlots # <<>>
  <2>1. swapFrames # <<>> /\ Len(swapFrames) = Len(diskSlots)
    BY DEF ControlOK, DiskControlled, PublishPage
  <2>. QED  BY <2>1, LenProperties, EmptySeq DEF TypeOK, DiskTyped
<1>2. PICK gone \in DiskSlots : gone = diskSlots[1] /\ gone \in ToSet(diskSlots)
  BY <1>1, PopFirstProperties
<1>3. ToSet(diskSlots') = ToSet(diskSlots) \ {gone} /\ IsInjective(diskSlots')
  BY <1>1, <1>2, PopFirstProperties DEF PublishPage, SlotsRight, BatchSlots
<1>4. SlotOwned(gone) /\ gone \in diskSlotBitmap
  BY <1>2 DEF SlotOwned, SlotsRight, SlotOK
<1>5. halted' = halted  BY <1>2, <1>4 DEF PublishPage, DebugAssert
<1>6. UNCHANGED <<pageTable, currentFrame, va, pc, races>>  BY DEF PublishPage
<1>7. \A p \in Pages, s \in DiskSlots : PageOwns(p, s)' <=> PageOwns(p, s)
  BY <1>6 DEF PageOwns, Page
<1>8. (\A p \in Pages : ~PageOwns(p, gone)) /\ \A f \in Frames : ~FrameOwns(f, gone)
  BY <1>2 DEF SlotsRight, SlotOK
<1>9. CASE pfnArray[swapFrames[1]].isBeingWritten
  <2>1. PICK f \in Frames, s \in DiskSlots :
               /\ f = swapFrames[1] /\ f \in InWriting /\ s = diskSlots[1]
               /\ InWriting' = InWriting \ {f}
               /\ ToSet(standbyList') = ToSet(standbyList) \cup {f}
               /\ \A g \in Frames :
                      /\ pfnArray'[g].PTE = pfnArray[g].PTE
                      /\ pfnArray'[g].diskIndex = IF g = f THEN s ELSE pfnArray[g].diskIndex
    BY <1>9, PublishEffect
  <2>2. s = gone  BY <1>2, <2>1
  <2>3. diskSlotBitmap' = diskSlotBitmap  BY <1>9 DEF PublishPage
  <2>4. \A g \in Frames : HasCopy(g)' <=> HasCopy(g) \/ g = f
    BY <1>6, <2>1 DEF HasCopy
  <2>5. ~HasCopy(f)
    <3>1. Leaving(f)  BY <2>1 DEF Leaving
    <3>2. f \notin ToSet(standbyList) /\ \A u \in Users : ~UserHolds(u, f)
      BY <2>1 DEF Owned, Apart, InAList, InOneListOnly
    <3>. QED  BY <3>2 DEF HasCopy, UserHolds, Holding
  <2>6. \A g \in Frames, t \in DiskSlots :
            FrameOwns(g, t)' <=> FrameOwns(g, t) \/ (g = f /\ t = gone)
    BY <2>1, <2>2, <2>4, <2>5 DEF FrameOwns
  <2>7. ASSUME NEW t \in DiskSlots  PROVE SlotOK(t)' /\ (Lost(t)' <=> Lost(t))
    <3>1. SlotOK(t)  BY DEF SlotsRight
    <3>2. CASE t = gone
      BY <1>2, <1>3, <1>4, <1>6, <1>7, <1>8, <2>1, <2>3, <2>6, <3>1, <3>2
         DEF Lost, SlotOK, SlotOwned
    <3>3. CASE t # gone
      BY <1>2, <1>3, <1>6, <1>7, <2>3, <2>6, <3>1, <3>3 DEF Lost, SlotOK, SlotOwned
    <3>. QED  BY <3>2, <3>3
  <2>. QED  BY <1>3, <1>5, <2>7 DEF SlotsKept
<1>10. CASE ~pfnArray[swapFrames[1]].isBeingWritten
  <2>1. UNCHANGED <<pfnArray, standbyList>> /\ diskSlotBitmap' = diskSlotBitmap \ {gone}
    BY <1>2, <1>10 DEF PublishPage, ReleaseDiskSlots
  <2>2. \A f \in Frames, s \in DiskSlots : FrameOwns(f, s)' <=> FrameOwns(f, s)
    BY <1>6, <2>1 DEF FrameOwns, HasCopy
  <2>3. \A s \in DiskSlots : SlotOK(s)  BY DEF SlotsRight
  <2>4. SlotsKept
    BY <1>3, <1>4, <1>6, <1>7, <1>8, <2>1, <2>2, <2>3, OwnerLeaves
  <2>. QED  BY <1>3, <1>5, <2>4
<1>. QED  BY <1>9, <1>10

(* The disk thread reports the end of a batch when no slot is left of it.  *)
LEMMA SignalOwners ==
    ASSUME TypeOK, ControlOK, Owned, PagesRight, SlotsRight, SignalFinished
    PROVE  SlotsKept
<1>1. /\ UNCHANGED <<pageTable, pfnArray, standbyList, currentFrame, va, diskSlotBitmap, races>>
      /\ diskSlots' = <<>> /\ diskPC = "signal"
      /\ \A v \in Users : pc'[v] = pc[v] \/ (pc[v] = "blocked" /\ pc'[v] = "access")
  BY DEF SignalFinished
<1>2. diskSlots' = diskSlots  BY <1>1 DEF SlotsRight, BatchSlots
<1>3. \A p \in Pages, s \in DiskSlots : PageOwns(p, s)' <=> PageOwns(p, s)
  BY <1>1 DEF PageOwns, Page
<1>4. \A v \in Users : /\ pc'[v] \in Parting <=> pc[v] \in Parting
                       /\ pc[v] \in Parting => currentFrame'[v] = currentFrame[v]
  BY <1>1 DEF Parting
<1>5. \A f \in Frames, s \in DiskSlots : FrameOwns(f, s)' <=> FrameOwns(f, s)
  BY <1>1, <1>4, FrameOwnersStay
<1>6. \A s \in DiskSlots : SlotOK(s)  BY DEF SlotsRight
<1>. QED  BY <1>1, <1>2, <1>3, <1>5, <1>6, OwnersStay

-----------------------------------------------------------------------------
(* Every step together.                                                    *)

(* A user thread that takes no page's frame keeps the owners, and no       *)
(* assertion of its code fails.                                            *)
LEMMA UserKeepsSlots ==
    ASSUME TypeOK, ControlOK, Owned, PagesRight, \A s \in DiskSlots : SlotOK(s), NEW u \in Users,
           halted = "running", races \subseteq races', "staleFrame" \notin races',
           AccessStep(u) \/ ResolveStep(u) \/ Shutdown(u),
           ~(TakeStandbySameLock(u) \/ UpdateVictim(u) \/ SwapFromDiskFails(u))
    PROVE  SlotsKept /\ halted' # "assert"
<1>1. CASE \/ AccessStep(u) \/ Shutdown(u) \/ FaultOnValid(u) \/ ReleaseValid(u)
           \/ FaultInTransition(u)
           \/ FaultOnAbsent(u) \/ StandbyEmpty(u) \/ ResetFinished(u) \/ RequestTrim(u)
           \/ WaitFinished(u) \/ Reacquire(u)
  <2>1. halted' = halted
    BY <1>1 DEF AccessStep, Store, Fault, Shutdown, FaultOnValid, ReleaseValid, FaultInTransition,
       FaultOnAbsent,
       StandbyEmpty, ResetFinished, RequestTrim, WaitFinished, Reacquire
  <2>. QED  BY <1>1, <2>1, WaitingOwnersStay
<1>2. CASE RescueWritten(u)
  <2>1. halted' = halted  BY <1>2 DEF RescueWritten
  <2>. QED  BY <1>2, <2>1, WaitingOwnersStay, RescueWrittenEffect, RescueOwnersStay
<1>3. CASE RescueModified(u)
  <2>1. halted' \in {halted, "unlink"}  BY <1>3 DEF RescueModified
  <2>. QED  BY <1>3, <2>1, WaitingOwnersStay, RescueModifiedEffect, RescueOwnersStay
<1>4. CASE RescueStandby(u)
  <2>1. halted' \in {halted, "unlink"}  BY <1>4 DEF RescueStandby
  <2>. QED  BY <1>4, <2>1, WaitingOwnersStay, RescueStandbyEffect, RescueOwnersStay
<1>5. CASE ReleaseRescuedSlot(u) \/ SwapFromDisk(u)
  BY <1>5, ReleaseRescuedOwners, SwapOwners
<1>6. CASE GetFreeFrame(u) \/ WipePage(u) \/ CopyFromDisk(u)
  <2>1. halted' = halted  BY <1>6 DEF GetFreeFrame, WipePage, CopyFromDisk
  <2>. QED  BY <1>6, <2>1, FillingOwnersStay
<1>7. CASE TakeStandbyOtherLock(u)
  <2>1. PICK f \in Frames : f = standbyList[1] /\ TakesVictim(u, f)  BY <1>7, TakeVictimEffect
  <2>2. pfnArray[f].PTE \in Pages
    BY <2>1 DEF TakesVictim, Leaving, PagesRight, FrameOK
  <2>3. halted' = halted
    BY <1>7, <2>1, <2>2, ConstantProperties DEF TakeStandbyOtherLock, DebugAssert
  <2>. QED  BY <2>1, <2>3, VictimOwnersStay
<1>8. CASE MapPage(u)
  <2>1. halted' = halted  BY <1>8 DEF MapPage
  <2>. QED  BY <1>8, <2>1, MapPageEffect, MapOwnersStay
<1>. QED  BY <1>1, <1>2, <1>3, <1>4, <1>5, <1>6, <1>7, <1>8 DEF ResolveStep

(* A user thread keeps the owners right, whatever it does.                 *)
LEMMA UserKeepsOwners ==
    ASSUME TypeOK, ControlOK, Owned, PagesRight, \A s \in DiskSlots : SlotOK(s), NEW u \in Users,
           halted = "running", races \subseteq races', "staleFrame" \notin races',
           AccessStep(u) \/ ResolveStep(u) \/ Shutdown(u)
    PROVE  (\A s \in DiskSlots : SlotOK(s)') /\ halted' # "assert"
<1>1. CASE SwapFromDiskFails(u)
  <2>1. halted' = halted  BY <1>1 DEF SwapFromDiskFails
  <2>. QED  BY <1>1, <2>1, SwapFailsOwners
<1>2. CASE TakeStandbySameLock(u) \/ UpdateVictim(u)
  <2>1. halted' = halted  BY <1>2 DEF TakeStandbySameLock, UpdateVictim
  <2>. QED  BY <1>2, <2>1, TakeStandbyEffect, UpdateVictimEffect, LosesOwners
<1>3. CASE ~(TakeStandbySameLock(u) \/ UpdateVictim(u) \/ SwapFromDiskFails(u))
  BY <1>3, UserKeepsSlots DEF SlotsKept
<1>. QED  BY <1>1, <1>2, <1>3

(* So do the trim and disk threads.                                        *)
LEMMA OthersKeepOwners ==
    ASSUME TypeOK, ControlOK, Owned, BatchApart, PagesRight, SlotsRight, halted = "running",
           races \subseteq races', TrimStep \/ DiskStep
    PROVE  SlotsKept /\ halted' # "assert"
<1>1. \A s \in DiskSlots : SlotOK(s)  BY DEF SlotsRight
<1>2. CASE FixPTE
  <2>1. pfnArray[evictFrames[1]].PTE \in Pages  BY <1>2, FixPTEKnown
  <2>2. halted' = halted  BY <1>2, <2>1, ConstantProperties DEF FixPTE, DebugAssert
  <2>. QED  BY <1>1, <1>2, <2>2, TrimOwnersStay DEF TrimStep
<1>3. CASE TrimStep /\ ~FixPTE
  <2>1. halted' = halted
    BY <1>3 DEF TrimStep, TrimWait, PopActive, UnmapBatch, AddModified, SignalModWrite
  <2>. QED  BY <1>1, <1>3, <2>1, TrimOwnersStay
<1>4. CASE DiskWait \/ WritePage \/ ReadFrameWord \/ WriteFrameWord
  <2>1. halted' = halted  BY <1>4 DEF DiskWait, WritePage, ReadFrameWord, WriteFrameWord
  <2>. QED  BY <1>1, <1>4, <2>1, WritingOwnersStay
<1>5. CASE ReserveSlots \/ CollectModified \/ SignalFinished
  <2>1. halted' = halted  BY <1>5 DEF ReserveSlots, CollectModified, SignalFinished
  <2>. QED  BY <1>5, <2>1, ReserveOwners, CollectOwners, SignalOwners
<1>6. CASE PublishPage
  BY <1>6, PublishOwners
<1>. QED  BY <1>2, <1>3, <1>4, <1>5, <1>6 DEF DiskStep

(* The disk thread has its slots only while it works on a batch.           *)
LEMMA UserKeepsBatchSlots ==
    ASSUME TypeOK, ControlOK, BatchSlots, NEW u \in Users,
           AccessStep(u) \/ ResolveStep(u) \/ Shutdown(u)
    PROVE  BatchSlots'
<1>1. diskSlots' = diskSlots
  BY DEF AccessStep, Store, Fault, Shutdown, ResolveStep, FaultOnValid, ReleaseValid,
     FaultInTransition,
     FaultOnAbsent, RescueWritten, RescueModified, RescueStandby, ReleaseRescuedSlot,
     GetFreeFrame, StandbyEmpty, ResetFinished, RequestTrim, WaitFinished, TakeStandbySameLock,
     TakeStandbyOtherLock, UpdateVictim, Reacquire, WipePage, SwapFromDisk, SwapFromDiskFails,
     CopyFromDisk, MapPage
<1>2. CASE Shutdown(u)
  BY <1>1, <1>2 DEF Shutdown, BatchSlots
<1>3. CASE AccessStep(u) \/ ResolveStep(u)
  <2>1. diskPC' = diskPC
    BY <1>3 DEF AccessStep, Store, Fault, ResolveStep, FaultOnValid, ReleaseValid,
       FaultInTransition,
       FaultOnAbsent, RescueWritten, RescueModified, RescueStandby, ReleaseRescuedSlot,
       GetFreeFrame, StandbyEmpty, ResetFinished, RequestTrim, WaitFinished, TakeStandbySameLock,
       TakeStandbyOtherLock, UpdateVictim, Reacquire, WipePage, SwapFromDisk, SwapFromDiskFails,
       CopyFromDisk, MapPage
  <2>. QED  BY <1>1, <2>1 DEF BatchSlots
<1>. QED  BY <1>2, <1>3

(* The trim and the disk thread keep the slots of the batch apart.         *)
LEMMA OthersKeepBatchSlots ==
    ASSUME TypeOK, ControlOK, Owned, BatchApart, PagesRight, SlotsRight, TypeOK', ControlOK',
           TrimStep \/ DiskStep
    PROVE  BatchSlots'
<1>1. BatchSlots  BY DEF SlotsRight
<1>2. CASE TrimStep
  <2>1. diskSlots' = diskSlots
        /\ (diskPC' = diskPC \/ (diskPC = "blocked" /\ diskPC' = "reserve"))
    BY <1>2 DEF TrimStep, TrimWait, PopActive, UnmapBatch, FixPTE, AddModified, SignalModWrite,
       SetModWriteEvent
  <2>. QED  BY <1>1, <2>1 DEF BatchSlots
<1>3. CASE DiskWait \/ WritePage \/ ReadFrameWord
  BY <1>1, <1>3 DEF DiskWait, WritePage, ReadFrameWord, BatchSlots
<1>4. CASE ReserveSlots
  BY <1>4, ReserveOwners DEF ReserveSlots, BatchSlots
<1>5. CASE CollectModified
  <2>1. IsInjective(diskSlots')  BY <1>5, CollectOwners
  <2> DEFINE n == MinOf(Len(diskSlots), Len(modifiedList))
  <2>2. n \in 0 .. Len(diskSlots) /\ diskSlots' = Popped(diskSlots, n)
        /\ diskPC' = IF n = 0 THEN "signal" ELSE "write"
    BY <1>5, LenProperties DEF CollectModified, TypeOK, DiskTyped, ListsTyped, MinOf
  <2>. HIDE DEF n
  <2>3. diskSlots' \in Seq(DiskSlots) /\ Len(diskSlots') = n
    BY <2>2, PopProperties DEF TypeOK, DiskTyped
  <2>4. n = 0 => diskSlots' = <<>>  BY <2>3, EmptySeq
  <2>. QED  BY <2>1, <2>2, <2>4 DEF BatchSlots
<1>6. CASE PublishPage
  <2>1. IsInjective(diskSlots')  BY <1>6, PublishOwners
  <2>2. CASE diskPC' = "signal"
    <3>1. swapFrames' = AfterPop(swapFrames, 1) /\ swapFrames' = <<>>
          /\ diskSlots' = AfterPop(diskSlots, 1)
      BY <1>6, <2>2 DEF PublishPage, NextToWrite
    <3>2. swapFrames # <<>> /\ Len(swapFrames) = Len(diskSlots)
      BY <1>6 DEF PublishPage, ControlOK, DiskControlled
    <3>3. swapFrames \in Seq(Frames) /\ diskSlots \in Seq(DiskSlots)
      BY DEF TypeOK, DiskTyped
    <3>4. Len(swapFrames') = Len(swapFrames) - 1 /\ Len(swapFrames') = 0
      BY <3>1, <3>2, <3>3, PopFirstProperties, EmptySeq
    <3>5. diskSlots # <<>>  BY <3>2, <3>3, LenProperties, EmptySeq
    <3>6. diskSlots' \in Seq(DiskSlots) /\ Len(diskSlots') = 0
      BY <3>1, <3>2, <3>3, <3>4, <3>5, PopFirstProperties
    <3>7. diskSlots' = <<>>  BY <3>6, EmptySeq
    <3>. QED  BY <2>1, <3>7 DEF BatchSlots
  <2>3. CASE diskPC' # "signal"
    <3>1. diskPC' \in {"write", "readWord"}
      BY <1>6, <2>3 DEF PublishPage, NextToWrite
    <3>. QED  BY <2>1, <3>1 DEF BatchSlots
  <2>. QED  BY <2>2, <2>3
<1>7. CASE WriteFrameWord
  <2>1. diskSlots' = diskSlots /\ swapFrames' = AfterPop(swapFrames, 1)
        /\ diskPC' = IF swapFrames' = <<>> THEN "signal" ELSE "write"
    BY <1>7 DEF WriteFrameWord, NextToWrite
  <2>2. swapFrames # <<>> /\ Len(swapFrames) = Len(diskSlots) + 1
    BY <1>7 DEF WriteFrameWord, ControlOK, DiskControlled
  <2>3. swapFrames \in Seq(Frames) /\ diskSlots \in Seq(DiskSlots)
    BY DEF TypeOK, DiskTyped
  <2>4. Len(swapFrames') = Len(swapFrames) - 1
    BY <2>1, <2>2, <2>3, PopFirstProperties
  <2>5. swapFrames' = <<>> => Len(swapFrames') = 0  BY EmptySeq
  <2>6. swapFrames' = <<>> => Len(diskSlots) = 0
    BY <2>2, <2>3, <2>4, <2>5, LenProperties
  <2>7. swapFrames' = <<>> => diskSlots = <<>>  BY <2>3, <2>6, EmptySeq
  <2>. QED  BY <1>1, <1>7, <2>1, <2>7 DEF BatchSlots, WriteFrameWord
<1>8. CASE SignalFinished
  <2>1. diskSlots' = <<>> /\ diskSlots = <<>>
    BY <1>1, <1>8 DEF SignalFinished, BatchSlots
  <2>. QED  BY <1>1, <2>1 DEF BatchSlots
<1>. QED  BY <1>2, <1>3, <1>4, <1>5, <1>6, <1>7, <1>8 DEF DiskStep

(* Frames in the hands of threads that part from their slots are apart,    *)
(* for all frames are.                                                     *)
LEMMA PartingOwned == TypeOK /\ ControlOK /\ Owned => PartingApart
<1> SUFFICES ASSUME TypeOK, ControlOK, Owned, NEW u \in Users, pc[u] \in Parting
             PROVE  /\ currentFrame[u] \in Frames \ ToSet(standbyList)
                    /\ \A v \in Users : pc[v] \in Parting /\ currentFrame[v] = currentFrame[u]
                                            => v = u
  BY DEF PartingApart
<1>1. PICK f \in Frames : f = currentFrame[u]
  BY WorksOnFrame DEF Parting, NeedsFrame, Holding
<1>2. \A v \in Users : pc[v] \in Parting /\ currentFrame[v] = f => UserHolds(v, f)
  BY DEF Parting, UserHolds, Holding
<1>. QED  BY <1>1, <1>2 DEF Owned, Apart, InAList

(* Where an absent frame is unlinked, no thread parts from its slot.       *)
LEMMA UnlinkKeepsParting ==
    ASSUME TypeOK, ControlOK, Owned, PartingApart, halted = "running", [Next]_vars,
           halted' = "unlink"
    PROVE  PartingApart'
<1>1. CASE \E u \in Users : RescueModified(u)
  <2>1. PICK u \in Users : RescueModified(u)  BY <1>1
  <2>2. /\ pc'[u] \notin Parting /\ UNCHANGED <<standbyList, currentFrame>>
        /\ \A v \in Users : v # u => pc'[v] = pc[v]
    BY <2>1 DEF RescueModified, GoTo, TypeOK, UsersTyped, Parting
  <2>. QED  BY <2>2 DEF PartingApart
<1>2. CASE \E u \in Users : RescueStandby(u)
  <2>1. PICK u \in Users : RescueStandby(u)  BY <1>2
  <2>2. currentFrame[u] \in Frames  BY <2>1, WorksOnFrame DEF RescueStandby, NeedsFrame
  <2>. QED  BY <2>1, <2>2 DEF RescueStandby, Owned, FlagsAgree, Contains, ToSet
<1>3. CASE \E u \in Users : AccessStep(u) \/ Shutdown(u)
  BY <1>3 DEF AccessStep, Store, Fault, Shutdown
<1>4. CASE \E u \in Users :
              \/ FaultOnValid(u) \/ ReleaseValid(u) \/ FaultInTransition(u) \/ FaultOnAbsent(u)
              \/ RescueWritten(u)
              \/ ReleaseRescuedSlot(u) \/ GetFreeFrame(u) \/ StandbyEmpty(u)
              \/ ResetFinished(u) \/ RequestTrim(u) \/ WaitFinished(u)
  BY <1>4 DEF FaultOnValid, ReleaseValid, FaultInTransition, FaultOnAbsent, RescueWritten,
     ReleaseRescuedSlot,
     GetFreeFrame, StandbyEmpty, ResetFinished, RequestTrim, WaitFinished, DebugAssert
<1>5. CASE \E u \in Users :
              \/ TakeStandbySameLock(u) \/ TakeStandbyOtherLock(u) \/ UpdateVictim(u)
              \/ Reacquire(u) \/ WipePage(u) \/ SwapFromDisk(u) \/ SwapFromDiskFails(u)
              \/ CopyFromDisk(u) \/ MapPage(u)
  BY <1>5 DEF TakeStandbySameLock, TakeStandbyOtherLock, UpdateVictim, Reacquire, WipePage,
     SwapFromDisk, SwapFromDiskFails, CopyFromDisk, MapPage, DebugAssert
<1>6. CASE TrimStep
  BY <1>6 DEF TrimStep, TrimWait, PopActive, UnmapBatch, FixPTE, AddModified, SignalModWrite,
     DebugAssert
<1>7. CASE DiskStep
  BY <1>7 DEF DiskStep, DiskWait, ReserveSlots, CollectModified, WritePage, PublishPage,
     ReadFrameWord, WriteFrameWord, SignalFinished, DebugAssert
<1>8. CASE UNCHANGED vars  BY <1>8 DEF vars
<1>. QED  BY <1>1, <1>2, <1>3, <1>4, <1>5, <1>6, <1>7, <1>8 DEF Next, Stopped, ResolveStep

(***************************************************************************)
(* The inductive invariant of the slots, while no frame went stale.  That  *)
(* no assertion fails is part of it: the assertions ask for what the       *)
(* owners of a slot and of a frame guarantee.                              *)
(***************************************************************************)
SlotsUntilStale == "staleFrame" \notin races => SlotsRight /\ halted # "assert"

(* No slot is owned at the start.                                          *)
LEMMA SlotsInit == Init => SlotsRight
<1> SUFFICES ASSUME Init PROVE SlotsRight
  OBVIOUS
<1>1. \A u \in Users : pc[u] = "access"  BY DEF Init
<1>2. ToSet(diskSlots) = {} /\ ToSet(standbyList) = {} /\ diskSlotBitmap = {}
  BY DEF Init, ToSet
<1>3. \A p \in Pages, s \in DiskSlots : ~PageOwns(p, s)
  BY Formats DEF Init, PageOwns
<1>4. \A f \in Frames, s \in DiskSlots : ~FrameOwns(f, s)
  BY <1>1, <1>2 DEF FrameOwns, HasCopy
<1>5. \A s \in DiskSlots : SlotOK(s)
  BY <1>2, <1>3, <1>4 DEF SlotOK, SlotOwned
<1>6. BatchSlots  BY DEF Init, BatchSlots, IsInjective
<1>7. PartingApart  BY <1>1 DEF PartingApart, Parting
<1>. QED  BY <1>5, <1>6, <1>7 DEF SlotsRight

(* Owners do not change in a step that changes nothing.                    *)
LEMMA SlotsStutter == SlotsRight /\ UNCHANGED vars => SlotsRight'
<1> SUFFICES ASSUME SlotsRight, UNCHANGED vars PROVE SlotsRight'
  OBVIOUS
<1>1. \A p \in Pages, s \in DiskSlots : PageOwns(p, s)' <=> PageOwns(p, s)
  BY DEF vars, PageOwns, Page
<1>2. \A f \in Frames, s \in DiskSlots : FrameOwns(f, s)' <=> FrameOwns(f, s)
  BY DEF vars, FrameOwns, HasCopy
<1>3. \A s \in DiskSlots : SlotOK(s)'
  BY <1>1, <1>2, OwnersStay DEF vars, SlotsRight, SlotsKept
<1>4. BatchSlots' /\ PartingApart'
  BY DEF vars, SlotsRight, BatchSlots, PartingApart
<1>. QED  BY <1>3, <1>4 DEF SlotsRight

(* Every step keeps the owners of slots right, until a frame is stale.     *)
LEMMA SlotsInductive ==
    FramesAndPages /\ SlotsUntilStale /\ [Next]_vars => SlotsUntilStale'
<1> SUFFICES ASSUME FramesAndPages, SlotsUntilStale, [Next]_vars, "staleFrame" \notin races'
             PROVE  SlotsRight' /\ halted' # "assert"
  BY DEF SlotsUntilStale
<1>1. races \subseteq races'  BY RacesRemembered
<1>2. TypeOK /\ ControlOK /\ PagesRight /\ SlotsRight /\ halted # "assert"
  BY <1>1 DEF FramesAndPages, PagesUntilStale, SlotsUntilStale
<1>3. TypeOK' /\ ControlOK' /\ OwnedUntilUnlink'
  BY TypeInductive, OwnedInductive DEF FramesAndPages
<1>4. CASE UNCHANGED vars
  <2>1. halted' = halted  BY <1>4 DEF vars
  <2>. QED  BY <1>2, <1>4, <2>1, SlotsStutter
<1>5. CASE ~ UNCHANGED vars
  <2>1. /\ halted = "running"
        /\ \/ \E u \in Users : AccessStep(u) \/ ResolveStep(u) \/ Shutdown(u)
           \/ TrimStep \/ DiskStep
    BY <1>5 DEF Next, Stopped
  <2>2. Owned /\ BatchApart  BY <2>1 DEF FramesAndPages, OwnedUntilUnlink
  <2>3. \A s \in DiskSlots : SlotOK(s)  BY <1>2 DEF SlotsRight
  <2>4. (\A s \in DiskSlots : SlotOK(s)') /\ halted' # "assert"
    BY <1>1, <1>2, <2>1, <2>2, <2>3, UserKeepsOwners, OthersKeepOwners DEF SlotsKept
  <2>5. BatchSlots'
    BY <1>2, <1>3, <2>1, <2>2, UserKeepsBatchSlots, OthersKeepBatchSlots DEF SlotsRight
  <2>6. CASE halted' = "unlink"
    <3>1. PartingApart'  BY <1>2, <2>1, <2>2, <2>6, UnlinkKeepsParting DEF SlotsRight
    <3>. QED  BY <2>4, <2>5, <3>1 DEF SlotsRight
  <2>7. CASE halted' # "unlink"
    <3>1. Owned'  BY <1>3, <2>7 DEF OwnedUntilUnlink
    <3>2. (TypeOK /\ ControlOK /\ Owned => PartingApart)'
      BY PartingOwned, PTL
    <3>. QED  BY <1>3, <2>4, <2>5, <3>1, <3>2 DEF SlotsRight
  <2>. QED  BY <2>6, <2>7
<1>. QED  BY <1>4, <1>5

FramesPagesSlots == FramesAndPages /\ SlotsUntilStale

(* The first three layers of the invariant hold.                           *)
LEMMA FramesPagesSlotsHold == Spec => []FramesPagesSlots
<1>1. Init => FramesPagesSlots
  <2>1. Init => halted = "running"  BY DEF Init
  <2>. QED  BY <2>1, TypeInit, OwnedInit, BatchInit, PagesInit, SlotsInit
            DEF FramesPagesSlots, FramesAndPages, OwnedUntilUnlink, PagesUntilStale,
                SlotsUntilStale
<1>2. FramesPagesSlots /\ [Next]_vars => FramesPagesSlots'
  BY TypeInductive, OwnedInductive, PagesInductive, SlotsInductive
     DEF FramesPagesSlots, FramesAndPages
<1>. QED  BY <1>1, <1>2, PTL DEF Spec

(***************************************************************************)
(* No ASSERT fails while no frame went stale, and no absent frame is       *)
(* unlinked while no word was torn.                                        *)
(***************************************************************************)
THEOREM AssertsHold == Spec => []NoAssertFails
<1>1. FramesPagesSlots => NoAssertFails
  BY DEF FramesPagesSlots, FramesAndPages, OwnedUntilUnlink, SlotsUntilStale, NoAssertFails
<1>. QED  BY <1>1, FramesPagesSlotsHold, PTL

(* The owners of a slot are those that SlotOK speaks of, and any two of    *)
(* them are the same.                                                      *)
LEMMA OwnersAlike ==
    ASSUME TypeOK, ControlOK, SlotsRight, NEW s \in DiskSlots
    PROVE  /\ \A x, y \in SlotOwners(s) : x = y
           /\ SlotOwners(s) # {} <=> SlotOwned(s)
<1> DEFINE OfPage == {<<"page", p>> : p \in {x \in Pages : PageOwns(x, s)}}
           OfFrame == {<<"frame", f>> : f \in {x \in ToSet(standbyList) :
                                                  pfnArray[x].diskIndex = s}}
           OfUser == {<<"user", u>> : u \in {x \in Users :
                          /\ pc[x] \in {"releaseSlot", "updateVictim"}
                          /\ pfnArray[currentFrame[x]].diskIndex = s}}
           OfDisk == {<<"disk", i>> : i \in {x \in 1 .. Len(diskSlots) : diskSlots[x] = s}}
<1>1. SlotOwners(s) = OfPage \cup OfFrame \cup OfUser \cup OfDisk
  BY DEF SlotOwners
<1>2. SlotOK(s) /\ BatchSlots /\ PartingApart  BY DEF SlotsRight
<1>3. ToSet(standbyList) \subseteq Frames
  BY LenProperties, ElementOfSeq DEF TypeOK, ListsTyped, ToSet
<1>4. /\ DOMAIN diskSlots = 1 .. Len(diskSlots)
      /\ \A i, j \in 1 .. Len(diskSlots) : diskSlots[i] = diskSlots[j] => i = j
  BY <1>2, LenProperties DEF TypeOK, DiskTyped, BatchSlots, IsInjective
<1>5. OfDisk # {} <=> s \in ToSet(diskSlots)
  <2>1. s \in ToSet(diskSlots) <=> \E i \in 1 .. Len(diskSlots) : diskSlots[i] = s
    BY <1>4 DEF ToSet
  <2>2. OfDisk # {} <=> \E i \in 1 .. Len(diskSlots) : diskSlots[i] = s
    OBVIOUS
  <2>. QED  BY <2>1, <2>2
<1>6. OfPage # {} <=> \E p \in Pages : PageOwns(p, s)
  OBVIOUS
<1>7. OfFrame \cup OfUser # {} <=> \E f \in Frames : FrameOwns(f, s)
  <2>1. ASSUME NEW f \in ToSet(standbyList), pfnArray[f].diskIndex = s
        PROVE  f \in Frames /\ FrameOwns(f, s)
    BY <1>3, <2>1 DEF FrameOwns, HasCopy
  <2>2. ASSUME NEW u \in Users, pc[u] \in Parting, pfnArray[currentFrame[u]].diskIndex = s
        PROVE  currentFrame[u] \in Frames /\ FrameOwns(currentFrame[u], s)
    BY <1>2, <2>2 DEF FrameOwns, HasCopy, PartingApart, Parting
  <2>3. ASSUME NEW f \in Frames, FrameOwns(f, s)
        PROVE  OfFrame \cup OfUser # {}
    BY <2>3 DEF FrameOwns, HasCopy
  <2>. QED  BY <2>1, <2>2, <2>3 DEF Parting
<1>8. \A x, y \in OfPage : x = y  BY <1>2 DEF SlotOK
<1>9. \A x, y \in OfDisk : x = y  BY <1>4
<1>10. \A x, y \in OfFrame : x = y
  BY <1>2, <1>3 DEF SlotOK, FrameOwns, HasCopy
<1>11. \A x, y \in OfUser : x = y
  <2> SUFFICES ASSUME NEW u \in Users, NEW v \in Users, pc[u] \in Parting, pc[v] \in Parting,
                      pfnArray[currentFrame[u]].diskIndex = s,
                      pfnArray[currentFrame[v]].diskIndex = s
               PROVE  u = v
    BY DEF Parting
  <2>1. /\ currentFrame[u] \in Frames /\ FrameOwns(currentFrame[u], s)
        /\ currentFrame[v] \in Frames /\ FrameOwns(currentFrame[v], s)
    BY <1>2 DEF FrameOwns, HasCopy, PartingApart, Parting
  <2>2. currentFrame[u] = currentFrame[v]  BY <1>2, <2>1 DEF SlotOK
  <2>. QED  BY <1>2, <2>2 DEF PartingApart
<1>12. OfFrame = {} \/ OfUser = {}
  <2> SUFFICES ASSUME NEW f \in ToSet(standbyList), pfnArray[f].diskIndex = s,
                      NEW u \in Users, pc[u] \in Parting,
                      pfnArray[currentFrame[u]].diskIndex = s
               PROVE  FALSE
    BY DEF Parting
  <2>1. /\ f \in Frames /\ FrameOwns(f, s)
        /\ currentFrame[u] \in Frames \ ToSet(standbyList) /\ FrameOwns(currentFrame[u], s)
    BY <1>2, <1>3 DEF FrameOwns, HasCopy, PartingApart, Parting
  <2>. QED  BY <1>2, <2>1 DEF SlotOK
<1>. HIDE DEF OfPage, OfFrame, OfUser, OfDisk
<1>13. /\ OfPage = {} \/ (OfFrame = {} /\ OfUser = {})
       /\ OfDisk # {} => OfPage = {} /\ OfFrame = {} /\ OfUser = {}
  BY <1>2, <1>5, <1>6, <1>7 DEF SlotOK
<1>14. SlotOwners(s) # {} <=> SlotOwned(s)
  BY <1>1, <1>5, <1>6, <1>7 DEF SlotOwned
<1>15. \A x, y \in SlotOwners(s) : x = y
  BY <1>1, <1>8, <1>9, <1>10, <1>11, <1>12, <1>13
<1>. QED  BY <1>14, <1>15

(***************************************************************************)
(* A slot in use has exactly one owner, slot 0 and that of a page that     *)
(* could not be filled excepted, and a free slot has none, as long as no   *)
(* frame went stale.                                                       *)
(***************************************************************************)
THEOREM OneSlotOneOwner == Spec => []SlotHasOneOwner
<1>1. FramesPagesSlots => SlotHasOneOwner
  <2> SUFFICES ASSUME FramesPagesSlots, "staleFrame" \notin races, NEW s \in DiskSlots
               PROVE  /\ Cardinality(SlotOwners(s)) <= 1
                      /\ SlotOwners(s) # {} => s \in diskSlotBitmap
                      /\ s \in diskSlotBitmap =>
                             SlotOwners(s) # {} \/ s = 0 \/ "unfilled" \in races
    BY DEF SlotHasOneOwner
  <2>1. TypeOK /\ ControlOK /\ SlotsRight
    BY DEF FramesPagesSlots, FramesAndPages, SlotsUntilStale
  <2>2. /\ \A x, y \in SlotOwners(s) : x = y
        /\ SlotOwners(s) # {} <=> SlotOwned(s)
    BY <2>1, OwnersAlike
  <2>3. SlotOK(s)  BY <2>1 DEF SlotsRight
  <2>4. Cardinality(SlotOwners(s)) <= 1
    <3>1. CASE SlotOwners(s) = {}  BY <3>1, FS_EmptySet
    <3>2. CASE \E x : SlotOwners(s) = {x}  BY <3>2, FS_Singleton
    <3>. QED  BY <2>2, <3>1, <3>2
  <2>. QED  BY <2>2, <2>3, <2>4 DEF SlotOK
<1>. QED  BY <1>1, FramesPagesSlotsHold, PTL

-----------------------------------------------------------------------------
(* What the pages hold.                                                    *)

(* The words of page p, as the program stored them.                        *)
Contents(p) == {p} \X memory[p]

(* The frame, the slot or the lack of both that a PTE stands for.          *)
PageContents(p) ==
    /\ \A f \in Frames : pageTable[p] \in {Valid(f), Transition(f)} => ram[f] = Contents(p)
    /\ pageTable[p] = Zero => memory[p] = {}
    /\ \A s \in DiskSlots : PageOwns(p, s) => totalDiskSpace[s] = Contents(p)

(* The slot a thread is copying from, and the frame it is about to map.    *)
UserContents(u) ==
    /\ pc[u] = "copyIn" => totalDiskSpace[pteContents[u].number] = Contents(Page(u))
    /\ pc[u] = "map" => ram[currentFrame[u]] = Contents(Page(u))

FrameContents(f) ==
    /\ f \in ToSet(freeList) => ram[f] = {}
    /\ HasCopy(f) => totalDiskSpace[pfnArray[f].diskIndex] = ram[f]

(* A frame that was written out and not rescued since has not changed.     *)
BatchContents ==
    diskPC = "publish" /\ swapFrames[1] \in InWriting =>
        totalDiskSpace[diskSlots[1]] = ram[swapFrames[1]]

ContentsKnown ==
    /\ \A p \in Pages : PageContents(p)
    /\ \A u \in Users : UserContents(u)
    /\ \A f \in Frames : FrameContents(f)
    /\ BatchContents

-----------------------------------------------------------------------------
(* Steps that change neither the storage nor a PTE.                        *)

(* Contents are known after a step that stores and copies nothing.         *)
LEMMA ContentsStay ==
    ASSUME ContentsKnown, UNCHANGED <<storage, memory, pageTable>>,
           diskPC' = "publish" =>
               diskPC = "publish" /\ UNCHANGED <<swapFrames, diskSlots>>
               /\ InWriting' \subseteq InWriting,
           ToSet(freeList') \subseteq ToSet(freeList),
           \A v \in Users : pc[v] \in Loading => pc'[v] \in Loading /\ va'[v] = va[v],
           \A v \in Users :
               \/ pc'[v] \notin Loading
               \/ pc'[v] = pc[v] /\ pteContents'[v] = pteContents[v]
                  /\ currentFrame'[v] = currentFrame[v]
               \/ UserContents(v)',
           \A f \in Frames :
               \/ ~HasCopy(f)'
               \/ HasCopy(f) /\ pfnArray'[f].diskIndex = pfnArray[f].diskIndex
               \/ totalDiskSpace[pfnArray'[f].diskIndex] = ram[f]
    PROVE  ContentsKnown'
<1>1. ASSUME NEW p \in Pages  PROVE PageContents(p)'
  <2>1. PageContents(p) /\ Contents(p)' = Contents(p)  BY DEF ContentsKnown, Contents
  <2>2. ASSUME NEW s \in DiskSlots, PageOwns(p, s)'  PROVE PageOwns(p, s)
    <3>1. ASSUME NEW v \in Users, pc[v] \in Loading, Page(v) = p  PROVE FALSE
      <4>1. pc'[v] \in Loading /\ Page(v)' = p  BY <3>1 DEF Page
      <4>. QED  BY <2>2, <4>1 DEF PageOwns, Loading
    <3>. QED  BY <2>2, <3>1 DEF PageOwns, Loading
  <2>. QED  BY <2>1, <2>2 DEF PageContents
<1>2. ASSUME NEW v \in Users  PROVE UserContents(v)'
  <2>1. UserContents(v)  BY DEF ContentsKnown
  <2>2. CASE pc'[v] \notin Loading  BY <2>2 DEF UserContents, Loading
  <2>3. CASE /\ pc'[v] = pc[v] /\ pteContents'[v] = pteContents[v]
             /\ currentFrame'[v] = currentFrame[v] /\ pc[v] \in Loading
    <3>1. Contents(Page(v))' = Contents(Page(v))  BY <2>3 DEF Contents, Page
    <3>. QED  BY <2>1, <2>3, <3>1 DEF UserContents
  <2>. QED  BY <2>2, <2>3
<1>3. ASSUME NEW f \in Frames  PROVE FrameContents(f)'
  <2>1. FrameContents(f)  BY DEF ContentsKnown
  <2>. QED  BY <2>1 DEF FrameContents
<1>4. BatchContents'
  BY DEF ContentsKnown, BatchContents
<1>. QED  BY <1>1, <1>2, <1>3, <1>4 DEF ContentsKnown

(* A thread that waits, faults, gives up a rescue or takes a victim whose  *)
(* PTE it cannot change yet.                                               *)
LEMMA WaitingContentsStay ==
    ASSUME TypeOK, ControlOK, Owned, PagesRight, ContentsKnown, NEW u \in Users,
           "staleFrame" \notin races',
           \/ \E p \in Pages, w \in Words : Fault(u, p, w)
           \/ Shutdown(u) \/ FaultOnValid(u) \/ ReleaseValid(u) \/ FaultInTransition(u)
           \/ FaultOnAbsent(u) \/ StandbyEmpty(u) \/ ResetFinished(u) \/ RequestTrim(u)
           \/ WaitFinished(u) \/ Reacquire(u)
           \/ RescueWritten(u) /\ ~pfnArray[currentFrame[u]].isBeingWritten
           \/ RescueModified(u) /\ ~pfnArray[currentFrame[u]].isOnModifiedList
           \/ RescueStandby(u) /\ ~pfnArray[currentFrame[u]].isOnStandbyList
    PROVE  ContentsKnown'
<1>1. /\ UNCHANGED <<storage, memory, pageTable, pfnArray, standbyList, freeList, swapFrames,
                     diskSlots>>
      /\ diskPC' = "publish" => diskPC = "publish"
  <2>1. CASE (\E p \in Pages, w \in Words : Fault(u, p, w)) \/ Shutdown(u)
    BY <2>1 DEF Fault, Shutdown
  <2>2. CASE \/ FaultOnValid(u) \/ ReleaseValid(u) \/ FaultInTransition(u) \/ FaultOnAbsent(u)
             \/ StandbyEmpty(u)
             \/ ResetFinished(u) \/ RequestTrim(u) \/ WaitFinished(u)
    BY <2>2 DEF FaultOnValid, ReleaseValid, FaultInTransition, FaultOnAbsent, StandbyEmpty,
       ResetFinished,
       RequestTrim, WaitFinished
  <2>3. CASE Reacquire(u)
    BY <2>3 DEF Reacquire
  <2>4. CASE \/ RescueWritten(u) /\ ~pfnArray[currentFrame[u]].isBeingWritten
             \/ RescueModified(u) /\ ~pfnArray[currentFrame[u]].isOnModifiedList
             \/ RescueStandby(u) /\ ~pfnArray[currentFrame[u]].isOnStandbyList
    BY <2>4 DEF RescueWritten, RescueModified, RescueStandby
  <2>. QED  BY <2>1, <2>2, <2>3, <2>4
<1>2. pc[u] \notin Loading \cup Parting /\ pc'[u] \notin Loading \cup Parting
  <2>1. CASE (\E p \in Pages, w \in Words : Fault(u, p, w)) \/ Shutdown(u)
    BY <2>1 DEF Fault, Accesses, Shutdown, GoTo, TypeOK, UsersTyped, Loading, Parting
  <2>2. CASE \/ FaultOnValid(u) \/ ReleaseValid(u) \/ FaultInTransition(u) \/ FaultOnAbsent(u)
             \/ StandbyEmpty(u)
             \/ ResetFinished(u) \/ RequestTrim(u) \/ WaitFinished(u)
    BY <2>2 DEF FaultOnValid, ReleaseValid, FaultInTransition, FaultOnAbsent, StandbyEmpty,
       ResetFinished,
       RequestTrim, WaitFinished, AfterWait, GoTo, TypeOK, UsersTyped, Loading, Parting
  <2>3. CASE Reacquire(u)
    BY <2>3 DEF Reacquire, GoTo, FillStep, TypeOK, UsersTyped, Loading, Parting
  <2>4. CASE \/ RescueWritten(u) /\ ~pfnArray[currentFrame[u]].isBeingWritten
             \/ RescueModified(u) /\ ~pfnArray[currentFrame[u]].isOnModifiedList
             \/ RescueStandby(u) /\ ~pfnArray[currentFrame[u]].isOnStandbyList
    BY <2>4 DEF RescueWritten, RescueModified, RescueStandby, GoTo, TypeOK, UsersTyped, Loading,
       Parting
  <2>. QED  BY <2>1, <2>2, <2>3, <2>4
<1>3. \A v \in Users : v # u => /\ pc'[v] = pc[v] /\ va'[v] = va[v]
                                /\ pteContents'[v] = pteContents[v]
                                /\ currentFrame'[v] = currentFrame[v]
  BY UserMovesAlone DEF ResolveStep, AccessStep
<1>4. \A f \in Frames : HasCopy(f)' => HasCopy(f)
  BY <1>1, <1>2, <1>3 DEF HasCopy, Parting
<1>5. InWriting' = InWriting  BY <1>1 DEF InWriting
<1>. QED  BY <1>1, <1>2, <1>3, <1>4, <1>5, ContentsStay

(* A rescued frame still holds its page.                                   *)
LEMMA RescueContents ==
    ASSUME TypeOK, ControlOK, Owned, PagesRight, ContentsKnown, NEW u \in Users, NEW f \in Frames,
           RescueTakes(u, f), freeList' = freeList
    PROVE  ContentsKnown'
<1>1. Page(u) \in Pages /\ pageTable[Page(u)] = Transition(f)
  BY HeldLock DEF RescueTakes, LockHeld, Rescuing, PagesRight, ThreadOK
<1>2. ram[f] = Contents(Page(u))  BY <1>1 DEF ContentsKnown, PageContents
<1>3. /\ UNCHANGED <<storage, memory, pageTable, diskVars, va, currentFrame, pteContents>>
      /\ \A v \in Users : v # u => pc'[v] = pc[v]
      /\ pc[u] \in {"checkWritten", "checkModified", "checkStandby"} /\ currentFrame[u] = f
      /\ pc'[u] \in {"map", "releaseSlot"} /\ InWriting' \subseteq InWriting
      /\ pc'[u] = "releaseSlot" => f \in ToSet(standbyList)
      /\ ToSet(standbyList') \subseteq ToSet(standbyList)
      /\ \A g \in Frames : pfnArray'[g].diskIndex = pfnArray[g].diskIndex
  BY DEF RescueTakes
<1>4. UserContents(u)'
  <2>1. Contents(Page(u))' = Contents(Page(u))  BY <1>3 DEF Contents, Page
  <2>. QED  BY <1>2, <1>3, <2>1 DEF UserContents
<1>5. \A g \in Frames : HasCopy(g)' => HasCopy(g)
  BY <1>3 DEF HasCopy
<1>. QED  BY <1>3, <1>4, <1>5, ContentsStay DEF Loading

(* The steps at which a frame's disk index is forgotten.                   *)
LEMMA SlotContents ==
    ASSUME TypeOK, ControlOK, Owned, PagesRight, ContentsKnown, NEW u \in Users,
           ReleaseRescuedSlot(u) \/ SwapFromDisk(u)
    PROVE  ContentsKnown'
<1>1. PICK f \in Frames : f = currentFrame[u]
  BY WorksOnFrame DEF ReleaseRescuedSlot, SwapFromDisk, NeedsFrame, Holding
<1>2. /\ UNCHANGED <<pageTable, storage, memory, freeList, standbyList, currentFrame, va,
                     pteContents, diskVars>>
      /\ pfnArray' = [pfnArray EXCEPT ![f] = OnDisk(pfnArray[f], InvalidDiskSlot)]
  BY <1>1 DEF ReleaseRescuedSlot, SwapFromDisk
<1>3. /\ \/ pc[u] = "releaseSlot" /\ pc'[u] = "map"
         \/ pc[u] = "swapIn" /\ pc'[u] = "copyIn"
      /\ \A v \in Users : v # u => pc'[v] = pc[v]
  BY DEF ReleaseRescuedSlot, SwapFromDisk, GoTo, TypeOK, UsersTyped
<1>4. /\ \A g \in Frames : g # f => pfnArray'[g] = pfnArray[g]
      /\ pfnArray'[f].isBeingWritten = pfnArray[f].isBeingWritten
  <2>1. pfnArray[f] \in FrameRecords  BY DEF TypeOK, FramesTyped
  <2>. QED  BY <1>2, <2>1 DEF TypeOK, FramesTyped, FrameRecords, OnDisk
<1>5. ~HasCopy(f)'
  <2>1. UserHolds(u, f)  BY <1>1, <1>3 DEF UserHolds, Holding
  <2>2. f \notin ToSet(standbyList) /\ \A v \in Users : UserHolds(v, f) => v = u
    BY <2>1 DEF Owned, Apart, InAList
  <2>. QED  BY <1>2, <1>3, <2>2 DEF HasCopy, UserHolds, Holding
<1>6. \A g \in Frames : HasCopy(g)' => HasCopy(g) /\ pfnArray'[g].diskIndex = pfnArray[g].diskIndex
  BY <1>2, <1>3, <1>4, <1>5 DEF HasCopy
<1>7. InWriting' = InWriting
  BY <1>2, <1>4, WritingKept
<1>8. UserContents(u)'
  <2>1. Contents(Page(u))' = Contents(Page(u)) /\ Page(u) \in Pages
    BY <1>2, <1>3, WorksOnPage DEF Contents, Page
  <2>2. CASE pc[u] = "releaseSlot"
    <3>1. pageTable[Page(u)] = Transition(f)
      BY <1>1, <2>2 DEF PagesRight, ThreadOK, Rescuing
    <3>2. ram[f] = Contents(Page(u))  BY <2>1, <3>1 DEF ContentsKnown, PageContents
    <3>. QED  BY <1>1, <1>2, <1>3, <2>1, <2>2, <3>2 DEF UserContents
  <2>3. CASE pc[u] = "swapIn"
    <3>1. PICK s \in DiskSlots : s = pteContents[u].number /\ PageOwns(Page(u), s)
      BY <2>3, SwapsOwnSlot
    <3>2. totalDiskSpace[s] = Contents(Page(u))
      BY <2>1, <3>1 DEF ContentsKnown, PageContents
    <3>. QED  BY <1>2, <1>3, <2>1, <2>3, <3>1, <3>2 DEF UserContents
  <2>. QED  BY <1>3, <2>2, <2>3
<1>. QED  BY <1>2, <1>3, <1>6, <1>7, <1>8, ContentsStay DEF Loading

(* A victim keeps its contents and its copy.                               *)
LEMMA VictimContents ==
    ASSUME TypeOK, ControlOK, Owned, PagesRight, ContentsKnown, NEW u \in Users, NEW f \in Frames,
           TakesVictim(u, f), freeList' = freeList
    PROVE  ContentsKnown'
<1>1. \A g \in Frames : HasCopy(g)' => HasCopy(g)
  BY DEF TakesVictim, HasCopy
<1>. QED  BY <1>1, ContentsStay DEF TakesVictim, Loading

(* A free frame is zero, and so is the page it is given to unfilled.       *)
LEMMA FreeFrameContents ==
    ASSUME TypeOK, ControlOK, Owned, PagesRight, ContentsKnown, NEW u \in Users, GetFreeFrame(u)
    PROVE  ContentsKnown'
<1>1. /\ UNCHANGED <<pageTable, pfnArray, storage, memory, standbyList, va, pteContents, diskVars>>
      /\ pc[u] = "getFreeFrame" /\ pc'[u] \in {"takeStandby", "swapIn", "map"}
      /\ \A v \in Users : v # u => pc'[v] = pc[v] /\ currentFrame'[v] = currentFrame[v]
      /\ pc'[u] = "map" => /\ pteContents[u] = Zero /\ freeList # <<>>
                           /\ currentFrame'[u] = freeList[1]
      /\ freeList' = freeList \/ (freeList # <<>> /\ freeList' = AfterPop(freeList, 1))
  BY DEF GetFreeFrame, GoTo, TypeOK, UsersTyped
<1>2. ToSet(freeList') \subseteq ToSet(freeList)
  BY <1>1, PopFirstProperties DEF TypeOK, ListsTyped
<1>3. UserContents(u)'
  <2>1. CASE pc'[u] = "map"
    <3>1. Page(u) \in Pages /\ pageTable[Page(u)] = Zero
      BY <1>1, <2>1, WorksOnPage DEF PagesRight, ThreadOK, Filling
    <3>2. memory[Page(u)] = {}  BY <3>1 DEF ContentsKnown, PageContents
    <3>3. currentFrame'[u] \in Frames /\ currentFrame'[u] \in ToSet(freeList)
      BY <1>1, <2>1, PopFirstProperties DEF TypeOK, ListsTyped
    <3>4. ram[currentFrame'[u]] = {}  BY <3>3 DEF ContentsKnown, FrameContents
    <3>5. Contents(Page(u))' = {}  BY <1>1, <3>2 DEF Contents, Page
    <3>. QED  BY <1>1, <2>1, <3>4, <3>5 DEF UserContents
  <2>2. CASE pc'[u] # "map"
    BY <1>1, <2>2 DEF UserContents
  <2>. QED  BY <2>1, <2>2
<1>4. \A g \in Frames : HasCopy(g)' => HasCopy(g)
  BY <1>1 DEF HasCopy
<1>5. InWriting' = InWriting  BY <1>1 DEF InWriting
<1>. QED  BY <1>1, <1>2, <1>3, <1>4, <1>5, ContentsStay DEF Loading

(* The trim thread moves frames about, and their contents with them.       *)
LEMMA TrimContents ==
    ASSUME TypeOK, ControlOK, Owned, PagesRight, ContentsKnown, TrimStep, ~FixPTE
    PROVE  ContentsKnown'
<1>1. /\ UNCHANGED <<pageTable, storage, memory, freeList, standbyList, userVars, swapFrames,
                     diskSlots>>
      /\ diskPC' = "publish" => diskPC = "publish"
  BY DEF TrimStep, TrimWait, PopActive, UnmapBatch, AddModified, SignalModWrite, SetModWriteEvent
<1>2. /\ InWriting' = InWriting
      /\ \A f \in Frames : HasCopy(f) => pfnArray'[f].diskIndex = pfnArray[f].diskIndex
  <2>1. CASE AddModified
    BY <2>1, AddModifiedEffect
  <2>2. CASE TrimWait \/ PopActive \/ UnmapBatch \/ SignalModWrite
    <3>1. UNCHANGED <<pfnArray, swapFrames>>
      BY <2>2 DEF TrimWait, PopActive, UnmapBatch, SignalModWrite
    <3>. QED  BY <3>1 DEF InWriting
  <2>. QED  BY <2>1, <2>2 DEF TrimStep
<1>3. \A f \in Frames : HasCopy(f)' => HasCopy(f)
  BY <1>1 DEF HasCopy
<1>. QED  BY <1>1, <1>2, <1>3, ContentsStay

(* So does the disk thread, except where it writes a page out.             *)
LEMMA DiskContents ==
    ASSUME TypeOK, ControlOK, Owned, BatchApart, PagesRight, ContentsKnown,
           \/ DiskWait \/ ReserveSlots \/ CollectModified \/ ReadFrameWord \/ WriteFrameWord
           \/ SignalFinished
    PROVE  ContentsKnown'
<1>1. /\ UNCHANGED <<pageTable, storage, memory, freeList, standbyList, va, currentFrame,
                     pteContents>>
      /\ diskPC' # "publish"
      /\ \A v \in Users : pc'[v] = pc[v] \/ (pc[v] = "blocked" /\ pc'[v] = "access")
  BY DEF DiskWait, ReserveSlots, CollectModified, ReadFrameWord, WriteFrameWord, NextToWrite,
     SignalFinished
<1>2. \A f \in Frames : HasCopy(f)' => HasCopy(f)
  BY <1>1 DEF HasCopy
<1>3. \A f \in Frames : HasCopy(f) => pfnArray'[f].diskIndex = pfnArray[f].diskIndex
  <2>1. CASE WriteFrameWord
    BY <2>1, WriteFrameWordEffect
  <2>2. CASE CollectModified
    BY <2>2, CollectModifiedEffect
  <2>3. CASE DiskWait \/ ReserveSlots \/ ReadFrameWord \/ SignalFinished
    BY <2>3 DEF DiskWait, ReserveSlots, ReadFrameWord, SignalFinished
  <2>. QED  BY <2>1, <2>2, <2>3
<1>. QED  BY <1>1, <1>2, <1>3, ContentsStay DEF Loading

(* A frame that goes on standby was written to the slot it takes.          *)
LEMMA PublishContents ==
    ASSUME TypeOK, ControlOK, Owned, BatchApart, PagesRight, ContentsKnown, PublishPage
    PROVE  ContentsKnown'
<1>1. /\ UNCHANGED <<pageTable, storage, memory, freeList, userVars>>
      /\ diskPC = "publish" /\ diskPC' # "publish"
  BY DEF PublishPage, NextToWrite
<1>2. CASE pfnArray[swapFrames[1]].isBeingWritten
  <2>1. PICK f \in Frames, s \in DiskSlots :
               /\ f = swapFrames[1] /\ f \in InWriting /\ s = diskSlots[1]
               /\ ToSet(standbyList') = ToSet(standbyList) \cup {f}
               /\ \A g \in Frames :
                      pfnArray'[g].diskIndex = IF g = f THEN s ELSE pfnArray[g].diskIndex
    BY <1>2, PublishEffect
  <2>2. totalDiskSpace[s] = ram[f]  BY <1>1, <2>1 DEF ContentsKnown, BatchContents
  <2>3. \A g \in Frames : HasCopy(g)' => HasCopy(g) \/ g = f
    BY <1>1, <2>1 DEF HasCopy
  <2>4. \A g \in Frames :
            \/ ~HasCopy(g)'
            \/ HasCopy(g) /\ pfnArray'[g].diskIndex = pfnArray[g].diskIndex
            \/ totalDiskSpace[pfnArray'[g].diskIndex] = ram[g]
    BY <2>1, <2>2, <2>3
  <2>. QED  BY <1>1, <2>4, ContentsStay
<1>3. CASE ~pfnArray[swapFrames[1]].isBeingWritten
  <2>1. UNCHANGED <<pfnArray, standbyList>>  BY <1>3 DEF PublishPage
  <2>2. \A g \in Frames : HasCopy(g)' => HasCopy(g)  BY <1>1, <2>1 DEF HasCopy
  <2>. QED  BY <1>1, <2>1, <2>2, ContentsStay
<1>. QED  BY <1>2, <1>3

-----------------------------------------------------------------------------
(* Steps that change a PTE.                                                *)

(* A PTE that names the frame it named keeps the page's contents.          *)
LEMMA FixPTEContents ==
    ASSUME TypeOK, ControlOK, Owned, PagesRight, ContentsKnown, FixPTE
    PROVE  ContentsKnown'
<1>1. PICK f \in Frames :
               /\ f \in ToSet(evictFrames) /\ InUse(f) /\ pfnArray[f].PTE \in Pages
               /\ pageTable[pfnArray[f].PTE] = Valid(f)
               /\ pageTable' = [pageTable EXCEPT ![pfnArray[f].PTE] = Transition(f)]
               /\ \A g \in Frames : g # f => pfnArray'[g].diskIndex = pfnArray[g].diskIndex
               /\ \A g \in Frames : pfnArray'[g].isBeingWritten = pfnArray[g].isBeingWritten
  BY FixPTEKnown
<1>2. PICK v \in Pages : v = pfnArray[f].PTE  BY <1>1
<1>3. /\ pageTable[v] = Valid(f) /\ pageTable'[v] = Transition(f)
      /\ \A p \in Pages : p # v => pageTable'[p] = pageTable[p]
  BY <1>1, <1>2 DEF TypeOK, PagesTyped
<1>4. UNCHANGED <<storage, memory, freeList, standbyList, userVars, diskVars>>
  BY DEF FixPTE
<1>5. InWriting' = InWriting
  <2>1. swapFrames' = swapFrames  BY <1>4
  <2>. QED  BY <1>1, <2>1, WritingKept
<1>6. \A g \in Frames : HasCopy(g)' => HasCopy(g) /\ pfnArray'[g].diskIndex = pfnArray[g].diskIndex
  BY <1>1, <1>4, ApartFrames DEF HasCopy
<1>7. ASSUME NEW p \in Pages  PROVE PageContents(p)'
  <2>1. PageContents(p) /\ Contents(p)' = Contents(p)  BY <1>4 DEF ContentsKnown, Contents
  <2>2. \A s \in DiskSlots : PageOwns(p, s)' => PageOwns(p, s)
    BY <1>3, <1>4, Formats DEF PageOwns, Page
  <2>3. \A g \in Frames : pageTable'[p] \in {Valid(g), Transition(g)} =>
                              pageTable[p] \in {Valid(g), Transition(g)}
    BY <1>3, Formats
  <2>4. pageTable'[p] = Zero => pageTable[p] = Zero
    BY <1>3, Formats
  <2>. QED  BY <1>4, <2>1, <2>2, <2>3, <2>4 DEF PageContents
<1>8. ASSUME NEW u \in Users  PROVE UserContents(u)'
  <2>1. Contents(Page(u))' = Contents(Page(u))  BY <1>4 DEF Contents, Page
  <2>. QED  BY <1>4, <2>1 DEF ContentsKnown, UserContents
<1>9. ASSUME NEW g \in Frames  PROVE FrameContents(g)'
  BY <1>4, <1>6 DEF ContentsKnown, FrameContents
<1>10. BatchContents'  BY <1>4, <1>5 DEF ContentsKnown, BatchContents
<1>. QED  BY <1>7, <1>8, <1>9, <1>10 DEF ContentsKnown

(* What is mapped is the page that was filled or rescued.                  *)
LEMMA MapContents ==
    ASSUME TypeOK, ControlOK, Owned, PagesRight, ContentsKnown, NEW u \in Users, NEW p \in Pages,
           NEW f \in Frames, Maps(u, p, f), UNCHANGED freeList,
           \A v \in Users : v # u => pteContents'[v] = pteContents[v]
    PROVE  ContentsKnown'
<1>1. /\ pageTable'[p] = Valid(f)
      /\ \A q \in Pages : q # p => pageTable'[q] = pageTable[q]
  BY DEF Maps, TypeOK, PagesTyped
<1>2. /\ UNCHANGED <<storage, memory, standbyList, va, diskVars>> /\ InWriting' = InWriting
      /\ pc[u] = "map" /\ pc'[u] = "access" /\ currentFrame[u] = f /\ Page(u) = p
      /\ \A v \in Users : v # u => pc'[v] = pc[v] /\ currentFrame'[v] = currentFrame[v]
      /\ \A g \in Frames : pfnArray'[g].diskIndex = pfnArray[g].diskIndex
  BY DEF Maps
<1>3. ram[f] = Contents(p)  BY <1>2 DEF ContentsKnown, UserContents
<1>4. ASSUME NEW q \in Pages  PROVE PageContents(q)'
  <2>1. PageContents(q) /\ Contents(q)' = Contents(q)  BY <1>2 DEF ContentsKnown, Contents
  <2>2. CASE q = p
    <3>1. \A s \in DiskSlots : ~PageOwns(q, s)'
      BY <1>1, <2>2, Formats DEF PageOwns
    <3>2. pageTable'[q] # Zero /\ \A g \in Frames : pageTable'[q] \in {Valid(g), Transition(g)} => g = f
      BY <1>1, <2>2, Formats
    <3>. QED  BY <1>2, <1>3, <2>1, <2>2, <3>1, <3>2 DEF PageContents
  <2>3. CASE q # p
    <3>1. \A v \in Users : v # u => pc'[v] = pc[v] /\ Page(v)' = Page(v)
      BY <1>2 DEF Page
    <3>2. \A s \in DiskSlots : PageOwns(q, s)' => PageOwns(q, s)
      BY <1>1, <1>2, <2>3, <3>1 DEF PageOwns
    <3>. QED  BY <1>1, <1>2, <2>1, <2>3, <3>2 DEF PageContents
  <2>. QED  BY <2>2, <2>3
<1>5. ASSUME NEW v \in Users  PROVE UserContents(v)'
  <2>1. CASE v = u  BY <1>2, <2>1 DEF UserContents
  <2>2. CASE v # u
    <3>1. Contents(Page(v))' = Contents(Page(v))  BY <1>2 DEF Contents, Page
    <3>. QED  BY <1>2, <2>2, <3>1 DEF ContentsKnown, UserContents
  <2>. QED  BY <2>1, <2>2
<1>6. \A g \in Frames : HasCopy(g)' => HasCopy(g)
  BY <1>2 DEF HasCopy
<1>7. ASSUME NEW g \in Frames  PROVE FrameContents(g)'
  BY <1>2, <1>6 DEF ContentsKnown, FrameContents
<1>8. BatchContents'  BY <1>2 DEF ContentsKnown, BatchContents
<1>. QED  BY <1>4, <1>5, <1>7, <1>8 DEF ContentsKnown

(* Nobody loads the page whose frame is taken.                             *)
LEMMA LosesUnloaded ==
    ASSUME TypeOK, ControlOK, Owned, PagesRight, NEW u \in Users, NEW f \in Frames,
           LosesPage(f, u)
    PROVE  \A w \in Users : pc[w] \in Loading => Page(w) # pfnArray[f].PTE
<1>1. /\ pfnArray[f].PTE \in Pages /\ pageTable[pfnArray[f].PTE] = Transition(f)
      /\ \A w \in Users : UserHolds(w, f) => w = u /\ pc[u] = "updateVictim"
  BY LosesKnown
<1> SUFFICES ASSUME NEW w \in Users, pc[w] \in Loading, Page(w) = pfnArray[f].PTE  PROVE FALSE
  OBVIOUS
<1>2. ~OnDiskFormat(pageTable[pfnArray[f].PTE])  BY <1>1, Formats DEF OnDiskFormat
<1>3. pc[w] = "map" /\ pageTable[pfnArray[f].PTE] = Transition(currentFrame[w])
  BY <1>2 DEF PagesRight, ThreadOK, Loading, Filling
<1>4. currentFrame[w] = f  BY <1>1, <1>3, Formats
<1>5. UserHolds(w, f)  BY <1>3, <1>4 DEF UserHolds, Holding
<1>. QED  BY <1>1, <1>3, <1>5

(* A page that loses its frame is in the frame's slot, or forgotten.       *)
LEMMA LosesContents ==
    ASSUME TypeOK, ControlOK, Owned, PagesRight, ContentsKnown, NEW u \in Users,
           NEW f \in Frames, LosesPage(f, u), UNCHANGED freeList
    PROVE  ContentsKnown'
<1>1. PICK v \in Pages : v = pfnArray[f].PTE  BY LosesKnown
<1>2. PICK slot \in DiskSlots : slot = pfnArray[f].diskIndex  BY LosesKnown
<1>3. /\ HasCopy(f) /\ pageTable[v] = Transition(f)
      /\ \A w \in Users : UserHolds(w, f) => w = u /\ pc[u] = "updateVictim"
      /\ \A w \in Users : pc[w] \in Loading => Page(w) # v
  BY <1>1, LosesKnown, LosesUnloaded
<1>4. /\ pageTable'[v] = Disk(slot)
      /\ \A p \in Pages : p # v => pageTable'[p] = pageTable[p] /\ memory'[p] = memory[p]
      /\ memory'[v] = IF slot = 0 THEN {} ELSE memory[v]
  BY <1>1, <1>2 DEF LosesPage, TypeOK, PagesTyped, HistoryTyped
<1>5. /\ \A w \in Users : w # u => pc'[w] = pc[w] /\ currentFrame'[w] = currentFrame[w]
      /\ pc[u] \in {"takeStandby", "updateVictim"} /\ pc'[u] \in {"wipe", "swapIn", "reacquire"}
      /\ pc[u] = "updateVictim" => currentFrame[u] = f
      /\ ToSet(standbyList') = ToSet(standbyList) \ {f}
      /\ UNCHANGED <<va, pteContents, diskVars, storage>> /\ InWriting' = InWriting
      /\ \A g \in Frames : g # f => pfnArray'[g].diskIndex = pfnArray[g].diskIndex
  BY DEF LosesPage
<1>6. totalDiskSpace[slot] = Contents(v)
  BY <1>2, <1>3 DEF ContentsKnown, FrameContents, PageContents
<1>7. \A w \in Users : (pc'[w] \in Loading <=> pc[w] \in Loading) /\ Page(w)' = Page(w)
  BY <1>5 DEF Page, Loading
<1>8. ASSUME NEW p \in Pages  PROVE PageContents(p)'
  <2>1. CASE p = v
    <3>1. \A g \in Frames : pageTable'[p] \notin {Valid(g), Transition(g)}
      BY <1>4, <2>1, Formats
    <3>2. pageTable'[p] = Zero => memory'[p] = {}
      BY <1>4, <2>1, Formats
    <3>3. ASSUME NEW s \in DiskSlots, PageOwns(p, s)'
          PROVE  totalDiskSpace'[s] = Contents(p)'
      <4>1. s # 0 /\ s = slot  BY <1>4, <2>1, <3>3, Formats DEF PageOwns
      <4>2. Contents(p)' = Contents(v)  BY <1>4, <2>1, <4>1 DEF Contents
      <4>. QED  BY <1>5, <1>6, <4>1, <4>2
    <3>. QED  BY <3>1, <3>2, <3>3 DEF PageContents
  <2>2. CASE p # v
    <3>1. PageContents(p) /\ Contents(p)' = Contents(p)
      BY <1>4, <2>2 DEF ContentsKnown, Contents
    <3>2. \A s \in DiskSlots : PageOwns(p, s)' => PageOwns(p, s)
      BY <1>4, <1>7, <2>2 DEF PageOwns, Loading
    <3>. QED  BY <1>4, <1>5, <2>2, <3>1, <3>2 DEF PageContents
  <2>. QED  BY <2>1, <2>2
<1>9. ASSUME NEW w \in Users  PROVE UserContents(w)'
  <2>1. CASE pc[w] \notin Loading  BY <1>7, <2>1 DEF UserContents, Loading
  <2>2. CASE pc[w] \in Loading
    <3>1. w # u /\ Page(w) \in Pages /\ Page(w) # v
      BY <1>3, <1>5, <2>2, WorksOnPage DEF Loading
    <3>2. Contents(Page(w))' = Contents(Page(w))
      BY <1>4, <1>7, <3>1 DEF Contents
    <3>. QED  BY <1>5, <3>1, <3>2 DEF ContentsKnown, UserContents
  <2>. QED  BY <2>1, <2>2
<1>10. ASSUME NEW g \in Frames  PROVE HasCopy(g)' => HasCopy(g) /\ g # f
  <2>1. \A w \in Users : pc[w] \in Parting /\ currentFrame[w] = f => w = u
    BY <1>3 DEF UserHolds, Holding, Parting
  <2>. QED  BY <1>5, <2>1 DEF HasCopy, Parting
<1>11. ASSUME NEW g \in Frames  PROVE FrameContents(g)'
  BY <1>5, <1>10 DEF ContentsKnown, FrameContents
<1>12. BatchContents'  BY <1>5 DEF ContentsKnown, BatchContents
<1>. QED  BY <1>8, <1>9, <1>11, <1>12 DEF ContentsKnown

-----------------------------------------------------------------------------
(* Steps that write a frame or a slot.                                     *)

(* Frame f is written by one thread or the program; nothing else reads it. *)
LEMMA FrameWritten ==
    ASSUME TypeOK, ContentsKnown, NEW f \in Frames,
           \A g \in Frames : g # f => ram'[g] = ram[g],
           f \notin ToSet(freeList), ~HasCopy(f), f \notin InWriting,
           UNCHANGED <<totalDiskSpace, freeList, standbyList, pfnArray, diskVars>>,
           \A v \in Users : pc'[v] \in Parting => pc[v] = pc'[v] /\ currentFrame'[v] = currentFrame[v]
    PROVE  (\A g \in Frames : FrameContents(g)') /\ BatchContents'
<1>1. \A g \in Frames : HasCopy(g)' => HasCopy(g) /\ g # f
  BY DEF HasCopy, Parting
<1>2. \A g \in Frames : FrameContents(g)'
  BY <1>1 DEF ContentsKnown, FrameContents
<1>3. BatchContents'
  <2>1. InWriting' = InWriting  BY DEF InWriting
  <2>2. InWriting \subseteq Frames
    BY LenProperties, ElementOfSeq DEF TypeOK, DiskTyped, ToSet, InWriting
  <2>. QED  BY <2>1, <2>2 DEF ContentsKnown, BatchContents
<1>. QED  BY <1>2, <1>3

(* The program stores a word in a page it has mapped.                      *)
LEMMA StoreContents ==
    ASSUME TypeOK, ControlOK, Owned, PagesRight, ContentsKnown, NEW u \in Users, NEW p \in Pages,
           NEW w \in Words, Store(u, p, w)
    PROVE  ContentsKnown' /\ Contents(p)' = Contents(p) \cup {<<p, w>>}
<1>1. PICK f \in Frames : f = mapped[p] /\ pageTable[p] = Valid(f) /\ InUse(f) /\ pfnArray[f].PTE = p
  BY DEF Store, PagesRight, PageOK
<1>2. /\ UNCHANGED <<pageTable, pfnArray, totalDiskSpace, freeList, standbyList, pc, pteContents,
                     currentFrame, diskVars>>
      /\ ram' = [ram EXCEPT ![f] = WithWord(ram[f], p, w)]
      /\ memory' = [memory EXCEPT ![p] = memory[p] \cup {w}]
      /\ \A v \in Users : v # u => va'[v] = va[v]
      /\ pc[u] = "access"
  BY <1>1 DEF Store, Accesses, TypeOK, UsersTyped
<1>3. /\ \A g \in Frames : g # f => ram'[g] = ram[g]
      /\ ram'[f] = WithWord(ram[f], p, w)
      /\ \A q \in Pages : q # p => memory'[q] = memory[q]
      /\ memory'[p] = memory[p] \cup {w}
  BY <1>2 DEF TypeOK, StorageTyped, HistoryTyped
<1>4. Contents(p)' = Contents(p) \cup {<<p, w>>}
  BY <1>3 DEF Contents
<1>5. ram'[f] = Contents(p)'
  <2>1. ram[f] = {p} \X memory[p]  BY <1>1 DEF ContentsKnown, PageContents, Contents
  <2>2. WithWord({p} \X memory[p], p, w) = ({p} \X memory[p]) \cup {<<p, w>>}
    <3>1. ASSUME NEW x \in {p} \X memory[p], x[2] = w  PROVE x = <<p, w>>
      BY <3>1
    <3>. QED  BY <3>1 DEF WithWord
  <2>. QED  BY <1>3, <1>4, <2>1, <2>2 DEF Contents
<1>6. \A q \in Pages : q # p => pageTable[q] \notin {Valid(f), Transition(f)}
  BY <1>1, Formats DEF PagesRight, PageOK, OnDiskFormat
<1>7. /\ ~HasCopy(f) /\ f \notin ToSet(freeList) /\ f \notin InWriting
      /\ \A v \in Users : ~UserHolds(v, f)
  BY <1>1, ApartFrames DEF InUse, Owned, Apart, InOneListOnly
<1>8. \A v \in Users : pc[v] \in Loading =>
          v # u /\ Page(v) \in Pages /\ Page(v) # p /\ currentFrame[v] \in Frames \ {f}
  <2> SUFFICES ASSUME NEW v \in Users, pc[v] \in Loading
               PROVE  Page(v) \in Pages /\ Page(v) # p /\ currentFrame[v] \in Frames \ {f}
    BY <1>2 DEF Loading
  <2>1. Page(v) \in Pages /\ currentFrame[v] \in Frames
    BY WorksOnPage, WorksOnFrame DEF Loading, NeedsFrame, Holding
  <2>2. currentFrame[v] # f  BY <1>7 DEF UserHolds, Holding, Loading
  <2>3. pageTable[Page(v)] # Valid(f)
    BY Formats DEF PagesRight, ThreadOK, Loading, Filling, OnDiskFormat
  <2>. QED  BY <1>1, <2>1, <2>2, <2>3
<1>9. \A v \in Users : pc[v] \in Loading => Page(v)' = Page(v)  BY <1>2, <1>8 DEF Page
<1>10. ASSUME NEW q \in Pages  PROVE PageContents(q)'
  <2>1. PageContents(q)  BY DEF ContentsKnown
  <2>2. CASE q = p
    <3>1. \A s \in DiskSlots : ~PageOwns(q, s)'
      BY <1>1, <1>2, <2>2, Formats DEF PageOwns
    <3>2. pageTable'[q] # Zero /\ \A g \in Frames : pageTable'[q] \in {Valid(g), Transition(g)} => g = f
      BY <1>1, <1>2, <2>2, Formats
    <3>. QED  BY <1>5, <2>2, <3>1, <3>2 DEF PageContents
  <2>3. CASE q # p
    <3>1. Contents(q)' = Contents(q)  BY <1>3, <2>3 DEF Contents
    <3>2. \A s \in DiskSlots : PageOwns(q, s)' => PageOwns(q, s)
      BY <1>2, <1>9 DEF PageOwns, Loading
    <3>. QED  BY <1>2, <1>3, <1>6, <2>1, <2>3, <3>1, <3>2 DEF PageContents
  <2>. QED  BY <2>2, <2>3
<1>11. ASSUME NEW v \in Users  PROVE UserContents(v)'
  <2>1. CASE pc[v] \notin Loading  BY <1>2, <2>1 DEF UserContents, Loading
  <2>2. CASE pc[v] \in Loading
    <3>1. Contents(Page(v))' = Contents(Page(v))
      BY <1>3, <1>8, <1>9, <2>2 DEF Contents
    <3>2. ram'[currentFrame[v]] = ram[currentFrame[v]]  BY <1>3, <1>8, <2>2
    <3>. QED  BY <1>2, <3>1, <3>2 DEF ContentsKnown, UserContents
  <2>. QED  BY <2>1, <2>2
<1>12. (\A g \in Frames : FrameContents(g)') /\ BatchContents'
  BY <1>2, <1>3, <1>7, FrameWritten
<1>. QED  BY <1>4, <1>10, <1>11, <1>12 DEF ContentsKnown

(* A thread fills the frame it holds, with zeros or from its page's slot.  *)
LEMMA FillContents ==
    ASSUME TypeOK, ControlOK, Owned, PagesRight, ContentsKnown, NEW u \in Users,
           WipePage(u) \/ CopyFromDisk(u)
    PROVE  ContentsKnown'
<1>1. PICK f \in Frames : f = currentFrame[u]
  BY WorksOnFrame DEF WipePage, CopyFromDisk, NeedsFrame, Holding
<1>2. PICK p \in Pages : p = Page(u)  BY WorksOnPage DEF WipePage, CopyFromDisk
<1>3. /\ UNCHANGED <<pageTable, pfnArray, totalDiskSpace, memory, freeList, standbyList, va,
                     pteContents, currentFrame, diskVars>>
      /\ pc[u] \in {"wipe", "copyIn"} /\ pc'[u] = "map"
      /\ \A v \in Users : v # u => pc'[v] = pc[v]
      /\ \A g \in Frames : g # f => ram'[g] = ram[g]
      /\ ram'[f] = IF pc[u] = "wipe" THEN {} ELSE totalDiskSpace[pteContents[u].number]
  BY <1>1 DEF WipePage, CopyFromDisk, GoTo, TypeOK, UsersTyped, StorageTyped
<1>4. UserHolds(u, f)  BY <1>1, <1>3 DEF UserHolds, Holding
<1>5. /\ ~InAList(f) /\ \A v \in Users : UserHolds(v, f) => v = u
  BY <1>4 DEF Owned, Apart
<1>6. ~InUse(f) /\ ~Leaving(f) /\ ~HasCopy(f)
  BY <1>3, <1>5 DEF InUse, Leaving, HasCopy, InAList, UserHolds, Holding
<1>7. \A q \in Pages : ~Rescued(q, f)
  BY <1>3, <1>5 DEF Rescued, UserHolds, Holding
<1>8. \A q \in Pages : pageTable[q] \notin {Valid(f), Transition(f)}
  BY <1>6, <1>7, Formats DEF PagesRight, PageOK, OnDiskFormat
<1>9. ASSUME NEW q \in Pages  PROVE PageContents(q)'
  <2>1. PageContents(q) /\ Contents(q)' = Contents(q)  BY <1>3 DEF ContentsKnown, Contents
  <2>2. \A s \in DiskSlots : PageOwns(q, s)' => PageOwns(q, s)
    <3>1. \A v \in Users : Page(v)' = Page(v) /\ (pc[v] \in Loading => pc'[v] \in Loading)
      BY <1>3 DEF Page, Loading
    <3>. QED  BY <1>3, <3>1 DEF PageOwns, Loading
  <2>. QED  BY <1>3, <1>8, <2>1, <2>2 DEF PageContents
<1>10. ram'[f] = Contents(p)
  <2>1. CASE pc[u] = "wipe"
    <3>1. pageTable[p] = Zero  BY <1>2, <2>1 DEF PagesRight, ThreadOK, Filling
    <3>. QED  BY <1>3, <2>1, <3>1 DEF ContentsKnown, PageContents, Contents
  <2>2. CASE pc[u] = "copyIn"
    BY <1>2, <1>3, <2>2 DEF ContentsKnown, UserContents
  <2>. QED  BY <1>3, <2>1, <2>2
<1>11. ASSUME NEW v \in Users  PROVE UserContents(v)'
  <2>1. Contents(Page(v))' = Contents(Page(v))  BY <1>3 DEF Contents, Page
  <2>2. CASE v = u
    BY <1>1, <1>2, <1>3, <1>10, <2>1, <2>2 DEF UserContents
  <2>3. CASE v # u
    <3>1. pc[v] = "map" => currentFrame[v] \in Frames \ {f}
      BY <1>5, <2>3, WorksOnFrame DEF UserHolds, Holding, NeedsFrame
    <3>. QED  BY <1>3, <2>1, <2>3, <3>1 DEF ContentsKnown, UserContents
  <2>. QED  BY <2>2, <2>3
<1>12. (\A g \in Frames : FrameContents(g)') /\ BatchContents'
  <2>1. f \notin ToSet(freeList) /\ f \notin InWriting  BY <1>5 DEF InAList
  <2>2. \A v \in Users : pc'[v] \in Parting => pc[v] = pc'[v] /\ currentFrame'[v] = currentFrame[v]
    BY <1>3 DEF Parting
  <2>. QED  BY <1>3, <1>6, <2>1, <2>2, FrameWritten
<1>. QED  BY <1>9, <1>11, <1>12 DEF ContentsKnown

(* The disk thread writes to a slot of its own, unless a thread still      *)
(* copies from it.                                                         *)
LEMMA WriteContents ==
    ASSUME TypeOK, ControlOK, Owned, PagesRight, SlotsRight, ContentsKnown, WritePage,
           "slotReused" \notin races'
    PROVE  ContentsKnown'
<1>1. diskSlots \in Seq(DiskSlots) /\ diskSlots # <<>>
  <2>1. swapFrames # <<>> /\ Len(swapFrames) = Len(diskSlots)
    BY DEF ControlOK, DiskControlled, WritePage
  <2>. QED  BY <2>1, LenProperties, EmptySeq DEF TypeOK, DiskTyped
<1>2. PICK s \in DiskSlots : s = diskSlots[1] /\ s \in ToSet(diskSlots)
  BY <1>1, PopFirstProperties
<1>3. /\ UNCHANGED <<pageTable, pfnArray, ram, memory, freeList, standbyList, userVars, diskSlots,
                     swapFrames>>
      /\ totalDiskSpace' = [totalDiskSpace EXCEPT ![s] = ram[swapFrames[1]]]
  BY <1>2 DEF WritePage
<1>4. /\ \A t \in DiskSlots : t # s => totalDiskSpace'[t] = totalDiskSpace[t]
      /\ totalDiskSpace'[s] = ram[swapFrames[1]]
  BY <1>3 DEF TypeOK, StorageTyped
<1>5. (\A p \in Pages : ~PageOwns(p, s)) /\ \A f \in Frames : ~FrameOwns(f, s)
  BY <1>2 DEF SlotsRight, SlotOK
<1>6. \A u \in Users : pc[u] = "copyIn" => pteContents[u].number # s
  BY <1>2 DEF WritePage
<1>7. \A u \in Users : pc[u] = "copyIn" => pteContents[u].number \in DiskSlots
  BY Formats DEF PagesRight, ThreadOK, Filling, OnDiskFormat
<1>8. ASSUME NEW p \in Pages  PROVE PageContents(p)'
  <2>1. PageContents(p) /\ Contents(p)' = Contents(p)  BY <1>3 DEF ContentsKnown, Contents
  <2>2. \A t \in DiskSlots : PageOwns(p, t)' => PageOwns(p, t) /\ t # s
    BY <1>3, <1>5 DEF PageOwns, Page
  <2>. QED  BY <1>3, <1>4, <2>1, <2>2 DEF PageContents
<1>9. ASSUME NEW u \in Users  PROVE UserContents(u)'
  <2>1. Contents(Page(u))' = Contents(Page(u))  BY <1>3 DEF Contents, Page
  <2>. QED  BY <1>3, <1>4, <1>6, <1>7, <2>1 DEF ContentsKnown, UserContents
<1>10. ASSUME NEW f \in Frames  PROVE FrameContents(f)'
  <2>1. HasCopy(f)' => HasCopy(f) /\ pfnArray[f].diskIndex \in DiskSlots \ {s}
    BY <1>3, <1>5 DEF HasCopy, FrameOwns, PagesRight, FrameOK
  <2>. QED  BY <1>3, <1>4, <2>1 DEF ContentsKnown, FrameContents
<1>11. BatchContents'  BY <1>2, <1>3, <1>4 DEF BatchContents
<1>. QED  BY <1>8, <1>9, <1>10, <1>11 DEF ContentsKnown

-----------------------------------------------------------------------------
(***************************************************************************)
(* The inductive invariant of the contents: ContentsKnown until a window   *)
(* other than that of the torn word was hit, or a page mapped unfilled.    *)
(***************************************************************************)
ContentsUntilRace == races \subseteq {"wordTorn"} => ContentsKnown

(* The contents of a page that was never used are all zero.                *)
LEMMA ContentsInit == Init => ContentsKnown
<1> SUFFICES ASSUME Init PROVE ContentsKnown
  OBVIOUS
<1>1. \A u \in Users : pc[u] = "access"  BY DEF Init
<1>2. ToSet(standbyList) = {}  BY DEF Init, ToSet
<1>3. ASSUME NEW p \in Pages  PROVE PageContents(p)
  <2>1. pageTable[p] = Zero /\ memory[p] = {}  BY <1>3 DEF Init
  <2>2. \A s \in DiskSlots : ~PageOwns(p, s)  BY <2>1, Formats DEF PageOwns
  <2>3. \A f \in Frames : pageTable[p] \notin {Valid(f), Transition(f)}  BY <2>1, Formats
  <2>. QED  BY <2>1, <2>2, <2>3 DEF PageContents
<1>4. \A u \in Users : UserContents(u)  BY <1>1 DEF UserContents
<1>5. \A f \in Frames : FrameContents(f)
  BY <1>1, <1>2 DEF Init, FrameContents, HasCopy
<1>6. BatchContents  BY DEF Init, BatchContents
<1>. QED  BY <1>3, <1>4, <1>5, <1>6 DEF ContentsKnown

(* They are known after a step that changes nothing.                       *)
LEMMA ContentsStutter == ContentsKnown /\ UNCHANGED vars => ContentsKnown'
<1> SUFFICES ASSUME ContentsKnown, UNCHANGED vars PROVE ContentsKnown'
  OBVIOUS
<1>1. \A f \in Frames : HasCopy(f)' <=> HasCopy(f)  BY DEF vars, HasCopy
<1>2. InWriting' = InWriting  BY DEF vars, InWriting
<1>. QED  BY <1>1, <1>2, ContentsStay DEF vars

(* Every step of a user thread keeps the contents.                         *)
LEMMA UserKeepsContents ==
    ASSUME TypeOK, ControlOK, Owned, PagesRight, SlotsRight, ContentsKnown, NEW u \in Users,
           AccessStep(u) \/ ResolveStep(u) \/ Shutdown(u), races' \subseteq {"wordTorn"}
    PROVE  ContentsKnown'
<1>1. "staleFrame" \notin races' /\ "unfilled" \notin races'  OBVIOUS
<1>2. CASE \/ \E p \in Pages, w \in Words : Fault(u, p, w)
           \/ Shutdown(u) \/ FaultOnValid(u) \/ ReleaseValid(u) \/ FaultInTransition(u)
           \/ FaultOnAbsent(u) \/ StandbyEmpty(u) \/ ResetFinished(u) \/ RequestTrim(u)
           \/ WaitFinished(u) \/ Reacquire(u)
  BY <1>1, <1>2, WaitingContentsStay
<1>3. CASE \E p \in Pages, w \in Words : Store(u, p, w)
  BY <1>3, StoreContents
<1>4. CASE RescueWritten(u)
  <2>1. freeList' = freeList  BY <1>4 DEF RescueWritten
  <2>. QED  BY <1>1, <1>4, <2>1, WaitingContentsStay, RescueWrittenEffect, RescueContents
<1>5. CASE RescueModified(u)
  <2>1. freeList' = freeList  BY <1>5 DEF RescueModified
  <2>. QED  BY <1>1, <1>5, <2>1, WaitingContentsStay, RescueModifiedEffect, RescueContents
<1>6. CASE RescueStandby(u)
  <2>1. freeList' = freeList  BY <1>6 DEF RescueStandby
  <2>. QED  BY <1>1, <1>6, <2>1, WaitingContentsStay, RescueStandbyEffect, RescueContents
<1>7. CASE ReleaseRescuedSlot(u) \/ SwapFromDisk(u)
  BY <1>7, SlotContents
<1>8. CASE TakeStandbySameLock(u) \/ UpdateVictim(u)
  <2>1. freeList' = freeList  BY <1>8 DEF TakeStandbySameLock, UpdateVictim
  <2>. QED  BY <1>8, <2>1, TakeStandbyEffect, UpdateVictimEffect, LosesContents
<1>9. CASE TakeStandbyOtherLock(u)
  <2>1. freeList' = freeList  BY <1>9 DEF TakeStandbyOtherLock
  <2>. QED  BY <1>9, <2>1, TakeVictimEffect, VictimContents
<1>10. CASE MapPage(u)
  <2>1. freeList' = freeList  BY <1>10 DEF MapPage
  <2>2. \A v \in Users : v # u => pteContents'[v] = pteContents[v]  BY UserMovesAlone
  <2>. QED  BY <1>10, <2>1, <2>2, MapPageEffect, MapContents
<1>11. CASE GetFreeFrame(u) \/ WipePage(u) \/ CopyFromDisk(u)
  BY <1>11, FreeFrameContents, FillContents
<1>12. ~SwapFromDiskFails(u)  BY <1>1 DEF SwapFromDiskFails
<1>. QED  BY <1>2, <1>3, <1>4, <1>5, <1>6, <1>7, <1>8, <1>9, <1>10, <1>11, <1>12
          DEF AccessStep, ResolveStep

(* Every step keeps contents known, until a race other than a torn word.   *)
LEMMA ContentsInductive ==
    FramesPagesSlots /\ ContentsUntilRace /\ [Next]_vars => ContentsUntilRace'
<1> SUFFICES ASSUME FramesPagesSlots, ContentsUntilRace, [Next]_vars, races' \subseteq {"wordTorn"}
             PROVE  ContentsKnown'
  BY DEF ContentsUntilRace
<1>1. races \subseteq races'  BY RacesRemembered
<1>2. TypeOK /\ ControlOK /\ PagesRight /\ SlotsRight /\ ContentsKnown
  BY <1>1 DEF FramesPagesSlots, FramesAndPages, PagesUntilStale, SlotsUntilStale,
     ContentsUntilRace
<1>3. CASE UNCHANGED vars  BY <1>2, <1>3, ContentsStutter
<1>4. CASE ~ UNCHANGED vars
  <2>1. /\ halted = "running"
        /\ \/ \E u \in Users : AccessStep(u) \/ ResolveStep(u) \/ Shutdown(u)
           \/ TrimStep \/ DiskStep
    BY <1>4 DEF Next, Stopped
  <2>2. Owned /\ BatchApart
    BY <2>1 DEF FramesPagesSlots, FramesAndPages, OwnedUntilUnlink
  <2>3. CASE \E u \in Users : AccessStep(u) \/ ResolveStep(u) \/ Shutdown(u)
    BY <1>2, <2>2, <2>3, UserKeepsContents
  <2>4. CASE TrimStep
    BY <1>2, <2>2, <2>4, TrimContents, FixPTEContents
  <2>5. CASE DiskStep
    BY <1>2, <2>2, <2>5, DiskContents, PublishContents, WriteContents DEF DiskStep
  <2>. QED  BY <2>1, <2>3, <2>4, <2>5
<1>. QED  BY <1>3, <1>4

(***************************************************************************)
(* The whole inductive invariant of the paged memory: whose each frame is, *)
(* where each page is, whose each slot is, and what they hold.             *)
(***************************************************************************)
MemoryInvariant == FramesPagesSlots /\ ContentsUntilRace

(* All four layers of the invariant hold.                                  *)
LEMMA MemoryInvariantHolds == Spec => []MemoryInvariant
<1>1. Init => ContentsUntilRace  BY ContentsInit DEF ContentsUntilRace
<1>2. FramesPagesSlots /\ ContentsUntilRace /\ [Next]_vars => ContentsUntilRace'
  BY ContentsInductive
<1>. QED  BY <1>1, <1>2, FramesPagesSlotsHold, PTL DEF Spec, MemoryInvariant

(* What is read of a page is what was stored there.                        *)
LEMMA StoredIsContents ==
    ASSUME TypeOK, ControlOK, PagesRight, ContentsKnown, NEW p \in Pages
    PROVE  Stored(p) = Contents(p)
<1> DEFINE e == pageTable[p]
           filler == {u \in Users : pc[u] = "map" /\ Page(u) = p}
<1>1. Stored(p) = CASE filler # {} -> ram[currentFrame[CHOOSE u \in filler : TRUE]]
                    [] filler = {} /\ (e.isValid = 1 \/ e.isTransition = 1) -> ram[e.number]
                    [] filler = {} /\ e = Zero -> {}
                    [] OTHER -> totalDiskSpace[e.number]
  BY DEF Stored
<1>2. CASE filler # {}
  <2>1. PICK u \in filler : u = CHOOSE x \in filler : TRUE  BY <1>2
  <2>2. ram[currentFrame[u]] = Contents(p)  BY <2>1 DEF ContentsKnown, UserContents
  <2>. QED  BY <1>1, <1>2, <2>1, <2>2
<1>3. CASE filler = {} /\ ~OnDiskFormat(e)
  <2>1. PICK f \in Frames : e = Valid(f) \/ e = Transition(f)
    BY <1>3 DEF PagesRight, PageOK
  <2>2. ram[f] = Contents(p)  BY <2>1 DEF ContentsKnown, PageContents
  <2>3. (e.isValid = 1 \/ e.isTransition = 1) /\ e.number = f /\ e # Zero
    BY <2>1, Formats
  <2>4. Stored(p) = ram[e.number]
    <3>. HIDE DEF filler, e
    <3>. QED  BY <1>1, <1>3, <2>3
  <2>. QED  BY <2>2, <2>3, <2>4
<1>4. CASE filler = {} /\ OnDiskFormat(e)
  <2>1. PICK s \in DiskSlots : e = Disk(s)  BY <1>4 DEF OnDiskFormat
  <2>2. e.isValid = 0 /\ e.isTransition = 0 /\ e.number = s /\ (e = Zero <=> s = 0)
    BY <2>1, Formats
  <2>3. CASE s = 0
    <3>1. Contents(p) = {}  BY <2>2, <2>3 DEF ContentsKnown, PageContents, Contents
    <3>. HIDE DEF filler, e
    <3>. QED  BY <1>1, <1>4, <2>2, <2>3, <3>1
  <2>4. CASE s # 0
    <3>1. totalDiskSpace[s] = Contents(p)
      <4>1. CASE \E u \in Users : pc[u] = "copyIn" /\ Page(u) = p
        <5>1. PICK u \in Users : pc[u] = "copyIn" /\ Page(u) = p  BY <4>1
        <5>2. pteContents[u].number = s
          BY <2>2, <5>1 DEF PagesRight, ThreadOK, Filling
        <5>. QED  BY <5>1, <5>2 DEF ContentsKnown, UserContents
      <4>2. CASE ~ \E u \in Users : pc[u] = "copyIn" /\ Page(u) = p
        <5>1. PageOwns(p, s)  BY <1>4, <2>1, <2>4, <4>2 DEF PageOwns
        <5>. QED  BY <5>1 DEF ContentsKnown, PageContents
      <4>. QED  BY <4>1, <4>2
    <3>. HIDE DEF filler, e
    <3>. QED  BY <1>1, <1>4, <2>2, <2>4, <3>1
  <2>. QED  BY <2>3, <2>4
<1>. QED  BY <1>2, <1>3, <1>4

(***************************************************************************)
(* The program reads back of every page what it stored there, until one of *)
(* the windows is hit or a page is mapped that could not be filled.        *)
(***************************************************************************)
THEOREM PagesKeepContents == Spec => []ContentsRight
<1>1. MemoryInvariant => ContentsRight
  <2> SUFFICES ASSUME MemoryInvariant, races \subseteq {"wordTorn"}, NEW p \in Pages
               PROVE  Stored(p) = {p} \X memory[p]
    BY DEF ContentsRight
  <2>1. TypeOK /\ ControlOK /\ PagesRight /\ ContentsKnown
    BY DEF MemoryInvariant, FramesPagesSlots, FramesAndPages, PagesUntilStale, ContentsUntilRace
  <2>. QED  BY <2>1, StoredIsContents DEF Contents
<1>. QED  BY <1>1, MemoryInvariantHolds, PTL

-----------------------------------------------------------------------------
(* The refinement of PagedMemory.                                          *)

(* While the memory is exact, it stores what the program stored, and the   *)
(* page it forgot is that of a lost slot 0.                                *)
LEMMA ExactMemory ==
    MemoryInvariant /\ races \subseteq {"wordTorn"} =>
        /\ \A p \in Pages : Stored(p) = Contents(p)
        /\ (0 \in diskSlotBitmap /\ SlotOwners(0) = {}) <=> Lost(0)
<1> SUFFICES ASSUME MemoryInvariant, races \subseteq {"wordTorn"}
             PROVE  /\ \A p \in Pages : Stored(p) = Contents(p)
                    /\ (0 \in diskSlotBitmap /\ SlotOwners(0) = {}) <=> Lost(0)
  OBVIOUS
<1>1. TypeOK /\ ControlOK /\ PagesRight /\ SlotsRight /\ ContentsKnown
  BY DEF MemoryInvariant, FramesPagesSlots, FramesAndPages, PagesUntilStale, SlotsUntilStale,
     ContentsUntilRace
<1>2. \A p \in Pages : Stored(p) = Contents(p)  BY <1>1, StoredIsContents
<1>3. 0 \in DiskSlots  BY ConstantsAssumption DEF DiskSlots
<1>4. SlotOwners(0) # {} <=> SlotOwned(0)  BY <1>1, <1>3, OwnersAlike
<1>. QED  BY <1>2, <1>4 DEF Lost

(* The contents of every page and the lost slot before and after a step    *)
(* are those before and after a step of PagedMemory.                       *)
Stores == \E p \in Pages, w \in Words :
              /\ Contents(p)' = Contents(p) \cup {<<p, w>>}
              /\ \A q \in Pages : q # p => Contents(q)' = Contents(q)
              /\ Lost(0)' <=> Lost(0)

Forgets == \E p \in Pages :
               /\ Contents(p)' = {}
               /\ \A q \in Pages : q # p => Contents(q)' = Contents(q)
               /\ ~Lost(0) /\ Lost(0)'

Keeps == /\ \A p \in Pages : Contents(p)' = Contents(p)
         /\ Lost(0)' <=> Lost(0)

(* A page that loses its frame is forgotten, or all is as it was.          *)
LEMMA LosesOnePage ==
    ASSUME TypeOK, ControlOK, Owned, PagesRight, \A s \in DiskSlots : SlotOK(s), NEW u \in Users,
           NEW f \in Frames, LosesPage(f, u)
    PROVE  Forgets \/ Keeps
<1>1. /\ Lost(0)' <=> Lost(0) \/ pfnArray[f].diskIndex = 0
      /\ pfnArray[f].diskIndex = 0 => ~Lost(0)
  BY LosesOwners
<1>2. PICK v \in Pages : v = pfnArray[f].PTE  BY LosesKnown
<1>3. CASE pfnArray[f].diskIndex = 0
  <2>1. memory' = [memory EXCEPT ![v] = {}]  BY <1>2, <1>3 DEF LosesPage
  <2>2. memory'[v] = {} /\ \A q \in Pages : q # v => memory'[q] = memory[q]
    BY <2>1 DEF TypeOK, HistoryTyped
  <2>3. Contents(v)' = {} /\ \A q \in Pages : q # v => Contents(q)' = Contents(q)
    BY <2>2 DEF Contents
  <2>. QED  BY <1>1, <1>3, <2>3 DEF Forgets
<1>4. CASE pfnArray[f].diskIndex # 0
  <2>1. memory' = memory  BY <1>4 DEF LosesPage
  <2>. QED  BY <1>1, <1>4, <2>1 DEF Keeps, Contents
<1>. QED  BY <1>3, <1>4

(* What the steps of the threads are to PagedMemory.                       *)
LEMMA StepsOfMemory ==
    ASSUME MemoryInvariant, [Next]_vars, races' \subseteq {"wordTorn"}
    PROVE  Stores \/ Forgets \/ Keeps
<1>1. races \subseteq races' /\ races \subseteq {"wordTorn"}  BY RacesRemembered
<1>2. TypeOK /\ ControlOK /\ PagesRight /\ SlotsRight /\ ContentsKnown
  BY <1>1 DEF MemoryInvariant, FramesPagesSlots, FramesAndPages, PagesUntilStale,
     SlotsUntilStale, ContentsUntilRace
<1>3. 0 \in DiskSlots  BY ConstantsAssumption DEF DiskSlots
<1>4. \A s \in DiskSlots : SlotOK(s)  BY <1>2 DEF SlotsRight
<1>5. "staleFrame" \notin races' /\ "unfilled" \notin races'  OBVIOUS
<1>6. CASE UNCHANGED vars
  <2>1. SlotOwned(0)' <=> SlotOwned(0)
    BY <1>6 DEF vars, SlotOwned, PageOwns, Page, FrameOwns, HasCopy
  <2>. QED  BY <1>6, <2>1 DEF vars, Keeps, Contents, Lost
<1>7. CASE ~ UNCHANGED vars
  <2>1. /\ halted = "running"
        /\ \/ \E u \in Users : AccessStep(u) \/ ResolveStep(u) \/ Shutdown(u)
           \/ TrimStep \/ DiskStep
    BY <1>7 DEF Next, Stopped
  <2>2. Owned /\ BatchApart
    BY <2>1 DEF MemoryInvariant, FramesPagesSlots, FramesAndPages, OwnedUntilUnlink
  <2>3. ASSUME NEW u \in Users, AccessStep(u) \/ ResolveStep(u) \/ Shutdown(u)
        PROVE  Stores \/ Forgets \/ Keeps
    <3>1. ~SwapFromDiskFails(u)  BY <1>5 DEF SwapFromDiskFails
    <3>2. CASE TakeStandbySameLock(u) \/ UpdateVictim(u)
      BY <1>2, <1>4, <2>2, <3>2, TakeStandbyEffect, UpdateVictimEffect, LosesOnePage
    <3>3. CASE ~(TakeStandbySameLock(u) \/ UpdateVictim(u))
      <4>1. Lost(0)' <=> Lost(0)
        BY <1>1, <1>2, <1>3, <1>4, <1>5, <2>1, <2>2, <2>3, <3>1, <3>3, UserKeepsSlots
           DEF SlotsKept
      <4>2. CASE \E p \in Pages, w \in Words : Store(u, p, w)
        <5>1. PICK p \in Pages, w \in Words : Store(u, p, w)  BY <4>2
        <5>2. Contents(p)' = Contents(p) \cup {<<p, w>>}
          BY <1>2, <2>2, <5>1, StoreContents
        <5>3. \A q \in Pages : q # p => Contents(q)' = Contents(q)
          BY <1>2, <5>1 DEF Store, Contents, TypeOK, HistoryTyped
        <5>. QED  BY <4>1, <5>2, <5>3 DEF Stores
      <4>3. CASE ~ \E p \in Pages, w \in Words : Store(u, p, w)
        <5>1. memory' = memory
          BY <2>3, <3>1, <3>3, <4>3 DEF AccessStep, Fault, Shutdown, ResolveStep, FaultOnValid,
             ReleaseValid,
             FaultInTransition, FaultOnAbsent, RescueWritten, RescueModified, RescueStandby,
             ReleaseRescuedSlot, GetFreeFrame, StandbyEmpty, ResetFinished, RequestTrim,
             WaitFinished, TakeStandbyOtherLock, Reacquire, WipePage, SwapFromDisk, CopyFromDisk,
             MapPage
        <5>. QED  BY <4>1, <5>1 DEF Keeps, Contents
      <4>. QED  BY <4>2, <4>3
    <3>. QED  BY <3>2, <3>3
  <2>4. CASE TrimStep \/ DiskStep
    <3>1. Lost(0)' <=> Lost(0)
      BY <1>1, <1>2, <1>3, <2>1, <2>2, <2>4, OthersKeepOwners DEF SlotsKept
    <3>2. memory' = memory
      BY <2>4 DEF TrimStep, TrimWait, PopActive, UnmapBatch, FixPTE, AddModified, SignalModWrite,
         DiskStep, DiskWait, ReserveSlots, CollectModified, WritePage, PublishPage, ReadFrameWord,
         WriteFrameWord, SignalFinished
    <3>. QED  BY <3>1, <3>2 DEF Keeps, Contents
  <2>. QED  BY <2>1, <2>3, <2>4
<1>. QED  BY <1>6, <1>7

(***************************************************************************)
(* The virtual memory is the paged memory it promises: every step of its   *)
(* threads stores a word, forgets the one page whose copy was in slot 0,   *)
(* loses exactness to a window or to a page that was not filled, or is not *)
(* seen by the program.                                                    *)
(***************************************************************************)
THEOREM RefinesPagedMemory == Spec => ImplementsPagedMemory
<1> DEFINE stored == [p \in Pages |-> Stored(p)]
           forgot == 0 \in diskSlotBitmap /\ SlotOwners(0) = {}
           still  == races \subseteq {"wordTorn"}
<1>1. Init => PM!Init
  <2> SUFFICES ASSUME Init  PROVE PM!Init
    OBVIOUS
  <2>1. \A p \in Pages : Stored(p) = {}
    <3> TAKE p \in Pages
    <3>1. pageTable[p] = Zero /\ \A u \in Users : pc[u] # "map"  BY DEF Init
    <3>. QED  BY <3>1, Formats DEF Stored
  <2>2. diskSlotBitmap = {} /\ races = {}  BY DEF Init
  <2>. QED  BY <2>1, <2>2 DEF PM!Init
<1>2. MemoryInvariant /\ MemoryInvariant' /\ [Next]_vars => [PM!Next]_(PM!pagedVars)
  <2> SUFFICES ASSUME MemoryInvariant, MemoryInvariant', [Next]_vars
               PROVE  [PM!Next]_(PM!pagedVars)
    OBVIOUS
  <2>1. CASE ~(races' \subseteq {"wordTorn"})
    BY <2>1 DEF PM!Next, PM!LoseExactness
  <2>2. CASE races' \subseteq {"wordTorn"}
    <3>1. races \subseteq {"wordTorn"}  BY <2>2, RacesRemembered
    <3>2. (\A p \in Pages : Stored(p) = Contents(p)) /\ (forgot <=> Lost(0))
      BY <3>1, ExactMemory
    <3>3. (MemoryInvariant /\ races \subseteq {"wordTorn"} =>
               (\A p \in Pages : Stored(p) = Contents(p)) /\ (forgot <=> Lost(0)))'
      BY ExactMemory, PTL
    <3>4. (\A p \in Pages : Stored(p)' = Contents(p)') /\ (forgot' <=> Lost(0)')
      BY <2>2, <3>3
    <3>5. still /\ still'  BY <2>2, <3>1
    <3>6. Stores \/ Forgets \/ Keeps  BY <2>2, StepsOfMemory
    <3>. HIDE DEF forgot, still
    <3>7. CASE Stores
      <4>1. PICK p \in Pages, w \in Words :
                   /\ Contents(p)' = Contents(p) \cup {<<p, w>>}
                   /\ \A q \in Pages : q # p => Contents(q)' = Contents(q)
                   /\ Lost(0)' <=> Lost(0)
        BY <3>7 DEF Stores
      <4>2. stored' = [stored EXCEPT ![p] = @ \cup {<<p, w>>}]
        BY <3>2, <3>4, <4>1
      <4>3. forgot' = forgot /\ still' = still  BY <3>2, <3>4, <3>5, <4>1 DEF forgot, still
      <4>4. PM!Store(p, w)  BY <3>5, <4>2, <4>3 DEF PM!Store, forgot, still
      <4>. QED  BY <4>4 DEF PM!Next
    <3>8. CASE Forgets
      <4>1. PICK p \in Pages :
                   /\ Contents(p)' = {}
                   /\ \A q \in Pages : q # p => Contents(q)' = Contents(q)
                   /\ ~Lost(0) /\ Lost(0)'
        BY <3>8 DEF Forgets
      <4>2. stored' = [stored EXCEPT ![p] = {}]  BY <3>2, <3>4, <4>1
      <4>3. ~forgot /\ (forgot' = TRUE) /\ still' = still
        BY <3>2, <3>4, <3>5, <4>1 DEF forgot, still
      <4>4. PM!Forget(p)  BY <3>5, <4>2, <4>3 DEF PM!Forget, forgot, still
      <4>. QED  BY <4>4 DEF PM!Next
    <3>9. CASE Keeps
      <4>1. stored' = stored  BY <3>2, <3>4, <3>9 DEF Keeps
      <4>2. forgot' = forgot /\ still' = still
        BY <3>2, <3>4, <3>5, <3>9 DEF Keeps, forgot, still
      <4>. QED  BY <4>1, <4>2 DEF PM!pagedVars, forgot, still
    <3>. QED  BY <3>6, <3>7, <3>8, <3>9
  <2>. QED  BY <2>1, <2>2
<1>. QED  BY <1>1, <1>2, MemoryInvariantHolds, PTL DEF Spec, ImplementsPagedMemory, PM!Spec
====
