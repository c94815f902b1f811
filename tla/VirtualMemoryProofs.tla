------------------------ MODULE VirtualMemoryProofs ------------------------
(***************************************************************************)
(* What the threads and the tables agree on, and where the frames are, for *)
(* any users, pages, regions, frames, slots and batch size.                *)
(*                                                                         *)
(* The first part proves TypeOK and ControlOK.  Neither is inductive       *)
(* without the other: a PTE is given a frame's number only because the     *)
(* thread that maps the page has a frame, and a thread has a frame only    *)
(* because lists and PTEs hold frames.  There is one lemma per action,     *)
(* with one step per part of the invariant the action can disturb;         *)
(* TypeInductive puts them together.                                       *)
(*                                                                         *)
(* The second part (Frames, below) proves FrameInOnePlace and that the     *)
(* threads ask of the lists only what FrameQueues allows.                  *)
(***************************************************************************)
EXTENDS VirtualMemoryProperties, FrameListProofs, FiniteSetTheorems

USE DEF tables, storage, lists, userVars, trimVars, diskVars, otherThreads, counters, history

-----------------------------------------------------------------------------
(* Frames and slots are numbers, of which None is none.                    *)
LEMMA ConstantProperties ==
    /\ Frames \subseteq Nat /\ None \notin Frames /\ None \notin Nat
    /\ None \notin Pages /\ None \notin Users /\ None \notin Addresses
    /\ DiskSlots \subseteq Nat /\ IsFiniteSet(DiskSlots)
    /\ InvalidDiskSlot \in Nat
<1>1. Frames \subseteq Nat
  BY ConstantsAssumption, ElementOfSeq DEF Frames
<1>2. IsFiniteSet(DiskSlots)
  <2>1. NumberOfDiskSlots - 1 \in Int  BY ConstantsAssumption
  <2>. QED  BY <2>1, FS_Interval DEF DiskSlots
<1>3. DiskSlots \subseteq Nat  BY ConstantsAssumption DEF DiskSlots
<1>. QED  BY <1>1, <1>2, <1>3, ConstantsAssumption

(* What the list operations and threads do to a frame keeps it a frame.    *)
LEMMA FrameFields ==
    ASSUME NEW frame \in FrameRecords
    PROVE  /\ OnModified(frame) \in FrameRecords /\ OnStandby(frame) \in FrameRecords
           /\ OffModified(frame) \in FrameRecords /\ OffStandby(frame) \in FrameRecords
           /\ MarkWritten(frame) \in FrameRecords /\ UnmarkWritten(frame) \in FrameRecords
           /\ \A s \in Nat : OnDisk(frame, s) \in FrameRecords
           /\ \A p \in Pages : OwnedBy(frame, p) \in FrameRecords
BY DEF FrameRecords, OnModified, OnStandby, OffModified, OffStandby, MarkWritten,
       UnmarkWritten, OnDisk, OwnedBy

(* Of those operations, only MarkWritten marks a frame as being written.   *)
LEMMA FrameMarks ==
    ASSUME NEW frame \in FrameRecords
    PROVE  /\ OnModified(frame).isBeingWritten = frame.isBeingWritten
           /\ OnStandby(frame).isBeingWritten = frame.isBeingWritten
           /\ OffModified(frame).isBeingWritten = frame.isBeingWritten
           /\ OffStandby(frame).isBeingWritten = frame.isBeingWritten
           /\ UnmarkWritten(frame).isBeingWritten = FALSE
           /\ \A s \in Nat : OnDisk(frame, s).isBeingWritten = frame.isBeingWritten
           /\ \A p \in Pages : OwnedBy(frame, p).isBeingWritten = frame.isBeingWritten
BY DEF FrameRecords, OnModified, OnStandby, OffModified, OffStandby, MarkWritten,
       UnmarkWritten, OnDisk, OwnedBy

(* A step that marks no frame and is not the disk thread's keeps its       *)
(* control.                                                                *)
LEMMA MarksKept ==
    ASSUME TypeOK, ControlOK, UNCHANGED diskVars,
           \A f \in Frames : pfnArray'[f].isBeingWritten => pfnArray[f].isBeingWritten
    PROVE  DiskControlled'
<1>1. diskPC \in {"readWord", "writeWord"} => swapFrames[1] \in Frames
  BY PopFirstProperties DEF TypeOK, DiskTyped, ControlOK, DiskControlled
<1>. QED  BY <1>1 DEF ControlOK, DiskControlled

(* The formats of a PTE, and what the numbers in them are.                 *)
LEMMA PTEFormats ==
    /\ Zero \in PTEs
    /\ \A f \in Frames : Valid(f) \in PTEs /\ Transition(f) \in PTEs
    /\ \A n \in Nat : Disk(n) \in PTEs
    /\ \A e \in PTEs :
           /\ e.number \in Nat
           /\ e.isValid = 1 \/ e.isTransition = 1 => e.number \in Frames
<1>1. Frames \subseteq Nat  BY ConstantProperties
<1>. QED  BY <1>1 DEF Zero, Valid, Transition, Disk, PTE, PTEs

(* A thread in the middle of a fault has the page it faulted on.           *)
LEMMA WorksOnPage ==
    ASSUME TypeOK, ControlOK, NEW u \in Users, pc[u] \notin {"access", "done"}
    PROVE  va[u] # None /\ Page(u) \in Pages
<1>1. va[u] \in Addresses
  BY DEF TypeOK, UsersTyped, ControlOK, UsersControlled
<1>. QED  BY <1>1, ConstantProperties DEF Page, Addresses

(* A thread at a step that uses a frame has one.                           *)
LEMMA WorksOnFrame ==
    ASSUME TypeOK, ControlOK, NEW u \in Users, pc[u] \in NeedsFrame
    PROVE  currentFrame[u] \in Frames
BY DEF TypeOK, UsersTyped, ControlOK, UsersControlled

-----------------------------------------------------------------------------
(* The user threads.                                                       *)

(* A store keeps the types and the control.                                *)
LEMMA StoreTyped ==
    ASSUME TypeOK, ControlOK, halted = "running", NEW u \in Users, NEW p \in Pages, NEW w \in Words,
           Store(u, p, w)
    PROVE  TypeOK' /\ ControlOK'
<1>1. PagesTyped' /\ FramesTyped' /\ ListsTyped' /\ SyncTyped' /\ TrimTyped' /\ DiskTyped'
  BY DEF TypeOK, PagesTyped, FramesTyped, ListsTyped, SyncTyped, TrimTyped, DiskTyped, Store
<1>2. TrimControlled' /\ DiskControlled' /\ CountControlled'
  BY DEF ControlOK, TrimControlled, DiskControlled, CountControlled, Store
<1>3. StorageTyped'
  BY ConstantsAssumption
     DEF TypeOK, StorageTyped, PagesTyped, FramesTyped, UsersTyped, Store,
         Accesses, WithWord, Addresses, PTEs
<1>4. UsersTyped'
  BY ConstantsAssumption
     DEF TypeOK, PagesTyped, ListsTyped, UsersTyped, Store, Accesses, WithWord,
         Addresses, UserPCs, PTEs
<1>5. HistoryTyped'
  BY ConstantsAssumption
     DEF TypeOK, UsersTyped, HistoryTyped, Store, Accesses, WithWord, Addresses
<1>6. UsersControlled'
  BY ConstantsAssumption
     DEF TypeOK, ControlOK, PagesTyped, FramesTyped, SyncTyped, ListsTyped,
         UsersTyped, UsersControlled, Store, Accesses, WithWord, Addresses,
         UserPCs, NeedsFrame, Holding, PTEs
<1>. QED  BY <1>1, <1>2, <1>3, <1>4, <1>5, <1>6 DEF TypeOK, ControlOK

(* A faulting access keeps the types and the control.                      *)
LEMMA FaultTyped ==
    ASSUME TypeOK, ControlOK, halted = "running", NEW u \in Users, NEW p \in Pages, NEW w \in Words,
           Fault(u, p, w)
    PROVE  TypeOK' /\ ControlOK'
<1>1. PagesTyped' /\ FramesTyped' /\ StorageTyped' /\ ListsTyped' /\ SyncTyped' /\ TrimTyped' /\ DiskTyped' /\ HistoryTyped'
  BY DEF TypeOK, PagesTyped, FramesTyped, StorageTyped, ListsTyped, SyncTyped, TrimTyped, DiskTyped, HistoryTyped, Fault
<1>2. TrimControlled' /\ DiskControlled'
  BY DEF ControlOK, TrimControlled, DiskControlled, Fault
<1>3. UsersTyped'
  BY ConstantsAssumption
     DEF TypeOK, PagesTyped, ListsTyped, UsersTyped, Fault, Accesses,
         Addresses, GoTo, UserPCs, PTEs
<1>4. UsersControlled'
  BY ConstantsAssumption
     DEF TypeOK, ControlOK, PagesTyped, FramesTyped, SyncTyped, ListsTyped,
         UsersTyped, UsersControlled, Fault, Accesses, Addresses, GoTo,
         UserPCs, NeedsFrame, Holding, PTEs
<1>5. CountControlled'
  BY ConstantsAssumption
     DEF TypeOK, ControlOK, UsersTyped, CountControlled, Fault, Accesses,
         Addresses, GoTo
<1>. QED  BY <1>1, <1>2, <1>3, <1>4, <1>5 DEF TypeOK, ControlOK

(* The end of a user thread keeps the types and the control.               *)
LEMMA ShutdownTyped ==
    ASSUME TypeOK, ControlOK, halted = "running", NEW u \in Users,
           Shutdown(u)
    PROVE  TypeOK' /\ ControlOK'
<1>1. PagesTyped' /\ FramesTyped' /\ StorageTyped' /\ ListsTyped' /\ HistoryTyped'
  BY DEF TypeOK, PagesTyped, FramesTyped, StorageTyped, ListsTyped, HistoryTyped, Shutdown
<1>2. SyncTyped'
  <2> DEFINE left == {v \in Users : pc[v] # "done"}
  <2>1. IsFiniteSet(left) /\ u \in left
    BY ConstantsAssumption, FS_Subset DEF Shutdown
  <2>2. Cardinality(left) \in Nat /\ Cardinality(left) > 0
    BY <2>1, FS_CardinalityType, FS_EmptySet
  <2>3. Cardinality(Users) \in Nat
    BY ConstantsAssumption, FS_CardinalityType
  <2>4. numActiveUserThreads = Cardinality(left)
    BY DEF ControlOK, CountControlled
  <2>5. numActiveUserThreads - 1 \in 0 .. Cardinality(Users)
    BY <2>2, <2>3, <2>4 DEF TypeOK, SyncTyped
  <2>. QED  BY <2>5 DEF TypeOK, SyncTyped, Shutdown
<1>3. UsersTyped'
  BY ConstantsAssumption
     DEF TypeOK, PagesTyped, ListsTyped, UsersTyped, Shutdown, GoTo, UserPCs,
         PTEs
<1>4. TrimTyped'
  BY ConstantsAssumption
     DEF TypeOK, ListsTyped, TrimTyped, Shutdown, GoTo
<1>5. DiskTyped'
  BY ConstantsAssumption
     DEF TypeOK, ListsTyped, DiskTyped, Shutdown, GoTo
<1>6. UsersControlled'
  BY ConstantsAssumption
     DEF TypeOK, ControlOK, PagesTyped, FramesTyped, SyncTyped, ListsTyped,
         UsersTyped, UsersControlled, Shutdown, GoTo, UserPCs, NeedsFrame,
         Holding, PTEs
<1>7. TrimControlled'
  BY ConstantsAssumption
     DEF TypeOK, ControlOK, TrimTyped, TrimControlled, Shutdown, GoTo
<1>8. DiskControlled'
  BY ConstantsAssumption
     DEF TypeOK, ControlOK, FramesTyped, ListsTyped, DiskTyped, DiskControlled,
         Shutdown, GoTo
<1>9. CountControlled'
  <2> DEFINE left == {v \in Users : pc[v] # "done"}
  <2>1. IsFiniteSet(left) /\ u \in left
    BY ConstantsAssumption, FS_Subset DEF Shutdown
  <2>2. left' = left \ {u}
    BY DEF TypeOK, UsersTyped, Shutdown, GoTo
  <2>3. Cardinality(left') = Cardinality(left) - 1
    BY <2>1, <2>2, FS_RemoveElement
  <2>. QED  BY <2>3 DEF ControlOK, CountControlled, Shutdown
<1>. QED  BY <1>1, <1>2, <1>3, <1>4, <1>5, <1>6, <1>7, <1>8, <1>9 DEF TypeOK, ControlOK

(* Finding the fault resolved already keeps the types and the control.     *)
LEMMA FaultOnValidTyped ==
    ASSUME TypeOK, ControlOK, halted = "running", NEW u \in Users,
           FaultOnValid(u)
    PROVE  TypeOK' /\ ControlOK'
<1>1. /\ PagesTyped' /\ FramesTyped' /\ StorageTyped' /\ ListsTyped'
      /\ TrimTyped' /\ DiskTyped' /\ HistoryTyped'
  BY DEF TypeOK, PagesTyped, FramesTyped, StorageTyped, ListsTyped, TrimTyped, DiskTyped,
     HistoryTyped, FaultOnValid
<1>2. TrimControlled' /\ DiskControlled'
  BY DEF ControlOK, TrimControlled, DiskControlled, FaultOnValid
<1>3. SyncTyped'
  BY ConstantsAssumption
     DEF TypeOK, SyncTyped, UsersTyped, FaultOnValid, GoTo, AcquirePTELock
<1>4. UsersTyped'
  BY DEF TypeOK, UsersTyped, FaultOnValid, GoTo, UserPCs
<1>5. UsersControlled'
  <2>1. va[u] # None  BY WorksOnPage DEF FaultOnValid
  <2>. QED  BY <2>1 DEF TypeOK, UsersTyped, ControlOK, UsersControlled, FaultOnValid, GoTo,
                        NeedsFrame, Holding
<1>6. CountControlled'
  BY DEF TypeOK, ControlOK, UsersTyped, CountControlled, FaultOnValid, GoTo
<1>. QED  BY <1>1, <1>2, <1>3, <1>4, <1>5, <1>6 DEF TypeOK, ControlOK

(* Releasing the lock of a valid PTE keeps the types and the control.      *)
LEMMA ReleaseValidTyped ==
    ASSUME TypeOK, ControlOK, halted = "running", NEW u \in Users,
           ReleaseValid(u)
    PROVE  TypeOK' /\ ControlOK'
<1>1. /\ PagesTyped' /\ FramesTyped' /\ StorageTyped' /\ ListsTyped'
      /\ TrimTyped' /\ DiskTyped' /\ HistoryTyped'
  BY DEF TypeOK, PagesTyped, FramesTyped, StorageTyped, ListsTyped, TrimTyped, DiskTyped,
     HistoryTyped, ReleaseValid
<1>2. TrimControlled' /\ DiskControlled'
  BY DEF ControlOK, TrimControlled, DiskControlled, ReleaseValid
<1>3. SyncTyped'
  BY ConstantsAssumption
     DEF TypeOK, SyncTyped, UsersTyped, ReleaseValid, GoTo, ReleasePTELock
<1>4. UsersTyped'
  BY DEF TypeOK, UsersTyped, ReleaseValid, GoTo, UserPCs
<1>5. UsersControlled'
  <2>1. va[u] # None  BY WorksOnPage DEF ReleaseValid
  <2>. QED  BY <2>1 DEF TypeOK, UsersTyped, ControlOK, UsersControlled, ReleaseValid, GoTo,
                        NeedsFrame, Holding
<1>6. CountControlled'
  BY DEF TypeOK, ControlOK, UsersTyped, CountControlled, ReleaseValid, GoTo
<1>. QED  BY <1>1, <1>2, <1>3, <1>4, <1>5, <1>6 DEF TypeOK, ControlOK

(* Finding the page in transition keeps the types and the control.         *)
LEMMA FaultInTransitionTyped ==
    ASSUME TypeOK, ControlOK, halted = "running", NEW u \in Users,
           FaultInTransition(u)
    PROVE  TypeOK' /\ ControlOK'
<1>1. PagesTyped' /\ FramesTyped' /\ StorageTyped' /\ ListsTyped' /\ TrimTyped' /\ DiskTyped' /\ HistoryTyped'
  BY DEF TypeOK, PagesTyped, FramesTyped, StorageTyped, ListsTyped, TrimTyped, DiskTyped, HistoryTyped, FaultInTransition
<1>2. TrimControlled' /\ DiskControlled'
  BY DEF ControlOK, TrimControlled, DiskControlled, FaultInTransition
<1>3. SyncTyped'
  BY ConstantsAssumption
     DEF TypeOK, SyncTyped, UsersTyped, FaultInTransition, GoTo, AcquirePTELock
<1>4. UsersTyped'
  <2>1. Page(u) \in Pages
    BY WorksOnPage DEF FaultInTransition
  <2>2. pageTable[Page(u)].number \in Frames
    BY <2>1, PTEFormats DEF TypeOK, PagesTyped, FaultInTransition
  <2>. QED  BY <2>2 DEF TypeOK, UsersTyped, FaultInTransition, GoTo, UserPCs
<1>5. UsersControlled'
  <2>1. Page(u) \in Pages /\ va[u] # None
    BY WorksOnPage DEF FaultInTransition
  <2>2. pageTable[Page(u)].number # None
    BY <2>1, PTEFormats, ConstantProperties DEF TypeOK, PagesTyped, FaultInTransition
  <2>. QED  BY <2>1, <2>2 DEF TypeOK, UsersTyped, ControlOK, UsersControlled, FaultInTransition,
                              GoTo, NeedsFrame
<1>6. CountControlled'
  BY ConstantsAssumption
     DEF TypeOK, ControlOK, UsersTyped, CountControlled, FaultInTransition,
         GoTo, AcquirePTELock
<1>. QED  BY <1>1, <1>2, <1>3, <1>4, <1>5, <1>6 DEF TypeOK, ControlOK

(* Finding the page without a frame keeps the types and the control.       *)
LEMMA FaultOnAbsentTyped ==
    ASSUME TypeOK, ControlOK, halted = "running", NEW u \in Users,
           FaultOnAbsent(u)
    PROVE  TypeOK' /\ ControlOK'
<1>1. PagesTyped' /\ FramesTyped' /\ StorageTyped' /\ ListsTyped' /\ TrimTyped' /\ DiskTyped' /\ HistoryTyped'
  BY DEF TypeOK, PagesTyped, FramesTyped, StorageTyped, ListsTyped, TrimTyped, DiskTyped, HistoryTyped, FaultOnAbsent
<1>2. TrimControlled' /\ DiskControlled'
  BY DEF ControlOK, TrimControlled, DiskControlled, FaultOnAbsent
<1>3. SyncTyped'
  BY ConstantsAssumption
     DEF TypeOK, SyncTyped, UsersTyped, FaultOnAbsent, GoTo, AcquirePTELock,
         Page
<1>4. UsersTyped'
  <2>1. Page(u) \in Pages
    BY WorksOnPage DEF FaultOnAbsent
  <2>2. pageTable[Page(u)] \in PTEs
    BY <2>1 DEF TypeOK, PagesTyped
  <2>. QED  BY <2>2 DEF TypeOK, UsersTyped, FaultOnAbsent, GoTo, UserPCs
<1>5. UsersControlled'
  BY ConstantsAssumption
     DEF TypeOK, ControlOK, PagesTyped, FramesTyped, SyncTyped, ListsTyped,
         UsersTyped, UsersControlled, FaultOnAbsent, GoTo, AcquirePTELock,
         Page, UserPCs, NeedsFrame, Holding, PTEs
<1>6. CountControlled'
  BY ConstantsAssumption
     DEF TypeOK, ControlOK, UsersTyped, CountControlled, FaultOnAbsent, GoTo,
         AcquirePTELock, Page
<1>. QED  BY <1>1, <1>2, <1>3, <1>4, <1>5, <1>6 DEF TypeOK, ControlOK

(* Taking a frame back from the disk thread keeps the types and the        *)
(* control.                                                                *)
LEMMA RescueWrittenTyped ==
    ASSUME TypeOK, ControlOK, halted = "running", NEW u \in Users,
           RescueWritten(u)
    PROVE  TypeOK' /\ ControlOK'
<1>1. PagesTyped' /\ StorageTyped' /\ ListsTyped' /\ SyncTyped' /\ TrimTyped' /\ DiskTyped' /\ HistoryTyped'
  BY DEF TypeOK, PagesTyped, StorageTyped, ListsTyped, SyncTyped, TrimTyped, DiskTyped, HistoryTyped, RescueWritten
<1>2. TrimControlled'
  BY DEF ControlOK, TrimControlled, RescueWritten
<1>3. FramesTyped'
  <2>1. \A f \in Frames : UnmarkWritten(pfnArray[f]) \in FrameRecords
    BY FrameFields DEF TypeOK, FramesTyped
  <2>. QED  BY <2>1 DEF TypeOK, FramesTyped, RescueWritten
<1>4. UsersTyped'
  BY ConstantsAssumption
     DEF TypeOK, PagesTyped, ListsTyped, UsersTyped, RescueWritten, GoTo,
         UserPCs, PTEs
<1>5. UsersControlled'
  <2>1. \A v \in Users : v # u => pc'[v] = pc[v]
    BY DEF TypeOK, UsersTyped, RescueWritten, GoTo
  <2>2. va[u] # None /\ currentFrame[u] # None /\ pc'[u] \in {"map", "checkModified"}
    BY DEF TypeOK, UsersTyped, ControlOK, UsersControlled, RescueWritten, GoTo, NeedsFrame
  <2>. QED  BY <2>1, <2>2 DEF ControlOK, UsersControlled, RescueWritten
<1>6. DiskControlled'
  <2>1. \A f \in Frames : UnmarkWritten(pfnArray[f]).isBeingWritten => pfnArray[f].isBeingWritten
    BY FrameFields, FrameMarks DEF TypeOK, FramesTyped
  <2>2. \A f \in Frames : pfnArray'[f].isBeingWritten => pfnArray[f].isBeingWritten
    BY <2>1 DEF TypeOK, FramesTyped, RescueWritten
  <2>. QED  BY <2>2, MarksKept DEF RescueWritten
<1>7. CountControlled'
  BY ConstantsAssumption
     DEF TypeOK, ControlOK, UsersTyped, CountControlled, RescueWritten, GoTo
<1>. QED  BY <1>1, <1>2, <1>3, <1>4, <1>5, <1>6, <1>7 DEF TypeOK, ControlOK

(* Rescuing from the modified list keeps the types and the control.        *)
LEMMA RescueModifiedTyped ==
    ASSUME TypeOK, ControlOK, halted = "running", NEW u \in Users,
           RescueModified(u)
    PROVE  TypeOK' /\ ControlOK'
<1>1. PagesTyped' /\ StorageTyped' /\ TrimTyped' /\ DiskTyped' /\ HistoryTyped'
  BY DEF TypeOK, PagesTyped, StorageTyped, TrimTyped, DiskTyped, HistoryTyped, RescueModified
<1>2. TrimControlled'
  BY DEF ControlOK, TrimControlled, RescueModified
<1>3. FramesTyped'
  <2>1. \A f \in Frames : OffModified(pfnArray[f]) \in FrameRecords
    BY FrameFields DEF TypeOK, FramesTyped
  <2>. QED  BY <2>1 DEF TypeOK, FramesTyped, RescueModified
<1>4. ListsTyped'
  <2>1. \A f : RemoveFromFrameList(modifiedList, f) \in Seq(Frames)
    BY RemoveFromFrameListProperties DEF TypeOK, ListsTyped
  <2>. QED  BY <2>1 DEF TypeOK, ListsTyped, RescueModified
<1>5. SyncTyped'
  BY ConstantsAssumption
     DEF TypeOK, SyncTyped, UsersTyped, RescueModified, GoTo
<1>6. UsersTyped'
  BY ConstantsAssumption
     DEF TypeOK, PagesTyped, ListsTyped, UsersTyped, RescueModified, GoTo,
         UserPCs, PTEs
<1>7. UsersControlled'
  <2>1. \A v \in Users : v # u => pc'[v] = pc[v] /\ currentFrame'[v] = currentFrame[v]
    BY DEF TypeOK, UsersTyped, RescueModified, GoTo
  <2>2. va[u] # None /\ currentFrame[u] # None /\ va' = va /\ pteContents' = pteContents
    BY DEF ControlOK, UsersControlled, RescueModified, NeedsFrame
  <2>3. \/ pc'[u] = "access"
        \/ pc'[u] \in {"map", "checkStandby"} /\ currentFrame' = currentFrame
    BY DEF TypeOK, UsersTyped, RescueModified, GoTo
  <2>. QED  BY <2>1, <2>2, <2>3 DEF ControlOK, UsersControlled, NeedsFrame, Holding
<1>8. DiskControlled'
  <2>1. \A f \in Frames : OffModified(pfnArray[f]).isBeingWritten => pfnArray[f].isBeingWritten
    BY FrameFields, FrameMarks DEF TypeOK, FramesTyped
  <2>2. \A f \in Frames : pfnArray'[f].isBeingWritten => pfnArray[f].isBeingWritten
    BY <2>1 DEF TypeOK, FramesTyped, RescueModified
  <2>. QED  BY <2>2, MarksKept DEF RescueModified
<1>9. CountControlled'
  BY ConstantsAssumption
     DEF TypeOK, ControlOK, UsersTyped, CountControlled, RescueModified, GoTo
<1>. QED  BY <1>1, <1>2, <1>3, <1>4, <1>5, <1>6, <1>7, <1>8, <1>9 DEF TypeOK, ControlOK

(* Rescuing from the standby list keeps the types and the control.         *)
LEMMA RescueStandbyTyped ==
    ASSUME TypeOK, ControlOK, halted = "running", NEW u \in Users,
           RescueStandby(u)
    PROVE  TypeOK' /\ ControlOK'
<1>1. PagesTyped' /\ StorageTyped' /\ TrimTyped' /\ DiskTyped' /\ HistoryTyped'
  BY DEF TypeOK, PagesTyped, StorageTyped, TrimTyped, DiskTyped, HistoryTyped, RescueStandby
<1>2. TrimControlled'
  BY DEF ControlOK, TrimControlled, RescueStandby
<1>3. FramesTyped'
  <2>1. \A f \in Frames : OffStandby(pfnArray[f]) \in FrameRecords
    BY FrameFields DEF TypeOK, FramesTyped
  <2>. QED  BY <2>1 DEF TypeOK, FramesTyped, RescueStandby
<1>4. ListsTyped'
  <2>1. \A f : RemoveFromFrameList(standbyList, f) \in Seq(Frames)
    BY RemoveFromFrameListProperties DEF TypeOK, ListsTyped
  <2>. QED  BY <2>1 DEF TypeOK, ListsTyped, RescueStandby
<1>5. SyncTyped'
  BY ConstantsAssumption
     DEF TypeOK, SyncTyped, UsersTyped, RescueStandby, GoTo, ReleasePTELock
<1>6. UsersTyped'
  BY ConstantsAssumption
     DEF TypeOK, PagesTyped, ListsTyped, UsersTyped, RescueStandby, GoTo,
         ReleasePTELock, UserPCs, PTEs
<1>7. UsersControlled'
  <2>1. \A v \in Users : v # u => pc'[v] = pc[v] /\ currentFrame'[v] = currentFrame[v]
    BY DEF TypeOK, UsersTyped, RescueStandby, GoTo
  <2>2. va[u] # None /\ currentFrame[u] # None /\ va' = va /\ pteContents' = pteContents
    BY DEF ControlOK, UsersControlled, RescueStandby, NeedsFrame
  <2>3. \/ pc'[u] = "access"
        \/ pc'[u] \in {"map", "releaseSlot"} /\ currentFrame' = currentFrame
    BY DEF TypeOK, UsersTyped, RescueStandby, GoTo
  <2>. QED  BY <2>1, <2>2, <2>3 DEF ControlOK, UsersControlled, NeedsFrame, Holding
<1>8. DiskControlled'
  <2>1. \A f \in Frames : OffStandby(pfnArray[f]).isBeingWritten => pfnArray[f].isBeingWritten
    BY FrameFields, FrameMarks DEF TypeOK, FramesTyped
  <2>2. \A f \in Frames : pfnArray'[f].isBeingWritten => pfnArray[f].isBeingWritten
    BY <2>1 DEF TypeOK, FramesTyped, RescueStandby
  <2>. QED  BY <2>2, MarksKept DEF RescueStandby
<1>9. CountControlled'
  BY ConstantsAssumption
     DEF TypeOK, ControlOK, UsersTyped, CountControlled, RescueStandby, GoTo,
         ReleasePTELock
<1>. QED  BY <1>1, <1>2, <1>3, <1>4, <1>5, <1>6, <1>7, <1>8, <1>9 DEF TypeOK, ControlOK

(* Releasing a rescued frame's slot keeps the types and the control.       *)
LEMMA ReleaseRescuedSlotTyped ==
    ASSUME TypeOK, ControlOK, halted = "running", NEW u \in Users,
           ReleaseRescuedSlot(u)
    PROVE  TypeOK' /\ ControlOK'
<1>1. PagesTyped' /\ ListsTyped' /\ TrimTyped' /\ DiskTyped' /\ HistoryTyped'
  BY DEF TypeOK, PagesTyped, ListsTyped, TrimTyped, DiskTyped, HistoryTyped, ReleaseRescuedSlot
<1>2. TrimControlled'
  BY DEF ControlOK, TrimControlled, ReleaseRescuedSlot
<1>3. FramesTyped'
  <2>1. \A f \in Frames : OnDisk(pfnArray[f], InvalidDiskSlot) \in FrameRecords
    BY FrameFields, ConstantProperties DEF TypeOK, FramesTyped
  <2>. QED  BY <2>1 DEF TypeOK, FramesTyped, ReleaseRescuedSlot
<1>4. StorageTyped'
  BY ConstantsAssumption
     DEF TypeOK, StorageTyped, PagesTyped, FramesTyped, UsersTyped,
         ReleaseRescuedSlot, GoTo, ReleaseDiskSlots, DebugAssert, PTEs
<1>5. SyncTyped'
  BY ConstantsAssumption
     DEF TypeOK, SyncTyped, UsersTyped, ReleaseRescuedSlot, GoTo,
         ReleaseDiskSlots, DebugAssert
<1>6. UsersTyped'
  BY ConstantsAssumption
     DEF TypeOK, PagesTyped, ListsTyped, UsersTyped, ReleaseRescuedSlot, GoTo,
         ReleaseDiskSlots, DebugAssert, UserPCs, PTEs
<1>7. UsersControlled'
  BY ConstantsAssumption
     DEF TypeOK, ControlOK, PagesTyped, FramesTyped, SyncTyped, ListsTyped,
         UsersTyped, UsersControlled, ReleaseRescuedSlot, GoTo,
         ReleaseDiskSlots, DebugAssert, UserPCs, NeedsFrame, Holding, PTEs
<1>8. DiskControlled'
  <2>0. InvalidDiskSlot \in Nat
    BY ConstantProperties
  <2>1. \A f \in Frames :
           OnDisk(pfnArray[f], InvalidDiskSlot).isBeingWritten = pfnArray[f].isBeingWritten
    <3> TAKE f \in Frames
    <3>1. pfnArray[f] \in FrameRecords  BY DEF TypeOK, FramesTyped
    <3>. QED  BY <2>0, <3>1, FrameMarks
  <2>2. \A f \in Frames : pfnArray'[f].isBeingWritten => pfnArray[f].isBeingWritten
    BY <2>1 DEF TypeOK, FramesTyped, ReleaseRescuedSlot
  <2>. QED  BY <2>2, MarksKept DEF ReleaseRescuedSlot
<1>9. CountControlled'
  BY ConstantsAssumption
     DEF TypeOK, ControlOK, UsersTyped, CountControlled, ReleaseRescuedSlot,
         GoTo, ReleaseDiskSlots, DebugAssert
<1>. QED  BY <1>1, <1>2, <1>3, <1>4, <1>5, <1>6, <1>7, <1>8, <1>9 DEF TypeOK, ControlOK

(* getFreeFrame keeps the types and the control.                           *)
LEMMA GetFreeFrameTyped ==
    ASSUME TypeOK, ControlOK, halted = "running", NEW u \in Users,
           GetFreeFrame(u)
    PROVE  TypeOK' /\ ControlOK'
<1>1. PagesTyped' /\ FramesTyped' /\ StorageTyped' /\ SyncTyped' /\ TrimTyped' /\ DiskTyped' /\ HistoryTyped'
  BY DEF TypeOK, PagesTyped, FramesTyped, StorageTyped, SyncTyped, TrimTyped, DiskTyped, HistoryTyped, GetFreeFrame
<1>2. TrimControlled' /\ DiskControlled'
  BY DEF ControlOK, TrimControlled, DiskControlled, GetFreeFrame
<1>3. ListsTyped'
  <2>1. freeList # <<>> => AfterPop(freeList, 1) \in Seq(Frames)
    BY PopFirstProperties DEF TypeOK, ListsTyped
  <2>. QED  BY <2>1 DEF TypeOK, ListsTyped, GetFreeFrame
<1>4. UsersTyped'
  <2>1. freeList # <<>> => freeList[1] \in Frames
    BY PopFirstProperties DEF TypeOK, ListsTyped
  <2>. QED  BY <2>1 DEF TypeOK, UsersTyped, GetFreeFrame, GoTo, UserPCs
<1>5. UsersControlled'
  <2>1. freeList # <<>> => freeList[1] # None
    BY ConstantProperties, PopFirstProperties DEF TypeOK, ListsTyped
  <2>. QED  BY <2>1 DEF TypeOK, UsersTyped, ControlOK, UsersControlled, GetFreeFrame, GoTo,
                        NeedsFrame, Holding
<1>6. CountControlled'
  BY ConstantsAssumption
     DEF TypeOK, ControlOK, UsersTyped, CountControlled, GetFreeFrame, GoTo
<1>. QED  BY <1>1, <1>2, <1>3, <1>4, <1>5, <1>6 DEF TypeOK, ControlOK

(* Finding the standby list empty keeps the types and the control.         *)
LEMMA StandbyEmptyTyped ==
    ASSUME TypeOK, ControlOK, halted = "running", NEW u \in Users,
           StandbyEmpty(u)
    PROVE  TypeOK' /\ ControlOK'
<1>1. PagesTyped' /\ FramesTyped' /\ StorageTyped' /\ ListsTyped' /\ TrimTyped' /\ DiskTyped' /\ HistoryTyped'
  BY DEF TypeOK, PagesTyped, FramesTyped, StorageTyped, ListsTyped, TrimTyped, DiskTyped, HistoryTyped, StandbyEmpty
<1>2. TrimControlled' /\ DiskControlled'
  BY DEF ControlOK, TrimControlled, DiskControlled, StandbyEmpty
<1>3. SyncTyped'
  BY ConstantsAssumption
     DEF TypeOK, SyncTyped, UsersTyped, StandbyEmpty, GoTo, ReleasePTELock,
         Zero, PTE
<1>4. UsersTyped'
  BY ConstantsAssumption
     DEF TypeOK, PagesTyped, ListsTyped, UsersTyped, StandbyEmpty, GoTo,
         ReleasePTELock, Zero, PTE, UserPCs, PTEs
<1>5. UsersControlled'
  BY ConstantsAssumption
     DEF TypeOK, ControlOK, PagesTyped, FramesTyped, SyncTyped, ListsTyped,
         UsersTyped, UsersControlled, StandbyEmpty, GoTo, ReleasePTELock, Zero,
         PTE, UserPCs, NeedsFrame, Holding, PTEs
<1>6. CountControlled'
  BY ConstantsAssumption
     DEF TypeOK, ControlOK, UsersTyped, CountControlled, StandbyEmpty, GoTo,
         ReleasePTELock, Zero, PTE
<1>. QED  BY <1>1, <1>2, <1>3, <1>4, <1>5, <1>6 DEF TypeOK, ControlOK

(* Resetting the finished event keeps the types and the control.           *)
LEMMA ResetFinishedTyped ==
    ASSUME TypeOK, ControlOK, halted = "running", NEW u \in Users,
           ResetFinished(u)
    PROVE  TypeOK' /\ ControlOK'
<1>1. PagesTyped' /\ FramesTyped' /\ StorageTyped' /\ ListsTyped' /\ TrimTyped' /\ DiskTyped' /\ HistoryTyped'
  BY DEF TypeOK, PagesTyped, FramesTyped, StorageTyped, ListsTyped, TrimTyped, DiskTyped, HistoryTyped, ResetFinished
<1>2. TrimControlled' /\ DiskControlled'
  BY DEF ControlOK, TrimControlled, DiskControlled, ResetFinished
<1>3. SyncTyped'
  BY ConstantsAssumption
     DEF TypeOK, SyncTyped, UsersTyped, ResetFinished, GoTo
<1>4. UsersTyped'
  BY ConstantsAssumption
     DEF TypeOK, PagesTyped, ListsTyped, UsersTyped, ResetFinished, GoTo,
         UserPCs, PTEs
<1>5. UsersControlled'
  BY ConstantsAssumption
     DEF TypeOK, ControlOK, PagesTyped, FramesTyped, SyncTyped, ListsTyped,
         UsersTyped, UsersControlled, ResetFinished, GoTo, UserPCs, NeedsFrame,
         Holding, PTEs
<1>6. CountControlled'
  BY ConstantsAssumption
     DEF TypeOK, ControlOK, UsersTyped, CountControlled, ResetFinished, GoTo
<1>. QED  BY <1>1, <1>2, <1>3, <1>4, <1>5, <1>6 DEF TypeOK, ControlOK

(* Waking the trim thread keeps the types and the control.                 *)
LEMMA RequestTrimTyped ==
    ASSUME TypeOK, ControlOK, halted = "running", NEW u \in Users,
           RequestTrim(u)
    PROVE  TypeOK' /\ ControlOK'
<1>1. PagesTyped' /\ FramesTyped' /\ StorageTyped' /\ ListsTyped' /\ DiskTyped' /\ HistoryTyped'
  BY DEF TypeOK, PagesTyped, FramesTyped, StorageTyped, ListsTyped, DiskTyped, HistoryTyped, RequestTrim
<1>2. DiskControlled'
  BY DEF ControlOK, DiskControlled, RequestTrim
<1>3. SyncTyped'
  <2>. QED  BY DEF TypeOK, SyncTyped, RequestTrim, SetTrimEvent
<1>4. UsersTyped'
  BY ConstantsAssumption
     DEF TypeOK, PagesTyped, ListsTyped, UsersTyped, RequestTrim, GoTo,
         SetTrimEvent, UserPCs, PTEs
<1>5. TrimTyped'
  BY ConstantsAssumption
     DEF TypeOK, ListsTyped, TrimTyped, RequestTrim, GoTo, SetTrimEvent
<1>6. UsersControlled'
  BY ConstantsAssumption
     DEF TypeOK, ControlOK, PagesTyped, FramesTyped, SyncTyped, ListsTyped,
         UsersTyped, UsersControlled, RequestTrim, GoTo, SetTrimEvent, UserPCs,
         NeedsFrame, Holding, PTEs
<1>7. TrimControlled'
  BY ConstantsAssumption
     DEF TypeOK, ControlOK, TrimTyped, TrimControlled, RequestTrim, GoTo,
         SetTrimEvent
<1>8. CountControlled'
  BY ConstantsAssumption
     DEF TypeOK, ControlOK, UsersTyped, CountControlled, RequestTrim, GoTo,
         SetTrimEvent
<1>. QED  BY <1>1, <1>2, <1>3, <1>4, <1>5, <1>6, <1>7, <1>8 DEF TypeOK, ControlOK

(* Waiting for the disk thread keeps the types and the control.            *)
LEMMA WaitFinishedTyped ==
    ASSUME TypeOK, ControlOK, halted = "running", NEW u \in Users,
           WaitFinished(u)
    PROVE  TypeOK' /\ ControlOK'
<1>1. PagesTyped' /\ FramesTyped' /\ StorageTyped' /\ ListsTyped' /\ SyncTyped' /\ TrimTyped' /\ DiskTyped' /\ HistoryTyped'
  BY DEF TypeOK, PagesTyped, FramesTyped, StorageTyped, ListsTyped, SyncTyped, TrimTyped, DiskTyped, HistoryTyped, WaitFinished
<1>2. TrimControlled' /\ DiskControlled'
  BY DEF ControlOK, TrimControlled, DiskControlled, WaitFinished
<1>3. UsersTyped'
  BY ConstantsAssumption
     DEF TypeOK, PagesTyped, ListsTyped, UsersTyped, WaitFinished, GoTo,
         AfterWait, UserPCs, PTEs
<1>4. UsersControlled'
  BY ConstantsAssumption
     DEF TypeOK, ControlOK, PagesTyped, FramesTyped, SyncTyped, ListsTyped,
         UsersTyped, UsersControlled, WaitFinished, GoTo, AfterWait, UserPCs,
         NeedsFrame, Holding, PTEs
<1>5. CountControlled'
  BY ConstantsAssumption
     DEF TypeOK, ControlOK, UsersTyped, CountControlled, WaitFinished, GoTo,
         AfterWait
<1>. QED  BY <1>1, <1>2, <1>3, <1>4, <1>5 DEF TypeOK, ControlOK

(* Taking a standby frame whose victim is under the same lock keeps the    *)
(* types and the control.                                                  *)
LEMMA TakeStandbySameLockTyped ==
    ASSUME TypeOK, ControlOK, halted = "running", NEW u \in Users,
           TakeStandbySameLock(u)
    PROVE  TypeOK' /\ ControlOK'
<1>1. StorageTyped' /\ SyncTyped' /\ TrimTyped' /\ DiskTyped'
  BY DEF TypeOK, StorageTyped, SyncTyped, TrimTyped, DiskTyped, TakeStandbySameLock
<1>2. TrimControlled'
  BY DEF ControlOK, TrimControlled, TakeStandbySameLock
<1>3. PagesTyped'
  <2>1. standbyList[1] \in Frames
    BY PopFirstProperties DEF TypeOK, ListsTyped, TakeStandbySameLock
  <2>2. pfnArray[standbyList[1]].diskIndex \in Nat
    BY <2>1 DEF TypeOK, FramesTyped, FrameRecords
  <2>3. Disk(pfnArray[standbyList[1]].diskIndex) \in PTEs
    BY <2>2, PTEFormats
  <2>. QED  BY <2>3 DEF TypeOK, PagesTyped, TakeStandbySameLock, GiveToDisk
<1>4. FramesTyped'
  <2>1. \A f \in Frames : OnDisk(OffStandby(pfnArray[f]), InvalidDiskSlot) \in FrameRecords
    BY FrameFields, ConstantProperties DEF TypeOK, FramesTyped
  <2>. QED  BY <2>1 DEF TypeOK, FramesTyped, TakeStandbySameLock
<1>5. ListsTyped'
  <2>1. standbyList # <<>> => AfterPop(standbyList, 1) \in Seq(Frames)
    BY PopFirstProperties DEF TypeOK, ListsTyped
  <2>. QED  BY <2>1 DEF TypeOK, ListsTyped, TakeStandbySameLock
<1>6. UsersTyped'
  <2>1. standbyList[1] \in Frames
    BY PopFirstProperties DEF TypeOK, ListsTyped, TakeStandbySameLock
  <2>. QED  BY <2>1 DEF TypeOK, UsersTyped, TakeStandbySameLock, GoTo, FillStep, UserPCs
<1>7. HistoryTyped'
  BY ConstantsAssumption
     DEF TypeOK, UsersTyped, HistoryTyped, TakeStandbySameLock, GoTo,
         GiveToDisk, FillStep
<1>8. UsersControlled'
  <2>1. standbyList[1] # None
    BY ConstantProperties, PopFirstProperties DEF TypeOK, ListsTyped, TakeStandbySameLock
  <2>2. \A v \in Users : v # u => pc'[v] = pc[v] /\ currentFrame'[v] = currentFrame[v]
    BY DEF TypeOK, UsersTyped, TakeStandbySameLock, GoTo
  <2>3. va[u] # None /\ currentFrame'[u] # None /\ pc'[u] # "copyIn"
    BY <2>1 DEF TypeOK, UsersTyped, ControlOK, UsersControlled, TakeStandbySameLock, GoTo, FillStep
  <2>. QED  BY <2>2, <2>3 DEF ControlOK, UsersControlled, TakeStandbySameLock
<1>9. DiskControlled'
  <2>0. InvalidDiskSlot \in Nat
    BY ConstantProperties
  <2>1. \A f \in Frames : OnDisk(OffStandby(pfnArray[f]), InvalidDiskSlot).isBeingWritten
                              = pfnArray[f].isBeingWritten
    <3> TAKE f \in Frames
    <3>1. pfnArray[f] \in FrameRecords  BY DEF TypeOK, FramesTyped
    <3>2. OffStandby(pfnArray[f]) \in FrameRecords  BY <3>1, FrameFields
    <3>3. OffStandby(pfnArray[f]).isBeingWritten = pfnArray[f].isBeingWritten
      BY <3>1, FrameMarks
    <3>. QED  BY <2>0, <3>2, <3>3, FrameMarks
  <2>2. \A f \in Frames : pfnArray'[f].isBeingWritten => pfnArray[f].isBeingWritten
    BY <2>1 DEF TypeOK, FramesTyped, TakeStandbySameLock
  <2>. QED  BY <2>2, MarksKept DEF TakeStandbySameLock
<1>10. CountControlled'
  BY ConstantsAssumption
     DEF TypeOK, ControlOK, UsersTyped, CountControlled, TakeStandbySameLock,
         GoTo, GiveToDisk, FillStep
<1>. QED  BY <1>1, <1>2, <1>3, <1>4, <1>5, <1>6, <1>7, <1>8, <1>9, <1>10 DEF TypeOK, ControlOK

(* Taking a standby frame whose victim is under another lock keeps the     *)
(* types and the control.                                                  *)
LEMMA TakeStandbyOtherLockTyped ==
    ASSUME TypeOK, ControlOK, halted = "running", NEW u \in Users,
           TakeStandbyOtherLock(u)
    PROVE  TypeOK' /\ ControlOK'
<1>1. PagesTyped' /\ StorageTyped' /\ TrimTyped' /\ DiskTyped' /\ HistoryTyped'
  BY DEF TypeOK, PagesTyped, StorageTyped, TrimTyped, DiskTyped, HistoryTyped, TakeStandbyOtherLock
<1>2. TrimControlled'
  BY DEF ControlOK, TrimControlled, TakeStandbyOtherLock
<1>3. FramesTyped'
  <2>1. \A f \in Frames : OffStandby(pfnArray[f]) \in FrameRecords
    BY FrameFields DEF TypeOK, FramesTyped
  <2>. QED  BY <2>1 DEF TypeOK, FramesTyped, TakeStandbyOtherLock
<1>4. ListsTyped'
  <2>1. standbyList # <<>> => AfterPop(standbyList, 1) \in Seq(Frames)
    BY PopFirstProperties DEF TypeOK, ListsTyped
  <2>. QED  BY <2>1 DEF TypeOK, ListsTyped, TakeStandbyOtherLock
<1>5. SyncTyped'
  BY ConstantsAssumption
     DEF TypeOK, SyncTyped, UsersTyped, TakeStandbyOtherLock, GoTo,
         ReleasePTELock, DebugAssert
<1>6. UsersTyped'
  <2>1. standbyList[1] \in Frames
    BY PopFirstProperties DEF TypeOK, ListsTyped, TakeStandbyOtherLock
  <2>. QED  BY <2>1 DEF TypeOK, UsersTyped, TakeStandbyOtherLock, GoTo, FillStep, UserPCs
<1>7. UsersControlled'
  <2>1. standbyList[1] # None
    BY ConstantProperties, PopFirstProperties DEF TypeOK, ListsTyped, TakeStandbyOtherLock
  <2>2. \A v \in Users : v # u => pc'[v] = pc[v] /\ currentFrame'[v] = currentFrame[v]
    BY DEF TypeOK, UsersTyped, TakeStandbyOtherLock, GoTo
  <2>3. va[u] # None /\ currentFrame'[u] # None /\ pc'[u] # "copyIn"
    BY <2>1 DEF TypeOK, UsersTyped, ControlOK, UsersControlled, TakeStandbyOtherLock, GoTo, FillStep
  <2>. QED  BY <2>2, <2>3 DEF ControlOK, UsersControlled, TakeStandbyOtherLock
<1>8. DiskControlled'
  <2>1. \A f \in Frames : OffStandby(pfnArray[f]).isBeingWritten => pfnArray[f].isBeingWritten
    BY FrameFields, FrameMarks DEF TypeOK, FramesTyped
  <2>2. \A f \in Frames : pfnArray'[f].isBeingWritten => pfnArray[f].isBeingWritten
    BY <2>1 DEF TypeOK, FramesTyped, TakeStandbyOtherLock
  <2>. QED  BY <2>2, MarksKept DEF TakeStandbyOtherLock
<1>9. CountControlled'
  BY ConstantsAssumption
     DEF TypeOK, ControlOK, UsersTyped, CountControlled, TakeStandbyOtherLock,
         GoTo, ReleasePTELock, DebugAssert
<1>. QED  BY <1>1, <1>2, <1>3, <1>4, <1>5, <1>6, <1>7, <1>8, <1>9 DEF TypeOK, ControlOK

(* Updating the victim's PTE keeps the types and the control.              *)
LEMMA UpdateVictimTyped ==
    ASSUME TypeOK, ControlOK, halted = "running", NEW u \in Users,
           UpdateVictim(u)
    PROVE  TypeOK' /\ ControlOK'
<1>1. FramesTyped' /\ StorageTyped' /\ ListsTyped' /\ SyncTyped' /\ TrimTyped' /\ DiskTyped'
  BY DEF TypeOK, FramesTyped, StorageTyped, ListsTyped, SyncTyped, TrimTyped, DiskTyped, UpdateVictim
<1>2. TrimControlled' /\ DiskControlled'
  BY DEF ControlOK, TrimControlled, DiskControlled, UpdateVictim
<1>3. PagesTyped'
  <2>1. currentFrame[u] \in Frames
    BY WorksOnFrame DEF UpdateVictim, NeedsFrame, Holding
  <2>2. pfnArray[currentFrame[u]].diskIndex \in Nat
    BY <2>1 DEF TypeOK, FramesTyped, FrameRecords
  <2>3. Disk(pfnArray[currentFrame[u]].diskIndex) \in PTEs
    BY <2>2, PTEFormats
  <2>. QED  BY <2>3 DEF TypeOK, PagesTyped, UpdateVictim, GiveToDisk
<1>4. UsersTyped'
  BY ConstantsAssumption
     DEF TypeOK, PagesTyped, ListsTyped, UsersTyped, UpdateVictim, GoTo,
         GiveToDisk, UserPCs, PTEs
<1>5. HistoryTyped'
  BY ConstantsAssumption
     DEF TypeOK, UsersTyped, HistoryTyped, UpdateVictim, GoTo, GiveToDisk
<1>6. UsersControlled'
  BY ConstantsAssumption
     DEF TypeOK, ControlOK, PagesTyped, FramesTyped, SyncTyped, ListsTyped,
         UsersTyped, UsersControlled, UpdateVictim, GoTo, GiveToDisk, UserPCs,
         NeedsFrame, Holding, PTEs
<1>7. CountControlled'
  BY ConstantsAssumption
     DEF TypeOK, ControlOK, UsersTyped, CountControlled, UpdateVictim, GoTo,
         GiveToDisk
<1>. QED  BY <1>1, <1>2, <1>3, <1>4, <1>5, <1>6, <1>7 DEF TypeOK, ControlOK

(* Reading the PTE again keeps the types and the control.                  *)
LEMMA ReacquireTyped ==
    ASSUME TypeOK, ControlOK, halted = "running", NEW u \in Users,
           Reacquire(u)
    PROVE  TypeOK' /\ ControlOK'
<1>1. PagesTyped' /\ StorageTyped' /\ TrimTyped' /\ DiskTyped'
  BY DEF TypeOK, PagesTyped, StorageTyped, TrimTyped, DiskTyped, Reacquire
<1>2. TrimControlled'
  BY DEF ControlOK, TrimControlled, Reacquire
<1>3. FramesTyped'
  <2>1. \A f \in Frames : OnStandby(pfnArray[f]) \in FrameRecords
    BY FrameFields DEF TypeOK, FramesTyped
  <2>. QED  BY <2>1 DEF TypeOK, FramesTyped, Reacquire
<1>4. ListsTyped'
  <2>1. currentFrame[u] \in Frames
    BY WorksOnFrame DEF Reacquire, NeedsFrame, Holding
  <2>2. AddToFrameList(standbyList, currentFrame[u]) \in Seq(Frames)
    BY <2>1, AddToFrameListProperties DEF TypeOK, ListsTyped
  <2>. QED  BY <2>2 DEF TypeOK, ListsTyped, Reacquire
<1>5. SyncTyped'
  BY ConstantsAssumption
     DEF TypeOK, SyncTyped, UsersTyped, Reacquire, GoTo, FillStep,
         AcquirePTELock, Zero, PTE
<1>6. UsersTyped'
  <2>1. Page(u) \in Pages
    BY WorksOnPage DEF Reacquire
  <2>2. pageTable[Page(u)] \in PTEs /\ Zero \in PTEs
    BY <2>1, PTEFormats DEF TypeOK, PagesTyped
  <2>3. FillStep(pageTable[Page(u)]) \in UserPCs
    BY DEF FillStep, UserPCs
  <2>4. pc' \in [Users -> UserPCs]
    BY <2>3 DEF TypeOK, UsersTyped, Reacquire, GoTo, UserPCs
  <2>5. pteContents' \in [Users -> PTEs]
    BY <2>2 DEF TypeOK, UsersTyped, Reacquire
  <2>. QED  BY <2>4, <2>5 DEF TypeOK, UsersTyped, Reacquire
<1>7. HistoryTyped'
  BY ConstantsAssumption
     DEF TypeOK, UsersTyped, HistoryTyped, Reacquire, GoTo, FillStep,
         AcquirePTELock, Zero, PTE
<1>8. UsersControlled'
  <2>1. va[u] # None /\ currentFrame[u] # None
    BY DEF ControlOK, UsersControlled, Reacquire, NeedsFrame, Holding
  <2>2. \A v \in Users : v # u => pc'[v] = pc[v] /\ currentFrame'[v] = currentFrame[v]
                                 /\ pteContents'[v] = pteContents[v]
    BY DEF TypeOK, UsersTyped, Reacquire, GoTo
  <2>3. pc'[u] = "access" \/ (pc'[u] \in {"wipe", "swapIn"} /\ currentFrame' = currentFrame)
    BY DEF TypeOK, UsersTyped, Reacquire, GoTo, FillStep
  <2>4. va' = va /\ halted' = halted
    BY DEF Reacquire
  <2>. QED  BY <2>1, <2>2, <2>3, <2>4 DEF ControlOK, UsersControlled, NeedsFrame, Holding
<1>9. DiskControlled'
  <2>1. \A f \in Frames : OnStandby(pfnArray[f]).isBeingWritten => pfnArray[f].isBeingWritten
    BY FrameFields, FrameMarks DEF TypeOK, FramesTyped
  <2>2. \A f \in Frames : pfnArray'[f].isBeingWritten => pfnArray[f].isBeingWritten
    BY <2>1 DEF TypeOK, FramesTyped, Reacquire
  <2>. QED  BY <2>2, MarksKept DEF Reacquire
<1>10. CountControlled'
  BY ConstantsAssumption
     DEF TypeOK, ControlOK, UsersTyped, CountControlled, Reacquire, GoTo,
         FillStep, AcquirePTELock, Zero, PTE
<1>. QED  BY <1>1, <1>2, <1>3, <1>4, <1>5, <1>6, <1>7, <1>8, <1>9, <1>10 DEF TypeOK, ControlOK

(* wipePage keeps the types and the control.                               *)
LEMMA WipePageTyped ==
    ASSUME TypeOK, ControlOK, halted = "running", NEW u \in Users,
           WipePage(u)
    PROVE  TypeOK' /\ ControlOK'
<1>1. PagesTyped' /\ FramesTyped' /\ ListsTyped' /\ SyncTyped' /\ TrimTyped' /\ DiskTyped' /\ HistoryTyped'
  BY DEF TypeOK, PagesTyped, FramesTyped, ListsTyped, SyncTyped, TrimTyped, DiskTyped, HistoryTyped, WipePage
<1>2. TrimControlled' /\ DiskControlled'
  BY DEF ControlOK, TrimControlled, DiskControlled, WipePage
<1>3. StorageTyped'
  BY ConstantsAssumption
     DEF TypeOK, StorageTyped, PagesTyped, FramesTyped, UsersTyped, WipePage,
         GoTo, PTEs
<1>4. UsersTyped'
  BY ConstantsAssumption
     DEF TypeOK, PagesTyped, ListsTyped, UsersTyped, WipePage, GoTo, UserPCs,
         PTEs
<1>5. UsersControlled'
  BY ConstantsAssumption
     DEF TypeOK, ControlOK, PagesTyped, FramesTyped, SyncTyped, ListsTyped,
         UsersTyped, UsersControlled, WipePage, GoTo, UserPCs, NeedsFrame,
         Holding, PTEs
<1>6. CountControlled'
  BY ConstantsAssumption
     DEF TypeOK, ControlOK, UsersTyped, CountControlled, WipePage, GoTo
<1>. QED  BY <1>1, <1>2, <1>3, <1>4, <1>5, <1>6 DEF TypeOK, ControlOK

(* The slot release of swapFromDisk keeps the types and the control.       *)
LEMMA SwapFromDiskTyped ==
    ASSUME TypeOK, ControlOK, halted = "running", NEW u \in Users,
           SwapFromDisk(u)
    PROVE  TypeOK' /\ ControlOK'
<1>1. PagesTyped' /\ ListsTyped' /\ TrimTyped' /\ DiskTyped' /\ HistoryTyped'
  BY DEF TypeOK, PagesTyped, ListsTyped, TrimTyped, DiskTyped, HistoryTyped, SwapFromDisk
<1>2. TrimControlled'
  BY DEF ControlOK, TrimControlled, SwapFromDisk
<1>3. FramesTyped'
  <2>1. \A f \in Frames : OnDisk(pfnArray[f], InvalidDiskSlot) \in FrameRecords
    BY FrameFields, ConstantProperties DEF TypeOK, FramesTyped
  <2>. QED  BY <2>1 DEF TypeOK, FramesTyped, SwapFromDisk
<1>4. StorageTyped'
  BY ConstantsAssumption
     DEF TypeOK, StorageTyped, PagesTyped, FramesTyped, UsersTyped,
         SwapFromDisk, GoTo, ReleaseDiskSlots, DebugAssert, PTEs
<1>5. SyncTyped'
  BY ConstantsAssumption
     DEF TypeOK, SyncTyped, UsersTyped, SwapFromDisk, GoTo, ReleaseDiskSlots,
         DebugAssert
<1>6. UsersTyped'
  BY ConstantsAssumption
     DEF TypeOK, PagesTyped, ListsTyped, UsersTyped, SwapFromDisk, GoTo,
         ReleaseDiskSlots, DebugAssert, UserPCs, PTEs
<1>7. UsersControlled'
  <2>1. va[u] # None /\ currentFrame[u] # None
    BY DEF ControlOK, UsersControlled, SwapFromDisk, NeedsFrame, Holding
  <2>2. \A v \in Users : v # u => pc'[v] = pc[v]
    BY DEF TypeOK, UsersTyped, SwapFromDisk, GoTo
  <2>3. pc'[u] = "copyIn"
    BY DEF TypeOK, UsersTyped, SwapFromDisk, GoTo
  <2>4. halted' = "running" => pteContents[u].number \in DiskSlots
    BY DEF TypeOK, StorageTyped, SwapFromDisk, DebugAssert
  <2>5. va' = va /\ currentFrame' = currentFrame /\ pteContents' = pteContents
    BY DEF SwapFromDisk
  <2>. QED  BY <2>1, <2>2, <2>3, <2>4, <2>5 DEF ControlOK, UsersControlled, NeedsFrame, Holding
<1>8. DiskControlled'
  <2>0. InvalidDiskSlot \in Nat
    BY ConstantProperties
  <2>1. \A f \in Frames :
           OnDisk(pfnArray[f], InvalidDiskSlot).isBeingWritten = pfnArray[f].isBeingWritten
    <3> TAKE f \in Frames
    <3>1. pfnArray[f] \in FrameRecords  BY DEF TypeOK, FramesTyped
    <3>. QED  BY <2>0, <3>1, FrameMarks
  <2>2. \A f \in Frames : pfnArray'[f].isBeingWritten => pfnArray[f].isBeingWritten
    BY <2>1 DEF TypeOK, FramesTyped, SwapFromDisk
  <2>. QED  BY <2>2, MarksKept DEF SwapFromDisk
<1>9. CountControlled'
  BY ConstantsAssumption
     DEF TypeOK, ControlOK, UsersTyped, CountControlled, SwapFromDisk, GoTo,
         ReleaseDiskSlots, DebugAssert
<1>. QED  BY <1>1, <1>2, <1>3, <1>4, <1>5, <1>6, <1>7, <1>8, <1>9 DEF TypeOK, ControlOK

(* The copy of swapFromDisk keeps the types and the control.               *)
LEMMA CopyFromDiskTyped ==
    ASSUME TypeOK, ControlOK, halted = "running", NEW u \in Users,
           CopyFromDisk(u)
    PROVE  TypeOK' /\ ControlOK'
<1>1. PagesTyped' /\ FramesTyped' /\ ListsTyped' /\ SyncTyped' /\ TrimTyped' /\ DiskTyped' /\ HistoryTyped'
  BY DEF TypeOK, PagesTyped, FramesTyped, ListsTyped, SyncTyped, TrimTyped, DiskTyped, HistoryTyped, CopyFromDisk
<1>2. TrimControlled' /\ DiskControlled'
  BY DEF ControlOK, TrimControlled, DiskControlled, CopyFromDisk
<1>3. StorageTyped'
  <2>1. totalDiskSpace[pteContents[u].number] \in SUBSET (Addresses \cup Garbage)
    BY DEF TypeOK, StorageTyped, ControlOK, UsersControlled, CopyFromDisk
  <2>. QED  BY <2>1 DEF TypeOK, StorageTyped, CopyFromDisk
<1>4. UsersTyped'
  BY ConstantsAssumption
     DEF TypeOK, PagesTyped, ListsTyped, UsersTyped, CopyFromDisk, GoTo,
         UserPCs, PTEs
<1>5. UsersControlled'
  BY ConstantsAssumption
     DEF TypeOK, ControlOK, PagesTyped, FramesTyped, SyncTyped, ListsTyped,
         UsersTyped, UsersControlled, CopyFromDisk, GoTo, UserPCs, NeedsFrame,
         Holding, PTEs
<1>6. CountControlled'
  BY ConstantsAssumption
     DEF TypeOK, ControlOK, UsersTyped, CountControlled, CopyFromDisk, GoTo
<1>. QED  BY <1>1, <1>2, <1>3, <1>4, <1>5, <1>6 DEF TypeOK, ControlOK

(* The failure of swapFromDisk keeps the types and the control.            *)
LEMMA SwapFromDiskFailsTyped ==
    ASSUME TypeOK, ControlOK, halted = "running", NEW u \in Users,
           SwapFromDiskFails(u)
    PROVE  TypeOK' /\ ControlOK'
<1>1. PagesTyped' /\ FramesTyped' /\ StorageTyped' /\ ListsTyped' /\ SyncTyped' /\ TrimTyped' /\ DiskTyped'
  BY DEF TypeOK, PagesTyped, FramesTyped, StorageTyped, ListsTyped, SyncTyped, TrimTyped, DiskTyped,
         SwapFromDiskFails
<1>2. TrimControlled' /\ DiskControlled'
  BY DEF ControlOK, TrimControlled, DiskControlled, SwapFromDiskFails
<1>3. HistoryTyped'
  BY DEF TypeOK, HistoryTyped, SwapFromDiskFails
<1>4. UsersTyped'
  BY ConstantsAssumption
     DEF TypeOK, PagesTyped, ListsTyped, UsersTyped, SwapFromDiskFails, GoTo,
         UserPCs, PTEs
<1>5. UsersControlled'
  BY ConstantsAssumption
     DEF TypeOK, ControlOK, PagesTyped, FramesTyped, SyncTyped, ListsTyped,
         UsersTyped, UsersControlled, SwapFromDiskFails, GoTo, UserPCs, NeedsFrame,
         Holding, PTEs
<1>6. CountControlled'
  BY ConstantsAssumption
     DEF TypeOK, ControlOK, UsersTyped, CountControlled, SwapFromDiskFails, GoTo
<1>. QED  BY <1>1, <1>2, <1>3, <1>4, <1>5, <1>6 DEF TypeOK, ControlOK

(* Mapping the page keeps the types and the control.                       *)
LEMMA MapPageTyped ==
    ASSUME TypeOK, ControlOK, halted = "running", NEW u \in Users,
           MapPage(u)
    PROVE  TypeOK' /\ ControlOK'
<1>1. StorageTyped' /\ TrimTyped' /\ DiskTyped' /\ HistoryTyped'
  BY DEF TypeOK, StorageTyped, TrimTyped, DiskTyped, HistoryTyped, MapPage
<1>2. TrimControlled'
  BY DEF ControlOK, TrimControlled, MapPage
<1>3. PagesTyped'
  <2>1. currentFrame[u] \in Frames
    BY WorksOnFrame DEF MapPage, NeedsFrame, Holding
  <2>2. Valid(currentFrame[u]) \in PTEs
    BY <2>1, PTEFormats
  <2>. QED  BY <2>1, <2>2 DEF TypeOK, PagesTyped, MapPage
<1>4. FramesTyped'
  <2>1. Page(u) \in Pages
    BY ConstantProperties DEF TypeOK, UsersTyped, ControlOK, UsersControlled, MapPage, Page, Addresses
  <2>2. \A f \in Frames : OwnedBy(pfnArray[f], Page(u)) \in FrameRecords
    BY <2>1, FrameFields DEF TypeOK, FramesTyped
  <2>. QED  BY <2>2 DEF TypeOK, FramesTyped, MapPage
<1>5. ListsTyped'
  <2>1. currentFrame[u] \in Frames
    BY WorksOnFrame DEF MapPage, NeedsFrame, Holding
  <2>2. AddToFrameListTail(activeList, currentFrame[u]) \in Seq(Frames)
    BY <2>1, AddToFrameListTailProperties DEF TypeOK, ListsTyped
  <2>. QED  BY <2>2 DEF TypeOK, ListsTyped, MapPage
<1>6. SyncTyped'
  BY ConstantsAssumption
     DEF TypeOK, SyncTyped, UsersTyped, MapPage, GoTo, ReleasePTELock, Zero,
         PTE
<1>7. UsersTyped'
  BY ConstantsAssumption
     DEF TypeOK, PagesTyped, ListsTyped, UsersTyped, MapPage, GoTo,
         ReleasePTELock, Zero, PTE, UserPCs, PTEs
<1>8. UsersControlled'
  BY ConstantsAssumption
     DEF TypeOK, ControlOK, PagesTyped, FramesTyped, SyncTyped, ListsTyped,
         UsersTyped, UsersControlled, MapPage, GoTo, ReleasePTELock, Zero, PTE,
         UserPCs, NeedsFrame, Holding, PTEs
<1>9. DiskControlled'
  <2>1. Page(u) \in Pages
    BY ConstantProperties DEF TypeOK, UsersTyped, ControlOK, UsersControlled, MapPage, Page, Addresses
  <2>2. \A f \in Frames : OwnedBy(pfnArray[f], Page(u)).isBeingWritten = pfnArray[f].isBeingWritten
    BY <2>1, FrameMarks DEF TypeOK, FramesTyped
  <2>3. \A f \in Frames : pfnArray'[f].isBeingWritten => pfnArray[f].isBeingWritten
    BY <2>2 DEF TypeOK, FramesTyped, MapPage
  <2>. QED  BY <2>3, MarksKept DEF MapPage
<1>10. CountControlled'
  BY ConstantsAssumption
     DEF TypeOK, ControlOK, UsersTyped, CountControlled, MapPage, GoTo,
         ReleasePTELock, Zero, PTE
<1>. QED  BY <1>1, <1>2, <1>3, <1>4, <1>5, <1>6, <1>7, <1>8, <1>9, <1>10 DEF TypeOK, ControlOK

-----------------------------------------------------------------------------
(* The trim thread.                                                        *)

(* Waiting for the trim event keeps the types and the control.             *)
LEMMA TrimWaitTyped ==
    ASSUME TypeOK, ControlOK, halted = "running",
           TrimWait
    PROVE  TypeOK' /\ ControlOK'
<1>1. PagesTyped' /\ FramesTyped' /\ StorageTyped' /\ ListsTyped' /\ UsersTyped' /\ DiskTyped' /\ HistoryTyped'
  BY DEF TypeOK, PagesTyped, FramesTyped, StorageTyped, ListsTyped, UsersTyped, DiskTyped, HistoryTyped, TrimWait
<1>2. UsersControlled' /\ DiskControlled' /\ CountControlled'
  BY DEF ControlOK, UsersControlled, DiskControlled, CountControlled, TrimWait
<1>3. SyncTyped'
  BY ConstantsAssumption
     DEF TypeOK, SyncTyped, UsersTyped, TrimWait
<1>4. TrimTyped'
  BY ConstantsAssumption
     DEF TypeOK, ListsTyped, TrimTyped, TrimWait
<1>5. TrimControlled'
  BY ConstantsAssumption
     DEF TypeOK, ControlOK, TrimTyped, TrimControlled, TrimWait
<1>. QED  BY <1>1, <1>2, <1>3, <1>4, <1>5 DEF TypeOK, ControlOK

(* Popping a batch off the active list keeps the types and the control.    *)
LEMMA PopActiveTyped ==
    ASSUME TypeOK, ControlOK, halted = "running",
           PopActive
    PROVE  TypeOK' /\ ControlOK'
<1>1. PagesTyped' /\ FramesTyped' /\ StorageTyped' /\ SyncTyped' /\ UsersTyped' /\ DiskTyped' /\ HistoryTyped'
  BY DEF TypeOK, PagesTyped, FramesTyped, StorageTyped, SyncTyped, UsersTyped, DiskTyped, HistoryTyped, PopActive
<1>2. UsersControlled' /\ DiskControlled' /\ CountControlled'
  BY DEF ControlOK, UsersControlled, DiskControlled, CountControlled, PopActive
<1>3. ListsTyped'
  <2>1. Len(activeList) \in Nat /\ MinOf(MaxWritePages, Len(activeList)) \in 0 .. Len(activeList)
    BY ConstantsAssumption, LenProperties DEF TypeOK, ListsTyped, MinOf
  <2>2. AfterPop(activeList, MinOf(MaxWritePages, Len(activeList))) \in Seq(Frames)
    BY <2>1, PopProperties DEF TypeOK, ListsTyped
  <2>. QED  BY <2>2 DEF TypeOK, ListsTyped, PopActive
<1>4. TrimTyped'
  <2>1. Len(activeList) \in Nat /\ MinOf(MaxWritePages, Len(activeList)) \in 0 .. Len(activeList)
    BY ConstantsAssumption, LenProperties DEF TypeOK, ListsTyped, MinOf
  <2>2. Popped(activeList, MinOf(MaxWritePages, Len(activeList))) \in Seq(Frames)
    BY <2>1, PopProperties DEF TypeOK, ListsTyped
  <2>. QED  BY <2>2 DEF TypeOK, TrimTyped, PopActive
<1>5. TrimControlled'
  BY ConstantsAssumption
     DEF TypeOK, ControlOK, TrimTyped, TrimControlled, PopActive
<1>. QED  BY <1>1, <1>2, <1>3, <1>4, <1>5 DEF TypeOK, ControlOK

(* Unmapping the batch keeps the types and the control.                    *)
LEMMA UnmapBatchTyped ==
    ASSUME TypeOK, ControlOK, halted = "running",
           UnmapBatch
    PROVE  TypeOK' /\ ControlOK'
<1>1. FramesTyped' /\ StorageTyped' /\ ListsTyped' /\ SyncTyped' /\ UsersTyped' /\ DiskTyped' /\ HistoryTyped'
  BY DEF TypeOK, FramesTyped, StorageTyped, ListsTyped, SyncTyped, UsersTyped, DiskTyped, HistoryTyped, UnmapBatch
<1>2. UsersControlled' /\ DiskControlled' /\ CountControlled'
  BY DEF ControlOK, UsersControlled, DiskControlled, CountControlled, UnmapBatch
<1>3. PagesTyped'
  BY ConstantsAssumption
     DEF TypeOK, PagesTyped, FramesTyped, UsersTyped, UnmapBatch, PTEs
<1>4. TrimTyped'
  BY ConstantsAssumption
     DEF TypeOK, ListsTyped, TrimTyped, UnmapBatch
<1>5. TrimControlled'
  BY ConstantsAssumption
     DEF TypeOK, ControlOK, TrimTyped, TrimControlled, UnmapBatch
<1>. QED  BY <1>1, <1>2, <1>3, <1>4, <1>5 DEF TypeOK, ControlOK

(* Putting a PTE in transition keeps the types and the control.            *)
LEMMA FixPTETyped ==
    ASSUME TypeOK, ControlOK, halted = "running",
           FixPTE
    PROVE  TypeOK' /\ ControlOK'
<1>1. StorageTyped' /\ ListsTyped' /\ UsersTyped' /\ DiskTyped' /\ HistoryTyped'
  BY DEF TypeOK, StorageTyped, ListsTyped, UsersTyped, DiskTyped, HistoryTyped, FixPTE
<1>2. CountControlled'
  BY DEF ControlOK, CountControlled, FixPTE
<1>3. PagesTyped'
  <2>1. evictFrames # <<>>
    BY DEF ControlOK, TrimControlled, FixPTE
  <2>2. evictFrames[1] \in Frames
    BY <2>1, PopFirstProperties DEF TypeOK, TrimTyped
  <2>3. Transition(evictFrames[1]) \in PTEs
    BY <2>2, PTEFormats
  <2>. QED  BY <2>3 DEF TypeOK, PagesTyped, FixPTE
<1>4. FramesTyped'
  <2>1. \A f \in Frames : OnDisk(pfnArray[f], 0) \in FrameRecords
    BY FrameFields DEF TypeOK, FramesTyped
  <2>. QED  BY <2>1 DEF TypeOK, FramesTyped, FixPTE
<1>5. SyncTyped'
  BY ConstantsAssumption
     DEF TypeOK, SyncTyped, UsersTyped, FixPTE, DebugAssert
<1>6. TrimTyped'
  BY ConstantsAssumption
     DEF TypeOK, ListsTyped, TrimTyped, FixPTE, DebugAssert
<1>7. UsersControlled'
  BY ConstantsAssumption
     DEF TypeOK, ControlOK, PagesTyped, FramesTyped, SyncTyped, ListsTyped,
         UsersTyped, UsersControlled, FixPTE, DebugAssert, UserPCs, NeedsFrame,
         Holding, PTEs
<1>8. TrimControlled'
  BY ConstantsAssumption
     DEF TypeOK, ControlOK, TrimTyped, TrimControlled, FixPTE, DebugAssert
<1>9. DiskControlled'
  <2>1. \A f \in Frames : OnDisk(pfnArray[f], 0).isBeingWritten = pfnArray[f].isBeingWritten
    <3> TAKE f \in Frames
    <3>1. pfnArray[f] \in FrameRecords  BY DEF TypeOK, FramesTyped
    <3>. QED  BY <3>1, FrameMarks
  <2>2. \A f \in Frames : pfnArray'[f].isBeingWritten => pfnArray[f].isBeingWritten
    BY <2>1 DEF TypeOK, FramesTyped, FixPTE
  <2>. QED  BY <2>2, MarksKept DEF FixPTE
<1>. QED  BY <1>1, <1>2, <1>3, <1>4, <1>5, <1>6, <1>7, <1>8, <1>9 DEF TypeOK, ControlOK

(* Adding to the modified list keeps the types and the control.            *)
LEMMA AddModifiedTyped ==
    ASSUME TypeOK, ControlOK, halted = "running",
           AddModified
    PROVE  TypeOK' /\ ControlOK'
<1>1. PagesTyped' /\ StorageTyped' /\ SyncTyped' /\ UsersTyped' /\ DiskTyped' /\ HistoryTyped'
  BY DEF TypeOK, PagesTyped, StorageTyped, SyncTyped, UsersTyped, DiskTyped, HistoryTyped, AddModified
<1>2. UsersControlled' /\ CountControlled'
  BY DEF ControlOK, UsersControlled, CountControlled, AddModified
<1>3. FramesTyped'
  <2>1. \A f \in Frames : OnModified(pfnArray[f]) \in FrameRecords
    BY FrameFields DEF TypeOK, FramesTyped
  <2>. QED  BY <2>1 DEF TypeOK, FramesTyped, AddModified
<1>4. ListsTyped'
  <2>1. evictFrames # <<>>
    BY DEF ControlOK, TrimControlled, AddModified
  <2>2. evictFrames[1] \in Frames
    BY <2>1, PopFirstProperties DEF TypeOK, TrimTyped
  <2>3. AddToFrameList(modifiedList, evictFrames[1]) \in Seq(Frames)
    BY <2>2, AddToFrameListProperties DEF TypeOK, ListsTyped
  <2>. QED  BY <2>3 DEF TypeOK, ListsTyped, AddModified
<1>5. TrimTyped'
  <2>1. evictFrames # <<>>
    BY DEF ControlOK, TrimControlled, AddModified
  <2>2. AfterPop(evictFrames, 1) \in Seq(Frames)
    BY <2>1, PopFirstProperties DEF TypeOK, TrimTyped
  <2>. QED  BY <2>2 DEF TypeOK, TrimTyped, AddModified
<1>6. TrimControlled'
  <2>1. evictFrames # <<>>
    BY DEF ControlOK, TrimControlled, AddModified
  <2>2. /\ AfterPop(evictFrames, 1) \in Seq(Frames)
        /\ Len(AfterPop(evictFrames, 1)) = Len(evictFrames) - 1
        /\ Len(evictFrames) \in Nat
    BY <2>1, PopFirstProperties DEF TypeOK, TrimTyped
  <2>3. CASE Len(evictFrames) = 1
    <3>1. Len(AfterPop(evictFrames, 1)) = 0  BY <2>2, <2>3
    <3>2. AfterPop(evictFrames, 1) = <<>>  BY <2>2, <3>1, EmptySeq
    <3>. QED  BY <2>3, <3>2 DEF TrimControlled, AddModified
  <2>4. CASE Len(evictFrames) # 1
    <3>1. Len(AfterPop(evictFrames, 1)) # 0  BY <2>2, <2>4
    <3>2. AfterPop(evictFrames, 1) # <<>>  BY <3>1, EmptySeq
    <3>. QED  BY <2>4, <3>2 DEF TrimControlled, AddModified
  <2>. QED  BY <2>3, <2>4
<1>7. DiskControlled'
  <2>1. \A f \in Frames : OnModified(pfnArray[f]).isBeingWritten => pfnArray[f].isBeingWritten
    BY FrameFields, FrameMarks DEF TypeOK, FramesTyped
  <2>2. \A f \in Frames : pfnArray'[f].isBeingWritten => pfnArray[f].isBeingWritten
    BY <2>1 DEF TypeOK, FramesTyped, AddModified
  <2>. QED  BY <2>2, MarksKept DEF AddModified
<1>. QED  BY <1>1, <1>2, <1>3, <1>4, <1>5, <1>6, <1>7 DEF TypeOK, ControlOK

(* Waking the disk thread keeps the types and the control.                 *)
LEMMA SignalModWriteTyped ==
    ASSUME TypeOK, ControlOK, halted = "running",
           SignalModWrite
    PROVE  TypeOK' /\ ControlOK'
<1>1. PagesTyped' /\ FramesTyped' /\ StorageTyped' /\ ListsTyped' /\ UsersTyped' /\ HistoryTyped'
  BY DEF TypeOK, PagesTyped, FramesTyped, StorageTyped, ListsTyped, UsersTyped, HistoryTyped, SignalModWrite
<1>2. UsersControlled' /\ CountControlled'
  BY DEF ControlOK, UsersControlled, CountControlled, SignalModWrite
<1>3. SyncTyped'
  BY ConstantsAssumption
     DEF TypeOK, SyncTyped, UsersTyped, SignalModWrite, SetModWriteEvent
<1>4. TrimTyped'
  BY ConstantsAssumption
     DEF TypeOK, ListsTyped, TrimTyped, SignalModWrite, SetModWriteEvent
<1>5. DiskTyped'
  BY ConstantsAssumption
     DEF TypeOK, ListsTyped, DiskTyped, SignalModWrite, SetModWriteEvent
<1>6. TrimControlled'
  BY ConstantsAssumption
     DEF TypeOK, ControlOK, TrimTyped, TrimControlled, SignalModWrite,
         SetModWriteEvent
<1>7. DiskControlled'
  BY ConstantsAssumption
     DEF TypeOK, ControlOK, FramesTyped, ListsTyped, DiskTyped, DiskControlled,
         SignalModWrite, SetModWriteEvent
<1>. QED  BY <1>1, <1>2, <1>3, <1>4, <1>5, <1>6, <1>7 DEF TypeOK, ControlOK

-----------------------------------------------------------------------------
(* The disk thread.                                                        *)

(* Waiting for the modified-write event keeps the types and the control.   *)
LEMMA DiskWaitTyped ==
    ASSUME TypeOK, ControlOK, halted = "running",
           DiskWait
    PROVE  TypeOK' /\ ControlOK'
<1>1. PagesTyped' /\ FramesTyped' /\ StorageTyped' /\ ListsTyped' /\ UsersTyped' /\ TrimTyped' /\ HistoryTyped'
  BY DEF TypeOK, PagesTyped, FramesTyped, StorageTyped, ListsTyped, UsersTyped, TrimTyped, HistoryTyped, DiskWait
<1>2. UsersControlled' /\ TrimControlled' /\ CountControlled'
  BY DEF ControlOK, UsersControlled, TrimControlled, CountControlled, DiskWait
<1>3. SyncTyped'
  BY ConstantsAssumption
     DEF TypeOK, SyncTyped, UsersTyped, DiskWait
<1>4. DiskTyped'
  BY ConstantsAssumption
     DEF TypeOK, ListsTyped, DiskTyped, DiskWait
<1>5. DiskControlled'
  BY ConstantsAssumption
     DEF TypeOK, ControlOK, FramesTyped, ListsTyped, DiskTyped, DiskControlled,
         DiskWait
<1>. QED  BY <1>1, <1>2, <1>3, <1>4, <1>5 DEF TypeOK, ControlOK

(* Reserving slots keeps the types and the control.                        *)
LEMMA ReserveSlotsTyped ==
    ASSUME TypeOK, ControlOK, halted = "running",
           ReserveSlots
    PROVE  TypeOK' /\ ControlOK'
<1>1. PagesTyped' /\ FramesTyped' /\ ListsTyped' /\ SyncTyped' /\ UsersTyped' /\ TrimTyped' /\ HistoryTyped'
  BY DEF TypeOK, PagesTyped, FramesTyped, ListsTyped, SyncTyped, UsersTyped, TrimTyped, HistoryTyped, ReserveSlots
<1>2. UsersControlled' /\ TrimControlled' /\ CountControlled'
  BY DEF ControlOK, UsersControlled, TrimControlled, CountControlled, ReserveSlots
<1>3. StorageTyped'
  <2> DEFINE free == FreeSlots
             n == MinOf(MaxWritePages, Cardinality(free))
  <2>1. IsFiniteSet(free)
    BY ConstantProperties, FS_Difference DEF FreeSlots
  <2>2. n \in Nat
    BY <2>1, FS_CardinalityType, ConstantsAssumption DEF MinOf
  <2>3. diskSlots' \in [1 .. n -> free]
    BY DEF ReserveSlots
  <2>4. diskSlots' \in Seq(DiskSlots)
    <3>1. diskSlots' \in [1 .. n -> DiskSlots]
      BY <2>3 DEF FreeSlots
    <3>. QED  BY <2>2, <3>1, SeqDef
  <2>5. ToSet(diskSlots') \subseteq DiskSlots
    BY <2>2, <2>3, LenProperties DEF ToSet, FreeSlots
  <2>. QED  BY <2>5 DEF TypeOK, StorageTyped, ReserveSlots
<1>4. DiskTyped'
  <2> DEFINE free == FreeSlots
             n == MinOf(MaxWritePages, Cardinality(free))
  <2>1. IsFiniteSet(free)
    BY ConstantProperties, FS_Difference DEF FreeSlots
  <2>2. n \in Nat
    BY <2>1, FS_CardinalityType, ConstantsAssumption DEF MinOf
  <2>3. diskSlots' \in [1 .. n -> free]
    BY DEF ReserveSlots
  <2>4. diskSlots' \in Seq(DiskSlots)
    <3>1. diskSlots' \in [1 .. n -> DiskSlots]
      BY <2>3 DEF FreeSlots
    <3>. QED  BY <2>2, <3>1, SeqDef
  <2>. QED  BY <2>4 DEF TypeOK, DiskTyped, ReserveSlots
<1>5. DiskControlled'
  BY ConstantsAssumption
     DEF TypeOK, ControlOK, FramesTyped, ListsTyped, DiskTyped, DiskControlled,
         ReserveSlots
<1>. QED  BY <1>1, <1>2, <1>3, <1>4, <1>5 DEF TypeOK, ControlOK

(* Popping a batch off the modified list keeps the types and the control.  *)
LEMMA CollectModifiedTyped ==
    ASSUME TypeOK, ControlOK, halted = "running",
           CollectModified
    PROVE  TypeOK' /\ ControlOK'
<1>1. PagesTyped' /\ SyncTyped' /\ UsersTyped' /\ TrimTyped' /\ HistoryTyped'
  BY DEF TypeOK, PagesTyped, SyncTyped, UsersTyped, TrimTyped, HistoryTyped, CollectModified
<1>2. UsersControlled' /\ TrimControlled' /\ CountControlled'
  BY DEF ControlOK, UsersControlled, TrimControlled, CountControlled, CollectModified
<1>3. FramesTyped'
  <2> DEFINE n == MinOf(Len(diskSlots), Len(modifiedList))
             batch == Popped(modifiedList, n)
  <2>1. n \in 0 .. Len(diskSlots) /\ n \in 0 .. Len(modifiedList)
    BY LenProperties DEF TypeOK, DiskTyped, ListsTyped, MinOf
  <2>2. \A f \in Frames : MarkWritten(OffModified(pfnArray[f])) \in FrameRecords
    <3> TAKE f \in Frames
    <3>1. OffModified(pfnArray[f]) \in FrameRecords
      BY FrameFields DEF TypeOK, FramesTyped
    <3>. QED  BY <3>1, FrameFields
  <2>. QED  BY <2>2 DEF TypeOK, FramesTyped, CollectModified
<1>4. StorageTyped'
  BY ConstantsAssumption
     DEF TypeOK, StorageTyped, PagesTyped, FramesTyped, UsersTyped,
         CollectModified, ReleaseDiskSlots, PTEs
<1>5. ListsTyped'
  <2> DEFINE n == MinOf(Len(diskSlots), Len(modifiedList))
             batch == Popped(modifiedList, n)
  <2>1. n \in 0 .. Len(diskSlots) /\ n \in 0 .. Len(modifiedList)
    BY LenProperties DEF TypeOK, DiskTyped, ListsTyped, MinOf
  <2>2. AfterPop(modifiedList, n) \in Seq(Frames)
    BY <2>1, PopProperties DEF TypeOK, ListsTyped
  <2>. QED  BY <2>2 DEF TypeOK, ListsTyped, CollectModified
<1>6. DiskTyped'
  <2> DEFINE n == MinOf(Len(diskSlots), Len(modifiedList))
             batch == Popped(modifiedList, n)
  <2>1. n \in 0 .. Len(diskSlots) /\ n \in 0 .. Len(modifiedList)
    BY LenProperties DEF TypeOK, DiskTyped, ListsTyped, MinOf
  <2>2. Popped(diskSlots, n) \in Seq(DiskSlots) /\ Len(Popped(diskSlots, n)) = n
    BY <2>1, PopProperties DEF TypeOK, DiskTyped
  <2>3. batch \in Seq(Frames) /\ Len(batch) = n
    BY <2>1, PopProperties DEF TypeOK, ListsTyped
  <2>4. swapFrames' = batch /\ diskSlots' = Popped(diskSlots, n)
    BY DEF CollectModified
  <2>. QED  BY <2>2, <2>3, <2>4 DEF TypeOK, DiskTyped, CollectModified
<1>7. DiskControlled'
  <2> DEFINE n == MinOf(Len(diskSlots), Len(modifiedList))
             batch == Popped(modifiedList, n)
  <2>1. n \in 0 .. Len(diskSlots) /\ n \in 0 .. Len(modifiedList)
    BY LenProperties DEF TypeOK, DiskTyped, ListsTyped, MinOf
  <2>2. Popped(diskSlots, n) \in Seq(DiskSlots) /\ Len(Popped(diskSlots, n)) = n
    BY <2>1, PopProperties DEF TypeOK, DiskTyped
  <2>3. batch \in Seq(Frames) /\ Len(batch) = n
    BY <2>1, PopProperties DEF TypeOK, ListsTyped
  <2>4. swapFrames' = batch /\ diskSlots' = Popped(diskSlots, n)
    BY DEF CollectModified
  <2>5. (batch = <<>>) <=> (n = 0)
    BY <2>3, EmptySeq
  <2>6. diskPC' = IF n = 0 THEN "signal" ELSE "write"
    BY DEF CollectModified
  <2>7. Len(swapFrames') = Len(diskSlots')
    BY <2>2, <2>3, <2>4
  <2>. QED  BY <2>4, <2>5, <2>6, <2>7 DEF DiskControlled
<1>. QED  BY <1>1, <1>2, <1>3, <1>4, <1>5, <1>6, <1>7 DEF TypeOK, ControlOK

(* Writing a page to its slot keeps the types and the control.             *)
LEMMA WritePageTyped ==
    ASSUME TypeOK, ControlOK, halted = "running",
           WritePage
    PROVE  TypeOK' /\ ControlOK'
<1>1. PagesTyped' /\ FramesTyped' /\ ListsTyped' /\ SyncTyped' /\ UsersTyped' /\ TrimTyped'
  BY DEF TypeOK, PagesTyped, FramesTyped, ListsTyped, SyncTyped, UsersTyped, TrimTyped, WritePage
<1>2. UsersControlled' /\ TrimControlled' /\ CountControlled'
  BY DEF ControlOK, UsersControlled, TrimControlled, CountControlled, WritePage
<1>3. StorageTyped'
  <2>1. swapFrames # <<>>
    BY DEF ControlOK, DiskControlled, WritePage
  <2>2. swapFrames[1] \in Frames
    BY <2>1, PopFirstProperties DEF TypeOK, DiskTyped
  <2>3. ram[swapFrames[1]] \in SUBSET (Addresses \cup Garbage)
    BY <2>2 DEF TypeOK, StorageTyped
  <2>. QED  BY <2>3 DEF TypeOK, StorageTyped, WritePage
<1>4. DiskTyped'
  BY ConstantsAssumption
     DEF TypeOK, ListsTyped, DiskTyped, WritePage
<1>5. HistoryTyped'
  BY ConstantsAssumption
     DEF TypeOK, UsersTyped, HistoryTyped, WritePage
<1>6. DiskControlled'
  BY ConstantsAssumption
     DEF TypeOK, ControlOK, FramesTyped, ListsTyped, DiskTyped, DiskControlled,
         WritePage
<1>. QED  BY <1>1, <1>2, <1>3, <1>4, <1>5, <1>6 DEF TypeOK, ControlOK

(* Putting a written frame on standby keeps the types and the control.     *)
LEMMA PublishPageTyped ==
    ASSUME TypeOK, ControlOK, halted = "running",
           PublishPage
    PROVE  TypeOK' /\ ControlOK'
<1>1. PagesTyped' /\ UsersTyped' /\ TrimTyped' /\ HistoryTyped'
  BY DEF TypeOK, PagesTyped, UsersTyped, TrimTyped, HistoryTyped, PublishPage
<1>2. TrimControlled' /\ CountControlled'
  BY DEF ControlOK, TrimControlled, CountControlled, PublishPage
<1>3. FramesTyped'
  <2>1. swapFrames # <<>>
    BY DEF ControlOK, DiskControlled, PublishPage
  <2>2. swapFrames[1] \in Frames
    BY <2>1, PopFirstProperties DEF TypeOK, DiskTyped
  <2>3. Len(swapFrames) = Len(diskSlots) /\ Len(swapFrames) \in Nat /\ Len(swapFrames) >= 1
    BY <2>1, PopFirstProperties DEF TypeOK, DiskTyped, ControlOK, DiskControlled, PublishPage
  <2>4. diskSlots # <<>>
    BY <2>3, EmptySeq DEF TypeOK, DiskTyped
  <2>5. diskSlots[1] \in Nat
    BY <2>4, PopFirstProperties, ConstantProperties DEF TypeOK, DiskTyped
  <2>6. \A f \in Frames :
           OnStandby(OnDisk(UnmarkWritten(pfnArray[f]), diskSlots[1])) \in FrameRecords
    <3> TAKE f \in Frames
    <3>1. UnmarkWritten(pfnArray[f]) \in FrameRecords
      BY FrameFields DEF TypeOK, FramesTyped
    <3>2. OnDisk(UnmarkWritten(pfnArray[f]), diskSlots[1]) \in FrameRecords
      BY <2>5, <3>1, FrameFields
    <3>. QED  BY <3>2, FrameFields
  <2>. QED  BY <2>6 DEF TypeOK, FramesTyped, PublishPage
<1>4. StorageTyped'
  BY ConstantsAssumption
     DEF TypeOK, StorageTyped, PagesTyped, FramesTyped, UsersTyped,
         PublishPage, ReleaseDiskSlots, NextToWrite, DebugAssert, PTEs
<1>5. ListsTyped'
  <2>1. swapFrames # <<>>
    BY DEF ControlOK, DiskControlled, PublishPage
  <2>2. swapFrames[1] \in Frames
    BY <2>1, PopFirstProperties DEF TypeOK, DiskTyped
  <2>3. Len(swapFrames) = Len(diskSlots) /\ Len(swapFrames) \in Nat /\ Len(swapFrames) >= 1
    BY <2>1, PopFirstProperties DEF TypeOK, DiskTyped, ControlOK, DiskControlled, PublishPage
  <2>4. diskSlots # <<>>
    BY <2>3, EmptySeq DEF TypeOK, DiskTyped
  <2>5. AddToFrameList(standbyList, swapFrames[1]) \in Seq(Frames)
    BY <2>2, AddToFrameListProperties DEF TypeOK, ListsTyped
  <2>. QED  BY <2>5 DEF TypeOK, ListsTyped, PublishPage
<1>6. SyncTyped'
  BY ConstantsAssumption
     DEF TypeOK, SyncTyped, UsersTyped, PublishPage, ReleaseDiskSlots,
         NextToWrite, DebugAssert
<1>7. DiskTyped'
  <2>1. swapFrames # <<>>
    BY DEF ControlOK, DiskControlled, PublishPage
  <2>2. swapFrames[1] \in Frames
    BY <2>1, PopFirstProperties DEF TypeOK, DiskTyped
  <2>3. Len(swapFrames) = Len(diskSlots) /\ Len(swapFrames) \in Nat /\ Len(swapFrames) >= 1
    BY <2>1, PopFirstProperties DEF TypeOK, DiskTyped, ControlOK, DiskControlled, PublishPage
  <2>4. diskSlots # <<>>
    BY <2>3, EmptySeq DEF TypeOK, DiskTyped
  <2>5. /\ AfterPop(diskSlots, 1) \in Seq(DiskSlots)
        /\ Len(AfterPop(diskSlots, 1)) = Len(diskSlots) - 1
    BY <2>4, PopFirstProperties DEF TypeOK, DiskTyped
  <2>6. /\ AfterPop(swapFrames, 1) \in Seq(Frames)
        /\ Len(AfterPop(swapFrames, 1)) = Len(swapFrames) - 1
    BY <2>1, PopFirstProperties DEF TypeOK, DiskTyped
  <2>. QED  BY <2>5, <2>6 DEF TypeOK, DiskTyped, PublishPage, NextToWrite
<1>8. UsersControlled'
  BY ConstantsAssumption
     DEF TypeOK, ControlOK, PagesTyped, FramesTyped, SyncTyped, ListsTyped,
         UsersTyped, UsersControlled, PublishPage, ReleaseDiskSlots,
         NextToWrite, DebugAssert, UserPCs, NeedsFrame, Holding, PTEs
<1>9. DiskControlled'
  <2>1. swapFrames # <<>>
    BY DEF ControlOK, DiskControlled, PublishPage
  <2>2. swapFrames[1] \in Frames
    BY <2>1, PopFirstProperties DEF TypeOK, DiskTyped
  <2>3. Len(swapFrames) = Len(diskSlots) /\ Len(swapFrames) \in Nat /\ Len(swapFrames) >= 1
    BY <2>1, PopFirstProperties DEF TypeOK, DiskTyped, ControlOK, DiskControlled, PublishPage
  <2>4. diskSlots # <<>>
    BY <2>3, EmptySeq DEF TypeOK, DiskTyped
  <2>5. /\ AfterPop(diskSlots, 1) \in Seq(DiskSlots)
        /\ Len(AfterPop(diskSlots, 1)) = Len(diskSlots) - 1
    BY <2>4, PopFirstProperties DEF TypeOK, DiskTyped
  <2>6. /\ AfterPop(swapFrames, 1) \in Seq(Frames)
        /\ Len(AfterPop(swapFrames, 1)) = Len(swapFrames) - 1
    BY <2>1, PopFirstProperties DEF TypeOK, DiskTyped
  <2>7. CASE pfnArray[swapFrames[1]].isBeingWritten
    <3>1. /\ swapFrames' = AfterPop(swapFrames, 1) /\ diskSlots' = AfterPop(diskSlots, 1)
          /\ diskPC' = NextToWrite(swapFrames')
      BY <2>7 DEF PublishPage
    <3>2. Len(swapFrames') = Len(diskSlots')
      BY <3>1, <2>3, <2>5, <2>6
    <3>. QED  BY <3>1, <3>2 DEF DiskControlled, NextToWrite
  <2>8. CASE ~pfnArray[swapFrames[1]].isBeingWritten
    <3>1. /\ swapFrames' = swapFrames /\ diskSlots' = AfterPop(diskSlots, 1)
          /\ pfnArray' = pfnArray /\ diskPC' = "readWord"
      BY <2>8 DEF PublishPage
    <3>2. Len(swapFrames') = Len(diskSlots') + 1
      BY <3>1, <2>3, <2>5
    <3>. QED  BY <2>1, <2>8, <3>1, <3>2 DEF DiskControlled
  <2>. QED  BY <2>7, <2>8
<1>. QED  BY <1>1, <1>2, <1>3, <1>4, <1>5, <1>6, <1>7, <1>8, <1>9 DEF TypeOK, ControlOK

(* Reading a rescued frame's word keeps the types and the control.         *)
LEMMA ReadFrameWordTyped ==
    ASSUME TypeOK, ControlOK, halted = "running",
           ReadFrameWord
    PROVE  TypeOK' /\ ControlOK'
<1>1. PagesTyped' /\ FramesTyped' /\ StorageTyped' /\ ListsTyped' /\ SyncTyped' /\ UsersTyped' /\ TrimTyped' /\ HistoryTyped'
  BY DEF TypeOK, PagesTyped, FramesTyped, StorageTyped, ListsTyped, SyncTyped, UsersTyped, TrimTyped, HistoryTyped, ReadFrameWord
<1>2. UsersControlled' /\ TrimControlled' /\ CountControlled'
  BY DEF ControlOK, UsersControlled, TrimControlled, CountControlled, ReadFrameWord
<1>3. DiskTyped'
  <2>1. swapFrames # <<>>
    BY DEF ControlOK, DiskControlled, ReadFrameWord
  <2>2. swapFrames[1] \in Frames
    BY <2>1, PopFirstProperties DEF TypeOK, DiskTyped
  <2>. QED  BY <2>2 DEF TypeOK, DiskTyped, FramesTyped, ReadFrameWord
<1>4. DiskControlled'
  <2>1. swapFrames # <<>>
    BY DEF ControlOK, DiskControlled, ReadFrameWord
  <2>2. swapFrames[1] \in Frames
    BY <2>1, PopFirstProperties DEF TypeOK, DiskTyped
  <2>3. word' \in FrameRecords
    BY <2>2 DEF TypeOK, FramesTyped, ReadFrameWord
  <2>. QED  BY <2>1, <2>3 DEF ControlOK, DiskControlled, ReadFrameWord
<1>. QED  BY <1>1, <1>2, <1>3, <1>4 DEF TypeOK, ControlOK

(* Writing a rescued frame's word back keeps the types and the control.    *)
LEMMA WriteFrameWordTyped ==
    ASSUME TypeOK, ControlOK, halted = "running",
           WriteFrameWord
    PROVE  TypeOK' /\ ControlOK'
<1>1. PagesTyped' /\ StorageTyped' /\ ListsTyped' /\ SyncTyped' /\ UsersTyped' /\ TrimTyped'
  BY DEF TypeOK, PagesTyped, StorageTyped, ListsTyped, SyncTyped, UsersTyped, TrimTyped, WriteFrameWord
<1>2. UsersControlled' /\ TrimControlled' /\ CountControlled'
  BY DEF ControlOK, UsersControlled, TrimControlled, CountControlled, WriteFrameWord
<1>3. FramesTyped'
  <2>1. swapFrames # <<>>
    BY DEF ControlOK, DiskControlled, WriteFrameWord
  <2>2. swapFrames[1] \in Frames
    BY <2>1, PopFirstProperties DEF TypeOK, DiskTyped
  <2>3. word \in FrameRecords
    BY DEF TypeOK, DiskTyped, ControlOK, DiskControlled, WriteFrameWord
  <2>4. pfnArray[swapFrames[1]].PTE \in Pages \cup {None}
    BY <2>2 DEF TypeOK, FramesTyped, FrameRecords
  <2>5. [word EXCEPT !.PTE = pfnArray[swapFrames[1]].PTE, !.diskIndex = InvalidDiskSlot]
            \in FrameRecords
    BY <2>3, <2>4, ConstantProperties DEF FrameRecords
  <2>. QED  BY <2>5 DEF TypeOK, FramesTyped, WriteFrameWord
<1>4. DiskTyped'
  <2>1. swapFrames # <<>>
    BY DEF ControlOK, DiskControlled, WriteFrameWord
  <2>2. swapFrames[1] \in Frames
    BY <2>1, PopFirstProperties DEF TypeOK, DiskTyped
  <2>3. /\ AfterPop(swapFrames, 1) \in Seq(Frames)
        /\ Len(AfterPop(swapFrames, 1)) = Len(swapFrames) - 1
    BY <2>1, PopFirstProperties DEF TypeOK, DiskTyped
  <2>. QED  BY <2>3 DEF TypeOK, DiskTyped, WriteFrameWord, NextToWrite
<1>5. HistoryTyped'
  BY ConstantsAssumption
     DEF TypeOK, UsersTyped, HistoryTyped, WriteFrameWord, NextToWrite
<1>6. DiskControlled'
  <2>1. swapFrames # <<>>
    BY DEF ControlOK, DiskControlled, WriteFrameWord
  <2>2. swapFrames[1] \in Frames
    BY <2>1, PopFirstProperties DEF TypeOK, DiskTyped
  <2>3. /\ AfterPop(swapFrames, 1) \in Seq(Frames)
        /\ Len(AfterPop(swapFrames, 1)) = Len(swapFrames) - 1
    BY <2>1, PopFirstProperties DEF TypeOK, DiskTyped
  <2>4. Len(swapFrames) = Len(diskSlots) + 1 /\ Len(diskSlots) \in Nat
    BY LenProperties DEF TypeOK, DiskTyped, ControlOK, DiskControlled, WriteFrameWord
  <2>5. /\ swapFrames' = AfterPop(swapFrames, 1) /\ diskSlots' = diskSlots
        /\ diskPC' = NextToWrite(swapFrames')
    BY DEF WriteFrameWord
  <2>6. Len(swapFrames') = Len(diskSlots')
    BY <2>3, <2>4, <2>5
  <2>. QED  BY <2>5, <2>6 DEF DiskControlled, NextToWrite
<1>. QED  BY <1>1, <1>2, <1>3, <1>4, <1>5, <1>6 DEF TypeOK, ControlOK

(* Signalling the user threads keeps the types and the control.            *)
LEMMA SignalFinishedTyped ==
    ASSUME TypeOK, ControlOK, halted = "running",
           SignalFinished
    PROVE  TypeOK' /\ ControlOK'
<1>1. PagesTyped' /\ FramesTyped' /\ StorageTyped' /\ ListsTyped' /\ TrimTyped' /\ HistoryTyped'
  BY DEF TypeOK, PagesTyped, FramesTyped, StorageTyped, ListsTyped, TrimTyped, HistoryTyped, SignalFinished
<1>2. TrimControlled'
  BY DEF ControlOK, TrimControlled, SignalFinished
<1>3. SyncTyped'
  BY ConstantsAssumption
     DEF TypeOK, SyncTyped, UsersTyped, SignalFinished
<1>4. UsersTyped'
  BY ConstantsAssumption
     DEF TypeOK, PagesTyped, ListsTyped, UsersTyped, SignalFinished, UserPCs,
         PTEs
<1>5. DiskTyped'
  BY ConstantsAssumption
     DEF TypeOK, ListsTyped, DiskTyped, SignalFinished
<1>6. UsersControlled'
  BY ConstantsAssumption
     DEF TypeOK, ControlOK, PagesTyped, FramesTyped, SyncTyped, ListsTyped,
         UsersTyped, UsersControlled, SignalFinished, UserPCs, NeedsFrame,
         Holding, PTEs
<1>7. DiskControlled'
  BY ConstantsAssumption
     DEF TypeOK, ControlOK, FramesTyped, ListsTyped, DiskTyped, DiskControlled,
         SignalFinished
<1>8. CountControlled'
  BY ConstantsAssumption
     DEF TypeOK, ControlOK, UsersTyped, CountControlled, SignalFinished
<1>. QED  BY <1>1, <1>2, <1>3, <1>4, <1>5, <1>6, <1>7, <1>8 DEF TypeOK, ControlOK

-----------------------------------------------------------------------------
(* The initial state: every page untouched, every frame free, no thread    *)
(* begun.                                                                  *)
LEMMA TypeInit == Init => TypeOK /\ ControlOK
<1>. SUFFICES ASSUME Init PROVE TypeOK /\ ControlOK
  OBVIOUS
<1>. USE DEF Init
<1>1. PagesTyped
  BY PTEFormats DEF PagesTyped
<1>2. FramesTyped
  BY ConstantProperties DEF FramesTyped, FrameRecords
<1>3. StorageTyped
  BY DEF StorageTyped
<1>4. ListsTyped
  <2> DEFINE n == Len(PhysicalPageNumbers)
  <2>1. n \in Nat /\ \A i \in 1 .. n : PhysicalPageNumbers[i] \in Frames
    BY ConstantsAssumption, LenProperties DEF Frames
  <2>2. \A i \in 1 .. n : n + 1 - i \in 1 .. n
    BY <2>1
  <2>3. freeList \in [1 .. n -> Frames]
    BY <2>1, <2>2
  <2>4. freeList \in Seq(Frames)
    BY <2>1, <2>3, SeqDef
  <2>. QED  BY <2>4, EmptySeq DEF ListsTyped
<1>5. Cardinality(Users) \in Nat
  BY ConstantsAssumption, FS_CardinalityType
<1>6. SyncTyped
  BY <1>5 DEF SyncTyped
<1>7. UsersTyped
  BY PTEFormats, ConstantsAssumption DEF UsersTyped, UserPCs
<1>8. TrimTyped /\ DiskTyped
  BY EmptySeq DEF TrimTyped, DiskTyped
<1>9. HistoryTyped
  BY DEF HistoryTyped
<1>10. UsersControlled /\ TrimControlled
  BY DEF UsersControlled, NeedsFrame, Holding, TrimControlled
<1>11. DiskControlled
  BY DEF DiskControlled
<1>12. CountControlled
  <2>1. {u \in Users : pc[u] # "done"} = Users
    OBVIOUS
  <2>. QED  BY <2>1 DEF CountControlled
<1>. QED  BY <1>1, <1>2, <1>3, <1>4, <1>6, <1>7, <1>8, <1>9, <1>10, <1>11, <1>12
         DEF TypeOK, ControlOK

(* Every step, and a stuttering one, keeps both.                           *)
LEMMA TypeInductive == TypeOK /\ ControlOK /\ [Next]_vars => TypeOK' /\ ControlOK'
<1>. SUFFICES ASSUME TypeOK, ControlOK, [Next]_vars PROVE TypeOK' /\ ControlOK'
  OBVIOUS
<1>1. ASSUME halted = "running", NEW u \in Users, AccessStep(u) PROVE TypeOK' /\ ControlOK'
  BY <1>1, StoreTyped, FaultTyped DEF AccessStep
<1>2. ASSUME halted = "running", NEW u \in Users, ResolveStep(u) PROVE TypeOK' /\ ControlOK'
  BY <1>2, FaultOnValidTyped, ReleaseValidTyped, FaultInTransitionTyped, FaultOnAbsentTyped,
          RescueWrittenTyped, RescueModifiedTyped, RescueStandbyTyped,
          ReleaseRescuedSlotTyped, GetFreeFrameTyped, StandbyEmptyTyped,
          ResetFinishedTyped, RequestTrimTyped, WaitFinishedTyped,
          TakeStandbySameLockTyped, TakeStandbyOtherLockTyped, UpdateVictimTyped,
          ReacquireTyped, WipePageTyped, SwapFromDiskTyped, SwapFromDiskFailsTyped,
          CopyFromDiskTyped,
          MapPageTyped
     DEF ResolveStep
<1>3. ASSUME halted = "running", NEW u \in Users, Shutdown(u) PROVE TypeOK' /\ ControlOK'
  BY <1>3, ShutdownTyped
<1>4. ASSUME halted = "running", TrimStep PROVE TypeOK' /\ ControlOK'
  BY <1>4, TrimWaitTyped, PopActiveTyped, UnmapBatchTyped, FixPTETyped, AddModifiedTyped,
          SignalModWriteTyped
     DEF TrimStep
<1>5. ASSUME halted = "running", DiskStep PROVE TypeOK' /\ ControlOK'
  BY <1>5, DiskWaitTyped, ReserveSlotsTyped, CollectModifiedTyped, WritePageTyped,
          PublishPageTyped, ReadFrameWordTyped, WriteFrameWordTyped, SignalFinishedTyped
     DEF DiskStep
<1>6. ASSUME UNCHANGED vars PROVE TypeOK' /\ ControlOK'
  <2>1. PagesTyped' /\ FramesTyped' /\ StorageTyped' /\ ListsTyped' /\ SyncTyped'
    BY <1>6 DEF vars, TypeOK, PagesTyped, FramesTyped, StorageTyped, ListsTyped, SyncTyped
  <2>2. UsersTyped' /\ TrimTyped' /\ DiskTyped' /\ HistoryTyped'
    BY <1>6 DEF vars, TypeOK, UsersTyped, TrimTyped, DiskTyped, HistoryTyped
  <2>3. UsersControlled' /\ TrimControlled'
    BY <1>6 DEF vars, ControlOK, UsersControlled, TrimControlled
  <2>4. DiskControlled' /\ CountControlled'
    BY <1>6 DEF vars, ControlOK, DiskControlled, CountControlled
  <2>. QED  BY <2>1, <2>2, <2>3, <2>4 DEF TypeOK, ControlOK
<1>. QED  BY <1>1, <1>2, <1>3, <1>4, <1>5, <1>6 DEF Next, Stopped

(***************************************************************************)
(* In every state the program reaches, every variable has its type: a      *)
(* valid or transition PTE names a frame, a list holds frames only.        *)
(***************************************************************************)
THEOREM TypeCorrect == Spec => []TypeOK
<1>1. TypeOK /\ ControlOK => TypeOK
  OBVIOUS
<1>. QED  BY <1>1, TypeInit, TypeInductive, PTL DEF Spec

(***************************************************************************)
(* In every state the program reaches, what the threads hold agrees with   *)
(* where they are: no thread uses a frame it does not have, a batch's      *)
(* slots and frames stay paired, and numActiveUserThreads is the number of *)
(* threads that have not ended.                                            *)
(***************************************************************************)
THEOREM ControlCorrect == Spec => []ControlOK
<1>1. TypeOK /\ ControlOK => ControlOK
  OBVIOUS
<1>. QED  BY <1>1, TypeInit, TypeInductive, PTL DEF Spec

-----------------------------------------------------------------------------
(***************************************************************************)
(* Frames.  A frame is in exactly one place, whatever the threads do,      *)
(* until a frame is unlinked that is not in the list.                      *)
(*                                                                         *)
(* FrameInOnePlace speaks of the set of a frame's places.  Apart says the  *)
(* same pair by pair, which is easier to carry through a step: the frames  *)
(* of two lists, batches or hands never meet, and none is lost.  Apart is  *)
(* not inductive alone: a rescue unlinks the frame from the list its flag  *)
(* names, and an operation on a list that links a frame twice would leave  *)
(* it there.  With FlagsAgree, NoDuplicates, TypeOK and ControlOK it is;   *)
(* BatchApart says what a torn word can bring back, which is no more than  *)
(* the flag of the modified list, and what a rescue by that flag then      *)
(* unlinks ends the process at once.                                       *)
(* Each lemma below is about the actions that move frames in one way.      *)
(***************************************************************************)

(* Frame f is in a list, in trim's batch or still in the disk thread's.    *)
InAList(f) ==
    \/ f \in ToSet(freeList) \/ f \in ToSet(activeList) \/ f \in ToSet(modifiedList)
    \/ f \in ToSet(standbyList) \/ f \in ToSet(evictFrames) \/ f \in InWriting

InOneListOnly(f) ==
    /\ f \in ToSet(freeList) =>
           /\ f \notin ToSet(activeList) /\ f \notin ToSet(modifiedList)
           /\ f \notin ToSet(standbyList) /\ f \notin ToSet(evictFrames)
           /\ f \notin InWriting
    /\ f \in ToSet(activeList) =>
           /\ f \notin ToSet(modifiedList) /\ f \notin ToSet(standbyList)
           /\ f \notin ToSet(evictFrames) /\ f \notin InWriting
    /\ f \in ToSet(modifiedList) =>
           f \notin ToSet(standbyList) /\ f \notin ToSet(evictFrames) /\ f \notin InWriting
    /\ f \in ToSet(standbyList) => f \notin ToSet(evictFrames) /\ f \notin InWriting
    /\ f \in ToSet(evictFrames) => f \notin InWriting

(* No frame is lost, and none is in two places.                            *)
Apart ==
    /\ \A f \in Frames : InAList(f) \/ \E u \in Users : UserHolds(u, f)
    /\ \A f \in Frames : InOneListOnly(f)
    /\ \A f \in Frames, u \in Users : UserHolds(u, f) => ~InAList(f)
    /\ \A f \in Frames, u, v \in Users : UserHolds(u, f) /\ UserHolds(v, f) => u = v

(* No list or batch links a frame twice.                                   *)
NoDuplicates ==
    /\ IsInjective(freeList) /\ IsInjective(activeList) /\ IsInjective(modifiedList)
    /\ IsInjective(standbyList) /\ IsInjective(evictFrames)

Owned == Apart /\ NoDuplicates /\ FlagsAgree

(* The disk thread's batch: a frame it took has not come by way of the     *)
(* standby list since, so the word it writes back of a rescued frame has   *)
(* neither the mark nor the flag of the standby list set.                  *)
FromStandby == {"releaseSlot", "updateVictim", "reacquire"}

BatchFrame(f) ==
    /\ f \notin ToSet(standbyList)
    /\ \A u \in Users : pc[u] \in FromStandby => currentFrame[u] # f

BatchApart ==
    /\ IsInjective(swapFrames)
    /\ \A f \in ToSet(swapFrames) : BatchFrame(f)
    /\ diskPC = "writeWord" => ~word.isOnStandbyList /\ ~word.isBeingWritten

(* A window that was hit is not forgotten.                                 *)
TornKept == "wordTorn" \in races => "wordTorn" \in races'

(* What a step that moves no frame leaves as it is.                        *)
Queues == <<freeList, activeList, modifiedList, standbyList, evictFrames>>

SameFlags(f) ==
    /\ pfnArray'[f].isOnModifiedList = pfnArray[f].isOnModifiedList
    /\ pfnArray'[f].isOnStandbyList = pfnArray[f].isOnStandbyList
    /\ pfnArray'[f].isBeingWritten = pfnArray[f].isBeingWritten

SameHolders == \A v \in Users, f \in Frames : UserHolds(v, f)' <=> UserHolds(v, f)

(* User u, with no frame in its hands, takes frame f.                      *)
Takes(u, f) ==
    /\ \A g \in Frames : ~UserHolds(u, g)
    /\ \A v \in Users, g \in Frames :
           UserHolds(v, g)' <=> UserHolds(v, g) \/ (v = u /\ g = f)

(* User u, with frame f in its hands, lets go of it.                       *)
LetsGo(u, f) ==
    /\ UserHolds(u, f)
    /\ \A v \in Users, g \in Frames :
           UserHolds(v, g)' <=> UserHolds(v, g) /\ (v # u \/ g # f)

USE DEF Queues, TornKept

-----------------------------------------------------------------------------

(* The pairwise statement implies the property.                            *)
LEMMA ApartIsOnePlace ==
    ASSUME Apart, NEW f \in Frames
    PROVE  OnePlace(f)
<1>1. DOMAIN FramesAt = {"free", "active", "modified", "standby", "trim", "disk"}
  BY DEF FramesAt
<1>2. \A x : x \in Places(f) <=>
          \/ x = <<"at", "free">> /\ f \in ToSet(freeList)
          \/ x = <<"at", "active">> /\ f \in ToSet(activeList)
          \/ x = <<"at", "modified">> /\ f \in ToSet(modifiedList)
          \/ x = <<"at", "standby">> /\ f \in ToSet(standbyList)
          \/ x = <<"at", "trim">> /\ f \in ToSet(evictFrames)
          \/ x = <<"at", "disk">> /\ f \in InWriting
          \/ \E u \in Users : x = <<"user", u>> /\ UserHolds(u, f)
  BY <1>1 DEF Places, FramesAt
<1>3. \E x : x \in Places(f)
  BY <1>2 DEF Apart, InAList
<1>4. \A x, y : x \in Places(f) /\ y \in Places(f) => x = y
  BY <1>2 DEF Apart, InAList, InOneListOnly
<1>. QED  BY <1>3, <1>4 DEF OnePlace

(* Taking a frame from the only list or batch it is in.                    *)
LEMMA ApartTaken ==
    ASSUME Apart, NEW u \in Users, NEW f \in Frames, Takes(u, f), InAList(f),
           \A g \in Frames : InAList(g)' <=> InAList(g) /\ g # f,
           \A g \in Frames : InOneListOnly(g)'
    PROVE  Apart'
BY DEF Apart, Takes

(* Linking the frame in a thread's hands into one list.                    *)
LEMMA ApartLetGo ==
    ASSUME Apart, NEW u \in Users, NEW f \in Frames, LetsGo(u, f),
           \A g \in Frames : InAList(g)' <=> InAList(g) \/ g = f,
           \A g \in Frames : InOneListOnly(g)'
    PROVE  Apart'
BY DEF Apart, LetsGo

(* Moving frames between lists and batches.                                *)
LEMMA ApartMoved ==
    ASSUME Apart, SameHolders,
           \A g \in Frames : InAList(g)' <=> InAList(g),
           \A g \in Frames : InOneListOnly(g)'
    PROVE  Apart'
BY DEF Apart, SameHolders

(* A step that moves no frame and touches no flag keeps everything.        *)
LEMMA NothingMoves ==
    ASSUME TypeOK, TornKept, Owned, UNCHANGED <<Queues, swapFrames>>, SameHolders,
           \A f \in Frames : SameFlags(f)
    PROVE  Owned'
<1>1. ToSet(swapFrames) \subseteq Frames
  BY LenProperties, ElementOfSeq DEF TypeOK, DiskTyped, ToSet
<1>2. InWriting' = InWriting
  BY <1>1 DEF InWriting, SameFlags
<1>3. Apart'
  BY <1>2 DEF Owned, Apart, InAList, InOneListOnly, SameHolders
<1>4. NoDuplicates'
  BY DEF Owned, NoDuplicates
<1>5. FlagsAgree'
  BY DEF Owned, FlagsAgree, SameFlags
<1>. QED  BY <1>3, <1>4, <1>5 DEF Owned

(* The steps of a fault that leave every frame where it is.                *)
LEMMA UserStepsInPlace ==
    ASSUME TypeOK, TornKept, Owned, NEW u \in Users,
           \/ FaultOnValid(u) \/ ReleaseValid(u) \/ FaultInTransition(u) \/ FaultOnAbsent(u)
           \/ StandbyEmpty(u)
           \/ ResetFinished(u) \/ RequestTrim(u) \/ WaitFinished(u) \/ UpdateVictim(u)
           \/ WipePage(u) \/ CopyFromDisk(u) \/ SwapFromDiskFails(u)
    PROVE  Owned'
<1>1. CASE FaultOnValid(u) \/ ReleaseValid(u)
  <2>1. SameHolders
    BY <1>1 DEF TypeOK, UsersTyped, FaultOnValid, ReleaseValid, GoTo, SameHolders, UserHolds,
       Holding
  <2>2. \A f \in Frames : SameFlags(f)
    BY <1>1 DEF FaultOnValid, ReleaseValid, SameFlags
  <2>. QED  BY <1>1, <2>1, <2>2, NothingMoves DEF FaultOnValid, ReleaseValid
<1>2. CASE FaultInTransition(u)
  <2>1. SameHolders
    BY <1>2 DEF TypeOK, UsersTyped, FaultInTransition, GoTo, SameHolders, UserHolds, Holding
  <2>2. \A f \in Frames : SameFlags(f)
    BY <1>2 DEF FaultInTransition, SameFlags
  <2>. QED  BY <1>2, <2>1, <2>2, NothingMoves DEF FaultInTransition
<1>3. CASE FaultOnAbsent(u)
  <2>1. SameHolders
    BY <1>3 DEF TypeOK, UsersTyped, FaultOnAbsent, GoTo, SameHolders, UserHolds, Holding
  <2>2. \A f \in Frames : SameFlags(f)
    BY <1>3 DEF FaultOnAbsent, SameFlags
  <2>. QED  BY <1>3, <2>1, <2>2, NothingMoves DEF FaultOnAbsent
<1>4. CASE StandbyEmpty(u)
  <2>1. SameHolders
    BY <1>4 DEF TypeOK, UsersTyped, StandbyEmpty, GoTo, SameHolders, UserHolds, Holding
  <2>2. \A f \in Frames : SameFlags(f)
    BY <1>4 DEF StandbyEmpty, SameFlags
  <2>. QED  BY <1>4, <2>1, <2>2, NothingMoves DEF StandbyEmpty
<1>5. CASE ResetFinished(u)
  <2>1. SameHolders
    BY <1>5 DEF TypeOK, UsersTyped, ResetFinished, GoTo, SameHolders, UserHolds, Holding
  <2>2. \A f \in Frames : SameFlags(f)
    BY <1>5 DEF ResetFinished, SameFlags
  <2>. QED  BY <1>5, <2>1, <2>2, NothingMoves DEF ResetFinished
<1>6. CASE RequestTrim(u)
  <2>1. SameHolders
    BY <1>6 DEF TypeOK, UsersTyped, RequestTrim, GoTo, SameHolders, UserHolds, Holding
  <2>2. \A f \in Frames : SameFlags(f)
    BY <1>6 DEF RequestTrim, SameFlags
  <2>. QED  BY <1>6, <2>1, <2>2, NothingMoves DEF RequestTrim
<1>7. CASE WaitFinished(u)
  <2>1. SameHolders
    BY <1>7 DEF TypeOK, UsersTyped, WaitFinished, GoTo, AfterWait, SameHolders, UserHolds, Holding
  <2>2. \A f \in Frames : SameFlags(f)
    BY <1>7 DEF WaitFinished, SameFlags
  <2>. QED  BY <1>7, <2>1, <2>2, NothingMoves DEF WaitFinished
<1>8. CASE UpdateVictim(u)
  <2>1. SameHolders
    BY <1>8 DEF TypeOK, UsersTyped, UpdateVictim, GoTo, SameHolders, UserHolds, Holding
  <2>2. \A f \in Frames : SameFlags(f)
    BY <1>8 DEF UpdateVictim, SameFlags
  <2>. QED  BY <1>8, <2>1, <2>2, NothingMoves DEF UpdateVictim
<1>9. CASE WipePage(u)
  <2>1. SameHolders
    BY <1>9 DEF TypeOK, UsersTyped, WipePage, GoTo, SameHolders, UserHolds, Holding
  <2>2. \A f \in Frames : SameFlags(f)
    BY <1>9 DEF WipePage, SameFlags
  <2>. QED  BY <1>9, <2>1, <2>2, NothingMoves DEF WipePage
<1>10. CASE CopyFromDisk(u)
  <2>1. SameHolders
    BY <1>10 DEF TypeOK, UsersTyped, CopyFromDisk, GoTo, SameHolders, UserHolds, Holding
  <2>2. \A f \in Frames : SameFlags(f)
    BY <1>10 DEF CopyFromDisk, SameFlags
  <2>. QED  BY <1>10, <2>1, <2>2, NothingMoves DEF CopyFromDisk
<1>11. CASE SwapFromDiskFails(u)
  <2>1. SameHolders
    BY <1>11 DEF TypeOK, UsersTyped, SwapFromDiskFails, GoTo, SameHolders, UserHolds, Holding
  <2>2. \A f \in Frames : SameFlags(f)
    BY <1>11 DEF SwapFromDiskFails, SameFlags
  <2>. QED  BY <1>11, <2>1, <2>2, NothingMoves DEF SwapFromDiskFails
<1>. QED  BY <1>1, <1>2, <1>3, <1>4, <1>5, <1>6, <1>7, <1>8, <1>9, <1>10, <1>11

(* Releasing a slot leaves the frame in the hands that hold it.            *)
LEMMA SlotStepsInPlace ==
    ASSUME TypeOK, ControlOK, TornKept, Owned, NEW u \in Users, ReleaseRescuedSlot(u) \/ SwapFromDisk(u)
    PROVE  Owned'
<1>1. \A f \in Frames : SameFlags(f)
  <2>1. InvalidDiskSlot \in Nat
    BY ConstantProperties
  <2>2. \A f \in Frames : pfnArray[f] \in FrameRecords
    BY DEF TypeOK, FramesTyped
  <2>3. \A f \in Frames : pfnArray'[f] \in {pfnArray[f], OnDisk(pfnArray[f], InvalidDiskSlot)}
    BY DEF TypeOK, FramesTyped, ReleaseRescuedSlot, SwapFromDisk
  <2>. QED
    <3> TAKE f \in Frames
    <3>1. pfnArray[f] \in FrameRecords
      BY <2>2
    <3>2. \/ pfnArray'[f] = pfnArray[f]
          \/ pfnArray'[f] = OnDisk(pfnArray[f], InvalidDiskSlot)
      BY <2>3
    <3>. QED  BY <3>1, <3>2 DEF SameFlags, OnDisk, FrameRecords
<1>2. SameHolders
  BY DEF TypeOK, UsersTyped, ReleaseRescuedSlot, SwapFromDisk, GoTo, SameHolders, UserHolds,
         Holding
<1>. QED  BY <1>1, <1>2, NothingMoves DEF ReleaseRescuedSlot, SwapFromDisk

(* The steps of an access that leave every frame where it is.              *)
LEMMA AccessStepsInPlace ==
    ASSUME TypeOK, TornKept, Owned, NEW u \in Users, AccessStep(u) \/ Shutdown(u)
    PROVE  Owned'
<1>1. \A f \in Frames : SameFlags(f)
  BY DEF AccessStep, Store, Fault, Shutdown, SameFlags
<1>2. SameHolders
  <2>1. CASE \E p \in Pages, w \in Words : Store(u, p, w)
    BY <2>1 DEF Store, SameHolders, UserHolds
  <2>2. CASE \E p \in Pages, w \in Words : Fault(u, p, w)
    BY <2>2 DEF TypeOK, UsersTyped, Fault, Accesses, GoTo, SameHolders, UserHolds, Holding
  <2>3. CASE Shutdown(u)
    BY <2>3 DEF TypeOK, UsersTyped, Shutdown, GoTo, SameHolders, UserHolds, Holding
  <2>. QED  BY <2>1, <2>2, <2>3 DEF AccessStep
<1>3. UNCHANGED <<Queues, swapFrames>>
  BY DEF AccessStep, Store, Fault, Shutdown
<1>. QED  BY <1>1, <1>2, <1>3, NothingMoves

(* The steps of the trim and disk threads that leave every frame where it  *)
(* is.                                                                     *)
LEMMA OtherStepsInPlace ==
    ASSUME TypeOK, TornKept, Owned,
           \/ TrimWait \/ UnmapBatch \/ FixPTE \/ SignalModWrite
           \/ DiskWait \/ ReserveSlots \/ WritePage \/ ReadFrameWord \/ SignalFinished
    PROVE  Owned'
<1>1. CASE TrimWait \/ UnmapBatch \/ SignalModWrite \/ DiskWait \/ ReserveSlots \/ WritePage
           \/ ReadFrameWord
  <2>1. UNCHANGED <<pfnArray, Queues, swapFrames, pc, currentFrame>>
    BY <1>1 DEF TrimWait, UnmapBatch, SignalModWrite, DiskWait, ReserveSlots, WritePage,
                ReadFrameWord
  <2>. QED  BY <2>1, NothingMoves DEF SameFlags, SameHolders, UserHolds
<1>2. CASE SignalFinished
  <2>1. SameHolders
    BY <1>2 DEF TypeOK, UsersTyped, SignalFinished, SameHolders, UserHolds, Holding
  <2>. QED  BY <1>2, <2>1, NothingMoves DEF SignalFinished, SameFlags
<1>3. CASE FixPTE
  <2>1. \A f \in Frames : pfnArray[f] \in FrameRecords
    BY DEF TypeOK, FramesTyped
  <2>2. \A f \in Frames : pfnArray'[f] \in {pfnArray[f], OnDisk(pfnArray[f], 0)}
    BY <1>3 DEF TypeOK, FramesTyped, FixPTE
  <2>3. \A f \in Frames : SameFlags(f)
    <3> TAKE f \in Frames
    <3>1. pfnArray[f] \in FrameRecords
      BY <2>1
    <3>2. pfnArray'[f] = pfnArray[f] \/ pfnArray'[f] = OnDisk(pfnArray[f], 0)
      BY <2>2
    <3>. QED  BY <3>1, <3>2 DEF SameFlags, OnDisk, FrameRecords
  <2>. QED  BY <1>3, <2>3, NothingMoves DEF FixPTE, SameHolders, UserHolds
<1>. QED  BY <1>1, <1>2, <1>3

(* What the disk thread holds depends on its batch and the marks alone.    *)
LEMMA WritingKept ==
    ASSUME TypeOK, swapFrames' = swapFrames,
           \A f \in Frames : pfnArray'[f].isBeingWritten = pfnArray[f].isBeingWritten
    PROVE  InWriting' = InWriting
<1>1. ToSet(swapFrames) \subseteq Frames
  BY LenProperties, ElementOfSeq DEF TypeOK, DiskTyped, ToSet
<1>. QED  BY <1>1 DEF InWriting

(* Clearing the mark of a frame takes it out of the disk thread's hands.   *)
LEMMA RescueWrittenMoves ==
    ASSUME TypeOK, ControlOK, TornKept, Owned, NEW u \in Users, RescueWritten(u)
    PROVE  Owned'
<1>1. CASE ~pfnArray[currentFrame[u]].isBeingWritten
  <2>1. UNCHANGED <<pfnArray, Queues, swapFrames>>
    BY <1>1 DEF RescueWritten
  <2>2. SameHolders
    BY <1>1 DEF TypeOK, UsersTyped, RescueWritten, GoTo, SameHolders, UserHolds, Holding
  <2>. QED  BY <2>1, <2>2, NothingMoves DEF SameFlags
<1>2. CASE pfnArray[currentFrame[u]].isBeingWritten
  <2>1. PICK f \in Frames : f = currentFrame[u]
    BY WorksOnFrame DEF RescueWritten, NeedsFrame
  <2>2. /\ UNCHANGED <<Queues, swapFrames>>
        /\ pfnArray' = [pfnArray EXCEPT ![f] = UnmarkWritten(pfnArray[f])]
    BY <1>2, <2>1 DEF RescueWritten
  <2>3. pfnArray[f] \in FrameRecords
    BY DEF TypeOK, FramesTyped
  <2>4. /\ \A g \in Frames : g # f => pfnArray'[g] = pfnArray[g]
        /\ pfnArray'[f].isBeingWritten = FALSE
        /\ pfnArray'[f].isOnModifiedList = pfnArray[f].isOnModifiedList
        /\ pfnArray'[f].isOnStandbyList = pfnArray[f].isOnStandbyList
    BY <2>2, <2>3 DEF TypeOK, FramesTyped, FrameRecords, UnmarkWritten
  <2>5. f \in InWriting
    BY <1>2, <2>1 DEF Owned, FlagsAgree, InWriting
  <2>6. InWriting' = InWriting \ {f}
    <3>1. ToSet(swapFrames) \subseteq Frames
      BY LenProperties, ElementOfSeq DEF TypeOK, DiskTyped, ToSet
    <3>. QED  BY <2>2, <2>4, <3>1 DEF InWriting
  <2>7. Takes(u, f)
    BY <1>2, <2>1 DEF TypeOK, UsersTyped, RescueWritten, GoTo, Takes, UserHolds, Holding
  <2>8. Apart'
    <3>1. InAList(f) /\ \A g \in Frames : InOneListOnly(g)
      BY <2>2, <2>5, <2>6 DEF Owned, Apart, InAList
    <3>2. \A g \in Frames : InAList(g)' <=> InAList(g) /\ g # f
      BY <2>2, <2>5, <2>6, <3>1 DEF InAList, InOneListOnly
    <3>3. \A g \in Frames : InOneListOnly(g)'
      BY <2>2, <2>5, <2>6, <3>1 DEF InAList, InOneListOnly
    <3>. QED  BY <2>7, <3>2, <3>3, <3>1, ApartTaken DEF Owned
  <2>9. NoDuplicates' /\ FlagsAgree'
    BY <2>2, <2>4 DEF Owned, NoDuplicates, FlagsAgree
  <2>. QED  BY <2>8, <2>9 DEF Owned
<1>. QED  BY <1>1, <1>2

(* A rescued modified frame goes from the modified list to the thread, if  *)
(* its flag is right.                                                      *)
LEMMA RescueModifiedMoves ==
    ASSUME TypeOK, ControlOK, TornKept, Owned, NEW u \in Users, RescueModified(u),
           pfnArray[currentFrame[u]].isOnModifiedList => currentFrame[u] \in ToSet(modifiedList)
    PROVE  Owned'
<1>1. CASE ~pfnArray[currentFrame[u]].isOnModifiedList
  <2>1. UNCHANGED <<pfnArray, Queues, swapFrames>>
    BY <1>1 DEF RescueModified
  <2>2. SameHolders
    BY <1>1 DEF TypeOK, UsersTyped, RescueModified, GoTo, SameHolders, UserHolds, Holding
  <2>. QED  BY <2>1, <2>2, NothingMoves DEF SameFlags
<1>2. CASE pfnArray[currentFrame[u]].isOnModifiedList
  <2>1. PICK f \in Frames : f = currentFrame[u]
    BY WorksOnFrame DEF RescueModified, NeedsFrame
  <2>2. /\ modifiedList' = RemoveFromFrameList(modifiedList, f)
        /\ UNCHANGED <<freeList, activeList, standbyList, evictFrames, swapFrames>>
        /\ pfnArray' = [pfnArray EXCEPT ![f] = OffModified(pfnArray[f])]
    BY <1>2, <2>1 DEF RescueModified
  <2>3. pfnArray[f] \in FrameRecords
    BY DEF TypeOK, FramesTyped
  <2>4. /\ \A g \in Frames : g # f => pfnArray'[g] = pfnArray[g]
        /\ pfnArray'[f].isOnModifiedList = FALSE
        /\ pfnArray'[f].isOnStandbyList = pfnArray[f].isOnStandbyList
        /\ pfnArray'[f].isBeingWritten = pfnArray[f].isBeingWritten
    BY <2>2, <2>3 DEF TypeOK, FramesTyped, FrameRecords, OffModified
  <2>5. f \in ToSet(modifiedList)
    BY <1>2, <2>1
  <2>6. IsInjective(modifiedList') /\ ToSet(modifiedList') = ToSet(modifiedList) \ {f}
    BY <2>2, RemoveFromFrameListProperties DEF TypeOK, ListsTyped, Owned, NoDuplicates
  <2>7. InWriting' = InWriting
    BY <2>2, <2>4, WritingKept
  <2>8. Takes(u, f)
    BY <1>2, <2>1 DEF TypeOK, UsersTyped, RescueModified, GoTo, Takes, UserHolds, Holding
  <2>9. Apart'
    <3>1. InAList(f) /\ \A g \in Frames : InOneListOnly(g)
      BY <2>2, <2>5, <2>6, <2>7 DEF Owned, Apart, InAList
    <3>2. \A g \in Frames : InAList(g)' <=> InAList(g) /\ g # f
      BY <2>2, <2>5, <2>6, <2>7, <3>1 DEF InAList, InOneListOnly
    <3>3. \A g \in Frames : InOneListOnly(g)'
      BY <2>2, <2>5, <2>6, <2>7, <3>1 DEF InAList, InOneListOnly
    <3>. QED  BY <2>8, <3>2, <3>3, <3>1, ApartTaken DEF Owned
  <2>10. NoDuplicates' /\ FlagsAgree'
    BY <2>2, <2>4, <2>6 DEF Owned, NoDuplicates, FlagsAgree
  <2>. QED  BY <2>9, <2>10 DEF Owned
<1>. QED  BY <1>1, <1>2

(* A rescued standby frame goes from the standby list to the thread.       *)
LEMMA RescueStandbyMoves ==
    ASSUME TypeOK, ControlOK, TornKept, Owned, NEW u \in Users, RescueStandby(u)
    PROVE  Owned'
<1>1. CASE ~pfnArray[currentFrame[u]].isOnStandbyList
  <2>1. UNCHANGED <<pfnArray, Queues, swapFrames>>
    BY <1>1 DEF RescueStandby
  <2>2. SameHolders
    BY <1>1 DEF TypeOK, UsersTyped, RescueStandby, GoTo, SameHolders, UserHolds, Holding
  <2>. QED  BY <2>1, <2>2, NothingMoves DEF SameFlags
<1>2. CASE pfnArray[currentFrame[u]].isOnStandbyList
  <2>1. PICK f \in Frames : f = currentFrame[u]
    BY WorksOnFrame DEF RescueStandby, NeedsFrame
  <2>2. /\ standbyList' = RemoveFromFrameList(standbyList, f)
        /\ UNCHANGED <<freeList, activeList, modifiedList, evictFrames, swapFrames>>
        /\ pfnArray' = [pfnArray EXCEPT ![f] = OffStandby(pfnArray[f])]
    BY <1>2, <2>1 DEF RescueStandby
  <2>3. pfnArray[f] \in FrameRecords
    BY DEF TypeOK, FramesTyped
  <2>4. /\ \A g \in Frames : g # f => pfnArray'[g] = pfnArray[g]
        /\ pfnArray'[f].isOnStandbyList = FALSE
        /\ pfnArray'[f].isOnModifiedList = pfnArray[f].isOnModifiedList
        /\ pfnArray'[f].isBeingWritten = pfnArray[f].isBeingWritten
    BY <2>2, <2>3 DEF TypeOK, FramesTyped, FrameRecords, OffStandby
  <2>5. f \in ToSet(standbyList)
    BY <1>2, <2>1 DEF Owned, FlagsAgree
  <2>6. IsInjective(standbyList') /\ ToSet(standbyList') = ToSet(standbyList) \ {f}
    BY <2>2, RemoveFromFrameListProperties DEF TypeOK, ListsTyped, Owned, NoDuplicates
  <2>7. InWriting' = InWriting
    BY <2>2, <2>4, WritingKept
  <2>8. Takes(u, f)
    BY <1>2, <2>1 DEF TypeOK, UsersTyped, RescueStandby, GoTo, Takes, UserHolds, Holding
  <2>9. Apart'
    <3>1. InAList(f) /\ \A g \in Frames : InOneListOnly(g)
      BY <2>2, <2>5, <2>6, <2>7 DEF Owned, Apart, InAList
    <3>2. \A g \in Frames : InAList(g)' <=> InAList(g) /\ g # f
      BY <2>2, <2>5, <2>6, <2>7, <3>1 DEF InAList, InOneListOnly
    <3>3. \A g \in Frames : InOneListOnly(g)'
      BY <2>2, <2>5, <2>6, <2>7, <3>1 DEF InAList, InOneListOnly
    <3>. QED  BY <2>8, <3>2, <3>3, <3>1, ApartTaken DEF Owned
  <2>10. NoDuplicates' /\ FlagsAgree'
    BY <2>2, <2>4, <2>6 DEF Owned, NoDuplicates, FlagsAgree
  <2>. QED  BY <2>9, <2>10 DEF Owned
<1>. QED  BY <1>1, <1>2

(* A free frame goes from the free list to the thread.                     *)
LEMMA GetFreeFrameMoves ==
    ASSUME TypeOK, ControlOK, TornKept, Owned, NEW u \in Users, GetFreeFrame(u)
    PROVE  Owned'
<1>1. CASE freeList = <<>>
  <2>1. UNCHANGED <<pfnArray, Queues, swapFrames>>
    BY <1>1 DEF GetFreeFrame
  <2>2. SameHolders
    BY <1>1 DEF TypeOK, UsersTyped, GetFreeFrame, GoTo, SameHolders, UserHolds, Holding
  <2>. QED  BY <2>1, <2>2, NothingMoves DEF SameFlags
<1>2. CASE freeList # <<>>
  <2>1. PICK f \in Frames : f = freeList[1]
    BY <1>2, PopFirstProperties DEF TypeOK, ListsTyped
  <2>2. /\ freeList' = AfterPop(freeList, 1)
        /\ UNCHANGED <<activeList, modifiedList, standbyList, evictFrames, swapFrames, pfnArray>>
    BY <1>2 DEF GetFreeFrame
  <2>3. /\ f \in ToSet(freeList)
        /\ IsInjective(freeList') /\ ToSet(freeList') = ToSet(freeList) \ {f}
    BY <1>2, <2>1, <2>2, PopFirstProperties DEF TypeOK, ListsTyped, Owned, NoDuplicates
  <2>4. InWriting' = InWriting
    BY <2>2, WritingKept
  <2>5. Takes(u, f)
    BY <1>2, <2>1 DEF TypeOK, UsersTyped, GetFreeFrame, GoTo, Takes, UserHolds, Holding
  <2>6. Apart'
    <3>1. InAList(f) /\ \A g \in Frames : InOneListOnly(g)
      BY <2>2, <2>3, <2>4 DEF Owned, Apart, InAList
    <3>2. \A g \in Frames : InAList(g)' <=> InAList(g) /\ g # f
      BY <2>2, <2>3, <2>4, <3>1 DEF InAList, InOneListOnly
    <3>3. \A g \in Frames : InOneListOnly(g)'
      BY <2>2, <2>3, <2>4, <3>1 DEF InAList, InOneListOnly
    <3>. QED  BY <2>5, <3>2, <3>3, <3>1, ApartTaken DEF Owned
  <2>7. NoDuplicates' /\ FlagsAgree'
    BY <2>2, <2>3 DEF Owned, NoDuplicates, FlagsAgree
  <2>. QED  BY <2>6, <2>7 DEF Owned
<1>. QED  BY <1>1, <1>2

(* A repurposed frame goes from the standby list to the thread.            *)
LEMMA TakeStandbyMoves ==
    ASSUME TypeOK, ControlOK, TornKept, Owned, NEW u \in Users,
           TakeStandbySameLock(u) \/ TakeStandbyOtherLock(u)
    PROVE  Owned'
<1>1. standbyList # <<>>
  BY DEF TakeStandbySameLock, TakeStandbyOtherLock
<1>2. PICK f \in Frames : f = standbyList[1]
  BY <1>1, PopFirstProperties DEF TypeOK, ListsTyped
<1>3. /\ standbyList' = AfterPop(standbyList, 1)
      /\ UNCHANGED <<freeList, activeList, modifiedList, evictFrames, swapFrames>>
  BY DEF TakeStandbySameLock, TakeStandbyOtherLock
<1>4. /\ f \in ToSet(standbyList)
      /\ IsInjective(standbyList') /\ ToSet(standbyList') = ToSet(standbyList) \ {f}
  BY <1>1, <1>2, <1>3, PopFirstProperties DEF TypeOK, ListsTyped, Owned, NoDuplicates
<1>5. /\ \A g \in Frames : g # f => pfnArray'[g] = pfnArray[g]
      /\ pfnArray'[f].isOnStandbyList = FALSE
      /\ pfnArray'[f].isOnModifiedList = pfnArray[f].isOnModifiedList
      /\ pfnArray'[f].isBeingWritten = pfnArray[f].isBeingWritten
  <2>1. pfnArray[f] \in FrameRecords /\ InvalidDiskSlot \in Nat
    BY ConstantProperties DEF TypeOK, FramesTyped
  <2>3. /\ \A g \in Frames : g # f => pfnArray'[g] = pfnArray[g]
        /\ pfnArray'[f] \in {OffStandby(pfnArray[f]),
                             OnDisk(OffStandby(pfnArray[f]), InvalidDiskSlot)}
    BY <1>2 DEF TypeOK, FramesTyped, TakeStandbySameLock, TakeStandbyOtherLock
  <2>. QED  BY <2>1, <2>3 DEF FrameRecords, OffStandby, OnDisk
<1>6. InWriting' = InWriting
  BY <1>3, <1>5, WritingKept
<1>7. Takes(u, f)
  <2>1. currentFrame' = [currentFrame EXCEPT ![u] = f]
    BY <1>2 DEF TakeStandbySameLock, TakeStandbyOtherLock
  <2>2. \E next \in Holding : pc' = [pc EXCEPT ![u] = next]
    BY DEF TakeStandbySameLock, TakeStandbyOtherLock, GoTo, FillStep, Holding
  <2>3. \A g \in Frames : ~UserHolds(u, g)
    BY DEF TakeStandbySameLock, TakeStandbyOtherLock, UserHolds, Holding
  <2>. QED  BY <2>1, <2>2, <2>3 DEF TypeOK, UsersTyped, Takes, UserHolds
<1>8. Apart'
  <2>1. InAList(f) /\ \A g \in Frames : InOneListOnly(g)
    BY <1>3, <1>4, <1>6 DEF Owned, Apart, InAList
  <2>2. \A g \in Frames : InAList(g)' <=> InAList(g) /\ g # f
    BY <1>3, <1>4, <1>6, <2>1 DEF InAList, InOneListOnly
  <2>3. \A g \in Frames : InOneListOnly(g)'
    BY <1>3, <1>4, <1>6, <2>1 DEF InAList, InOneListOnly
  <2>. QED  BY <1>7, <2>2, <2>3, <2>1, ApartTaken DEF Owned
<1>9. NoDuplicates' /\ FlagsAgree'
  BY <1>3, <1>4, <1>5 DEF Owned, NoDuplicates, FlagsAgree
<1>. QED  BY <1>8, <1>9 DEF Owned

(* A thread that finds its page mapped after all puts the frame back on    *)
(* standby; otherwise it keeps it.                                         *)
LEMMA ReacquireMoves ==
    ASSUME TypeOK, ControlOK, TornKept, Owned, NEW u \in Users, Reacquire(u)
    PROVE  Owned'
<1> DEFINE resolved == pageTable[Page(u)].isValid = 1 /\ pageTable[Page(u)].isTransition = 0
<1>1. CASE ~resolved
  <2>1. UNCHANGED <<pfnArray, Queues, swapFrames, currentFrame>>
    BY <1>1 DEF Reacquire
  <2>2. \E next \in Holding : pc' = [pc EXCEPT ![u] = next]
    BY <1>1 DEF Reacquire, GoTo, FillStep, Holding
  <2>3. SameHolders
    BY <2>1, <2>2 DEF TypeOK, UsersTyped, Reacquire, SameHolders, UserHolds, Holding
  <2>. QED  BY <2>1, <2>3, NothingMoves DEF SameFlags
<1>2. CASE resolved
  <2>1. PICK f \in Frames : f = currentFrame[u]
    BY WorksOnFrame DEF Reacquire, NeedsFrame, Holding
  <2>2. /\ standbyList' = AddToFrameList(standbyList, f)
        /\ UNCHANGED <<freeList, activeList, modifiedList, evictFrames, swapFrames>>
        /\ pfnArray' = [pfnArray EXCEPT ![f] = OnStandby(pfnArray[f])]
    BY <1>2, <2>1 DEF Reacquire
  <2>3. UserHolds(u, f)
    BY <2>1 DEF Reacquire, UserHolds, Holding
  <2>4. pfnArray[f] \in FrameRecords
    BY DEF TypeOK, FramesTyped
  <2>5. /\ \A g \in Frames : g # f => pfnArray'[g] = pfnArray[g]
        /\ pfnArray'[f].isOnStandbyList = TRUE
        /\ pfnArray'[f].isOnModifiedList = FALSE
        /\ pfnArray'[f].isBeingWritten = pfnArray[f].isBeingWritten
    BY <2>2, <2>4 DEF TypeOK, FramesTyped, FrameRecords, OnStandby
  <2>6. /\ f \notin ToSet(standbyList) /\ f \notin ToSet(modifiedList)
        /\ ToSet(standbyList') = ToSet(standbyList) \cup {f}
        /\ IsInjective(standbyList')
    BY <2>2, <2>3, AddToFrameListProperties
       DEF TypeOK, ListsTyped, Owned, Apart, InAList, InOneListOnly, NoDuplicates
  <2>7. InWriting' = InWriting
    BY <2>2, <2>5, WritingKept
  <2>8. LetsGo(u, f)
    BY <1>2, <2>1, <2>3 DEF TypeOK, UsersTyped, Reacquire, GoTo, LetsGo, UserHolds, Holding
  <2>9. Apart'
    <3>1. ~InAList(f) /\ \A g \in Frames : InOneListOnly(g)
      BY <2>2, <2>3, <2>6, <2>7, <2>8 DEF Owned, Apart, LetsGo
    <3>2. \A g \in Frames : InAList(g)' <=> InAList(g) \/ g = f
      BY <2>2, <2>3, <2>6, <2>7, <3>1 DEF InAList, InOneListOnly
    <3>3. \A g \in Frames : InOneListOnly(g)'
      BY <2>2, <2>3, <2>6, <2>7, <3>1 DEF InAList, InOneListOnly
    <3>. QED  BY <2>8, <3>2, <3>3, <3>1, ApartLetGo DEF Owned
  <2>10. NoDuplicates' /\ FlagsAgree'
    BY <2>2, <2>5, <2>6 DEF Owned, NoDuplicates, FlagsAgree
  <2>. QED  BY <2>9, <2>10 DEF Owned
<1>. QED  BY <1>1, <1>2

(* A mapped frame goes from the thread to the active list.                 *)
LEMMA MapPageMoves ==
    ASSUME TypeOK, ControlOK, TornKept, Owned, NEW u \in Users, MapPage(u)
    PROVE  Owned'
<1>1. PICK f \in Frames : f = currentFrame[u]
  BY WorksOnFrame DEF MapPage, NeedsFrame, Holding
<1>2. /\ activeList' = AddToFrameListTail(activeList, f)
      /\ UNCHANGED <<freeList, standbyList, modifiedList, evictFrames, swapFrames>>
      /\ pfnArray' = [pfnArray EXCEPT ![f] = OwnedBy(pfnArray[f], Page(u))]
  BY <1>1 DEF MapPage
<1>3. UserHolds(u, f)
  BY <1>1 DEF MapPage, UserHolds, Holding
<1>4. \A g \in Frames : SameFlags(g)
  <2>1. pfnArray[f] \in FrameRecords /\ Page(u) \in Pages
    BY WorksOnPage DEF TypeOK, FramesTyped, MapPage
  <2>2. /\ \A g \in Frames : g # f => pfnArray'[g] = pfnArray[g]
        /\ pfnArray'[f] = OwnedBy(pfnArray[f], Page(u))
    BY <1>2 DEF TypeOK, FramesTyped
  <2>. QED  BY <2>1, <2>2 DEF SameFlags, FrameRecords, OwnedBy
<1>5. /\ f \notin ToSet(activeList)
      /\ ToSet(activeList') = ToSet(activeList) \cup {f}
      /\ IsInjective(activeList')
  BY <1>2, <1>3, AddToFrameListTailProperties
     DEF TypeOK, ListsTyped, Owned, Apart, InAList, InOneListOnly, NoDuplicates
<1>6. InWriting' = InWriting
  BY <1>2, <1>4, WritingKept DEF SameFlags
<1>7. LetsGo(u, f)
  BY <1>1, <1>3 DEF TypeOK, UsersTyped, MapPage, GoTo, LetsGo, UserHolds, Holding
<1>8. Apart'
  <2>1. ~InAList(f) /\ \A g \in Frames : InOneListOnly(g)
    BY <1>2, <1>3, <1>5, <1>6, <1>7 DEF Owned, Apart, LetsGo
  <2>2. \A g \in Frames : InAList(g)' <=> InAList(g) \/ g = f
    BY <1>2, <1>3, <1>5, <1>6, <2>1 DEF InAList, InOneListOnly
  <2>3. \A g \in Frames : InOneListOnly(g)'
    BY <1>2, <1>3, <1>5, <1>6, <2>1 DEF InAList, InOneListOnly
  <2>. QED  BY <1>7, <2>2, <2>3, <2>1, ApartLetGo DEF Owned
<1>9. NoDuplicates' /\ FlagsAgree'
  BY <1>2, <1>4, <1>5 DEF Owned, NoDuplicates, FlagsAgree, SameFlags
<1>. QED  BY <1>8, <1>9 DEF Owned

(* A batch of active frames goes to the trim thread.                       *)
LEMMA PopActiveMoves ==
    ASSUME TypeOK, ControlOK, TornKept, Owned, PopActive
    PROVE  Owned'
<1> DEFINE n == MinOf(MaxWritePages, Len(activeList))
<1>1. n \in 0 .. Len(activeList)
  BY ConstantsAssumption, LenProperties DEF TypeOK, ListsTyped, MinOf
<1>2. /\ evictFrames' = Popped(activeList, n) /\ activeList' = AfterPop(activeList, n)
      /\ UNCHANGED <<freeList, standbyList, modifiedList, swapFrames, pfnArray, pc, currentFrame>>
  BY DEF PopActive
<1>3. evictFrames = <<>>
  BY DEF ControlOK, TrimControlled, PopActive
<1>4. ToSet(evictFrames) = {}
  BY <1>3 DEF ToSet
<1>5. /\ ToSet(activeList) = ToSet(evictFrames') \cup ToSet(activeList')
      /\ ToSet(evictFrames') \cap ToSet(activeList') = {}
      /\ IsInjective(evictFrames') /\ IsInjective(activeList')
  BY <1>1, <1>2, PopProperties DEF TypeOK, ListsTyped, Owned, NoDuplicates
<1>6. InWriting' = InWriting
  BY <1>2, WritingKept
<1>7. SameHolders
  BY <1>2 DEF SameHolders, UserHolds
<1>8. Apart'
  <2>1. \A g \in Frames : InOneListOnly(g)
    BY <1>2, <1>4, <1>5, <1>6 DEF Owned, Apart, InAList
  <2>2. \A g \in Frames : InAList(g)' <=> InAList(g)
    BY <1>2, <1>4, <1>5, <1>6, <2>1 DEF InAList, InOneListOnly
  <2>3. \A g \in Frames : InOneListOnly(g)'
    BY <1>2, <1>4, <1>5, <1>6, <2>1 DEF InAList, InOneListOnly
  <2>. QED  BY <1>7, <2>2, <2>3, ApartMoved DEF Owned
<1>9. NoDuplicates' /\ FlagsAgree'
  BY <1>2, <1>5 DEF Owned, NoDuplicates, FlagsAgree
<1>. QED  BY <1>8, <1>9 DEF Owned

(* An evicted frame goes from the trim thread to the modified list.        *)
LEMMA AddModifiedMoves ==
    ASSUME TypeOK, ControlOK, TornKept, Owned, AddModified
    PROVE  Owned'
<1>1. evictFrames # <<>>
  BY DEF ControlOK, TrimControlled, AddModified
<1>2. PICK f \in Frames : f = evictFrames[1]
  BY <1>1, PopFirstProperties DEF TypeOK, TrimTyped
<1>3. /\ evictFrames' = AfterPop(evictFrames, 1)
      /\ modifiedList' = AddToFrameList(modifiedList, f)
      /\ UNCHANGED <<freeList, activeList, standbyList, swapFrames, pc, currentFrame>>
      /\ pfnArray' = [pfnArray EXCEPT ![f] = OnModified(pfnArray[f])]
  BY <1>2 DEF AddModified
<1>4. /\ f \in ToSet(evictFrames)
      /\ IsInjective(evictFrames') /\ ToSet(evictFrames') = ToSet(evictFrames) \ {f}
  BY <1>1, <1>2, <1>3, PopFirstProperties DEF TypeOK, TrimTyped, Owned, NoDuplicates
<1>5. /\ f \notin ToSet(standbyList) /\ f \notin ToSet(modifiedList)
      /\ ToSet(modifiedList') = ToSet(modifiedList) \cup {f}
      /\ IsInjective(modifiedList')
  BY <1>3, <1>4, AddToFrameListProperties
     DEF TypeOK, ListsTyped, Owned, Apart, InAList, InOneListOnly, NoDuplicates
<1>6. pfnArray[f] \in FrameRecords
  BY DEF TypeOK, FramesTyped
<1>7. /\ \A g \in Frames : g # f => pfnArray'[g] = pfnArray[g]
      /\ pfnArray'[f].isOnModifiedList = TRUE
      /\ pfnArray'[f].isOnStandbyList = FALSE
      /\ pfnArray'[f].isBeingWritten = pfnArray[f].isBeingWritten
  BY <1>3, <1>6 DEF TypeOK, FramesTyped, FrameRecords, OnModified
<1>8. InWriting' = InWriting
  BY <1>3, <1>7, WritingKept
<1>9. SameHolders
  BY <1>3 DEF SameHolders, UserHolds
<1>10. Apart'
  <2>1. \A g \in Frames : InOneListOnly(g)
    BY <1>3, <1>4, <1>5, <1>8 DEF Owned, Apart, InAList
  <2>2. \A g \in Frames : InAList(g)' <=> InAList(g)
    BY <1>3, <1>4, <1>5, <1>8, <2>1 DEF InAList, InOneListOnly
  <2>3. \A g \in Frames : InOneListOnly(g)'
    BY <1>3, <1>4, <1>5, <1>8, <2>1 DEF InAList, InOneListOnly
  <2>. QED  BY <1>9, <2>2, <2>3, ApartMoved DEF Owned
<1>11. NoDuplicates' /\ FlagsAgree'
  BY <1>3, <1>4, <1>5, <1>7 DEF Owned, NoDuplicates, FlagsAgree
<1>. QED  BY <1>10, <1>11 DEF Owned

(* A batch of modified frames goes to the disk thread, every frame of it   *)
(* marked.                                                                 *)
LEMMA CollectModifiedMoves ==
    ASSUME TypeOK, ControlOK, TornKept, Owned, CollectModified
    PROVE  Owned'
<1> DEFINE n == MinOf(Len(diskSlots), Len(modifiedList))
           batch == Popped(modifiedList, n)
<1>1. n \in 0 .. Len(modifiedList)
  BY LenProperties DEF TypeOK, DiskTyped, ListsTyped, MinOf
<1>2. /\ swapFrames' = batch /\ modifiedList' = AfterPop(modifiedList, n)
      /\ UNCHANGED <<freeList, activeList, standbyList, evictFrames, pc, currentFrame>>
      /\ pfnArray' = [f \in Frames |->
             IF f \in ToSet(batch) THEN MarkWritten(OffModified(pfnArray[f]))
                                       ELSE pfnArray[f]]
  BY DEF CollectModified
<1>3. swapFrames = <<>>
  BY DEF ControlOK, DiskControlled, CollectModified
<1>4. ToSet(swapFrames) = {} /\ InWriting = {}
  BY <1>3 DEF ToSet, InWriting
<1>5. /\ batch \in Seq(Frames)
      /\ ToSet(modifiedList) = ToSet(batch) \cup ToSet(modifiedList')
      /\ ToSet(batch) \cap ToSet(modifiedList') = {}
      /\ IsInjective(modifiedList')
  BY <1>1, <1>2, PopProperties DEF TypeOK, ListsTyped, Owned, NoDuplicates
<1>6. ToSet(batch) \subseteq Frames
  BY <1>5, LenProperties, ElementOfSeq DEF ToSet
<1>7. \A f \in ToSet(batch) :
          /\ pfnArray'[f].isBeingWritten = TRUE
          /\ pfnArray'[f].isOnModifiedList = FALSE
          /\ pfnArray'[f].isOnStandbyList = pfnArray[f].isOnStandbyList
  <2> TAKE f \in ToSet(batch)
  <2>1. pfnArray[f] \in FrameRecords
    BY <1>6 DEF TypeOK, FramesTyped
  <2>3. pfnArray'[f] = MarkWritten(OffModified(pfnArray[f]))
    BY <1>2, <1>6
  <2>. QED  BY <2>1, <2>3 DEF FrameRecords, OffModified, MarkWritten
<1>8. \A f \in Frames : f \notin ToSet(batch) => pfnArray'[f] = pfnArray[f]
  BY <1>2
<1>9. InWriting' = ToSet(batch)
  BY <1>2, <1>7 DEF InWriting
<1>10. SameHolders
  BY <1>2 DEF SameHolders, UserHolds
<1>11. Apart'
  <2>1. \A g \in Frames : InOneListOnly(g)
    BY <1>2, <1>4, <1>5, <1>9 DEF Owned, Apart, InAList
  <2>2. \A g \in Frames : InAList(g)' <=> InAList(g)
    BY <1>2, <1>4, <1>5, <1>9, <2>1 DEF InAList, InOneListOnly
  <2>3. \A g \in Frames : InOneListOnly(g)'
    BY <1>2, <1>4, <1>5, <1>9, <2>1 DEF InAList, InOneListOnly
  <2>. QED  BY <1>10, <2>2, <2>3, ApartMoved DEF Owned
<1>12. NoDuplicates' /\ FlagsAgree'
  BY <1>2, <1>4, <1>5, <1>7, <1>8 DEF Owned, NoDuplicates, FlagsAgree
<1>. QED  BY <1>11, <1>12 DEF Owned

(* A written frame goes from the disk thread to the standby list, unless   *)
(* it was rescued.                                                         *)
LEMMA PublishPageMoves ==
    ASSUME TypeOK, ControlOK, TornKept, Owned, PublishPage
    PROVE  Owned'
<1>1. swapFrames # <<>>
  BY DEF ControlOK, DiskControlled, PublishPage
<1>2. PICK f \in Frames : f = swapFrames[1]
  BY <1>1, PopFirstProperties DEF TypeOK, DiskTyped
<1>3. CASE ~pfnArray[f].isBeingWritten
  BY <1>2, <1>3, NothingMoves DEF PublishPage, SameFlags, SameHolders, UserHolds
<1>4. CASE pfnArray[f].isBeingWritten
  <2>1. PICK s \in Nat : s = diskSlots[1]
    <3>1. diskSlots \in Seq(DiskSlots) /\ diskSlots # <<>>
      BY <1>1, LenProperties, EmptySeq DEF TypeOK, DiskTyped, ControlOK, DiskControlled, PublishPage
    <3>. QED  BY <3>1, PopFirstProperties, ConstantProperties
  <2>2. /\ swapFrames' = AfterPop(swapFrames, 1)
        /\ standbyList' = AddToFrameList(standbyList, f)
        /\ UNCHANGED <<freeList, activeList, modifiedList, evictFrames, pc, currentFrame>>
        /\ pfnArray' = [pfnArray EXCEPT ![f] = OnStandby(OnDisk(UnmarkWritten(pfnArray[f]), s))]
    BY <1>2, <1>4, <2>1 DEF PublishPage
  <2>3. f \in InWriting /\ ToSet(swapFrames) = ToSet(swapFrames') \cup {f}
    BY <1>1, <1>2, <1>4, <2>2, PopFirstProperties DEF TypeOK, DiskTyped, InWriting
  <2>4. /\ f \notin ToSet(standbyList) /\ f \notin ToSet(modifiedList)
        /\ ToSet(standbyList') = ToSet(standbyList) \cup {f}
        /\ IsInjective(standbyList')
    BY <2>2, <2>3, AddToFrameListProperties
       DEF TypeOK, ListsTyped, Owned, Apart, InAList, InOneListOnly, NoDuplicates
  <2>5. /\ \A g \in Frames : g # f => pfnArray'[g] = pfnArray[g]
        /\ pfnArray'[f].isOnStandbyList = TRUE
        /\ pfnArray'[f].isOnModifiedList = FALSE
        /\ pfnArray'[f].isBeingWritten = FALSE
    <3>1. pfnArray[f] \in FrameRecords
      BY DEF TypeOK, FramesTyped
    <3>2. pfnArray'[f] = OnStandby(OnDisk(UnmarkWritten(pfnArray[f]), s))
      BY <2>2 DEF TypeOK, FramesTyped
    <3>3. \A g \in Frames : g # f => pfnArray'[g] = pfnArray[g]
      BY <2>2 DEF TypeOK, FramesTyped
    <3>. QED  BY <3>1, <3>2, <3>3 DEF FrameRecords, OnStandby, OnDisk, UnmarkWritten
  <2>6. InWriting' = InWriting \ {f}
    <3>1. ToSet(swapFrames) \subseteq Frames
      BY LenProperties, ElementOfSeq DEF TypeOK, DiskTyped, ToSet
    <3>. QED  BY <2>3, <2>5, <3>1 DEF InWriting
  <2>7. SameHolders
    BY <2>2 DEF SameHolders, UserHolds
  <2>8. Apart'
    <3>1. \A g \in Frames : InOneListOnly(g)
      BY <2>2, <2>3, <2>4, <2>6 DEF Owned, Apart, InAList
    <3>2. \A g \in Frames : InAList(g)' <=> InAList(g)
      BY <2>2, <2>3, <2>4, <2>6, <3>1 DEF InAList, InOneListOnly
    <3>3. \A g \in Frames : InOneListOnly(g)'
      BY <2>2, <2>3, <2>4, <2>6, <3>1 DEF InAList, InOneListOnly
    <3>. QED  BY <2>7, <3>2, <3>3, ApartMoved DEF Owned
  <2>9. NoDuplicates' /\ FlagsAgree'
    BY <2>2, <2>3, <2>4, <2>5 DEF Owned, NoDuplicates, FlagsAgree
  <2>. QED  BY <2>8, <2>9 DEF Owned
<1>. QED  BY <1>3, <1>4

(* A frame word written back leaves every frame where it is, and all its   *)
(* flags but one.                                                          *)
LEMMA WriteFrameWordMoves ==
    ASSUME TypeOK, ControlOK, TornKept, Owned, BatchApart, WriteFrameWord
    PROVE  Owned'
<1>1. swapFrames # <<>>
  BY DEF ControlOK, DiskControlled, WriteFrameWord
<1>2. PICK f \in Frames : f = swapFrames[1] /\ f \in ToSet(swapFrames)
  BY <1>1, PopFirstProperties DEF TypeOK, DiskTyped
<1> DEFINE new == [word EXCEPT !.PTE = pfnArray[f].PTE, !.diskIndex = InvalidDiskSlot]
<1>3. /\ UNCHANGED <<Queues, pc, currentFrame>>
      /\ swapFrames' = AfterPop(swapFrames, 1)
      /\ pfnArray' = [pfnArray EXCEPT ![f] = new]
  BY <1>2 DEF WriteFrameWord
<1>4. /\ \A g \in Frames : g # f => pfnArray'[g] = pfnArray[g]
      /\ pfnArray'[f] = new
  BY <1>3 DEF TypeOK, FramesTyped
<1>5. ~pfnArray[f].isBeingWritten
  BY <1>2 DEF ControlOK, DiskControlled, WriteFrameWord
<1>6. /\ ~pfnArray'[f].isBeingWritten /\ ~pfnArray'[f].isOnStandbyList
      /\ "wordTorn" \notin races' =>
             pfnArray'[f].isOnModifiedList = pfnArray[f].isOnModifiedList
  <2>1. word \in FrameRecords /\ pfnArray[f] \in FrameRecords
    BY DEF TypeOK, FramesTyped, ControlOK, DiskControlled, WriteFrameWord
  <2>2. ~word.isOnStandbyList /\ ~word.isBeingWritten
    BY DEF BatchApart, WriteFrameWord
  <2>3. "wordTorn" \notin races' => new = [pfnArray[f] EXCEPT !.diskIndex = InvalidDiskSlot]
    BY <1>2 DEF WriteFrameWord
  <2>4. [pfnArray[f] EXCEPT !.diskIndex = InvalidDiskSlot].isOnModifiedList
            = pfnArray[f].isOnModifiedList
    BY <2>1 DEF FrameRecords
  <2>5. new.isOnStandbyList = word.isOnStandbyList /\ new.isBeingWritten = word.isBeingWritten
    BY <2>1 DEF FrameRecords
  <2>. HIDE DEF new
  <2>. QED  BY <1>4, <2>2, <2>3, <2>4, <2>5
<1>7. ToSet(swapFrames) = ToSet(swapFrames') \cup {f}
  BY <1>1, <1>2, <1>3, PopFirstProperties DEF TypeOK, DiskTyped
<1>. HIDE DEF new
<1>8. InWriting' = InWriting
  <2>1. ToSet(swapFrames) \subseteq Frames
    BY LenProperties, ElementOfSeq DEF TypeOK, DiskTyped, ToSet
  <2>. QED  BY <1>4, <1>5, <1>6, <1>7, <2>1 DEF InWriting
<1>9. SameHolders
  BY <1>3 DEF SameHolders, UserHolds
<1>10. Apart'
  <2>1. \A g \in Frames : InOneListOnly(g)
    BY <1>3, <1>8 DEF Owned, Apart, InAList
  <2>2. \A g \in Frames : InAList(g)' <=> InAList(g)
    BY <1>3, <1>8, <2>1 DEF InAList, InOneListOnly
  <2>3. \A g \in Frames : InOneListOnly(g)'
    BY <1>3, <1>8, <2>1 DEF InAList, InOneListOnly
  <2>. QED  BY <1>9, <2>2, <2>3, ApartMoved DEF Owned
<1>11. NoDuplicates'
  BY <1>3 DEF Owned, NoDuplicates
<1>12. FlagsAgree'
  <2>1. f \notin ToSet(standbyList)
    BY <1>2 DEF BatchApart, BatchFrame
  <2>. QED  BY <1>3, <1>4, <1>6, <1>7, <2>1 DEF Owned, FlagsAgree
<1>. QED  BY <1>10, <1>11, <1>12 DEF Owned

-----------------------------------------------------------------------------
(* The batch of the disk thread.                                           *)

(* A step that neither starts a batch nor brings a frame of it to the      *)
(* standby list keeps it apart.                                            *)
LEMMA BatchStays ==
    ASSUME BatchApart, swapFrames' = swapFrames,
           diskPC' = "writeWord" => diskPC = "writeWord" /\ word' = word,
           \A f \in ToSet(swapFrames) : f \in ToSet(standbyList') => f \in ToSet(standbyList),
           \A v \in Users, f \in ToSet(swapFrames) :
               pc'[v] \in FromStandby /\ currentFrame'[v] = f
                   => pc[v] \in FromStandby /\ currentFrame[v] = f
    PROVE  BatchApart'
BY DEF BatchApart, BatchFrame

(* The steps of a user thread that do not go by way of the standby list.   *)
LEMMA UserStepsKeepBatch ==
    ASSUME TypeOK, BatchApart, NEW u \in Users,
           \/ AccessStep(u) \/ Shutdown(u)
           \/ FaultOnValid(u) \/ ReleaseValid(u) \/ FaultInTransition(u) \/ FaultOnAbsent(u)
           \/ RescueWritten(u) \/ RescueModified(u) \/ ReleaseRescuedSlot(u)
           \/ GetFreeFrame(u) \/ StandbyEmpty(u) \/ ResetFinished(u) \/ RequestTrim(u)
           \/ WaitFinished(u) \/ UpdateVictim(u) \/ WipePage(u) \/ SwapFromDisk(u)
           \/ CopyFromDisk(u) \/ SwapFromDiskFails(u) \/ MapPage(u)
    PROVE  BatchApart'
<1>1. /\ UNCHANGED <<swapFrames, word, standbyList>>
      /\ diskPC' = "writeWord" => diskPC = "writeWord"
  <2>1. CASE AccessStep(u) \/ Shutdown(u)
    BY <2>1 DEF AccessStep, Store, Fault, Shutdown
  <2>2. CASE \/ FaultOnValid(u) \/ ReleaseValid(u) \/ FaultInTransition(u) \/ FaultOnAbsent(u)
             \/ RescueWritten(u) \/ RescueModified(u) \/ ReleaseRescuedSlot(u)
    BY <2>2 DEF FaultOnValid, ReleaseValid, FaultInTransition, FaultOnAbsent, RescueWritten,
       RescueModified,
       ReleaseRescuedSlot
  <2>3. CASE \/ GetFreeFrame(u) \/ StandbyEmpty(u) \/ ResetFinished(u) \/ RequestTrim(u)
             \/ WaitFinished(u) \/ UpdateVictim(u) \/ WipePage(u) \/ SwapFromDisk(u)
             \/ CopyFromDisk(u) \/ SwapFromDiskFails(u) \/ MapPage(u)
    BY <2>3 DEF GetFreeFrame, StandbyEmpty, ResetFinished, RequestTrim, WaitFinished,
       UpdateVictim, WipePage, SwapFromDisk, CopyFromDisk, SwapFromDiskFails, MapPage
  <2>. QED  BY <2>1, <2>2, <2>3
<1>2. \A v \in Users : pc'[v] \in FromStandby
          => pc[v] \in FromStandby /\ currentFrame'[v] = currentFrame[v]
  <2>1. CASE AccessStep(u) \/ Shutdown(u)
    BY <2>1 DEF TypeOK, UsersTyped, AccessStep, Store, Fault, Accesses, Shutdown, GoTo, FromStandby
  <2>2. CASE FaultOnValid(u) \/ ReleaseValid(u) \/ FaultInTransition(u) \/ FaultOnAbsent(u)
    BY <2>2 DEF TypeOK, UsersTyped, FaultOnValid, ReleaseValid, FaultInTransition, FaultOnAbsent,
       GoTo,
       FromStandby
  <2>3. CASE RescueWritten(u) \/ RescueModified(u) \/ ReleaseRescuedSlot(u)
    BY <2>3 DEF TypeOK, UsersTyped, RescueWritten, RescueModified, ReleaseRescuedSlot, GoTo,
       FromStandby
  <2>4. CASE GetFreeFrame(u) \/ StandbyEmpty(u) \/ ResetFinished(u)
    BY <2>4 DEF TypeOK, UsersTyped, GetFreeFrame, StandbyEmpty, ResetFinished, GoTo, FromStandby
  <2>5. CASE RequestTrim(u) \/ WaitFinished(u) \/ UpdateVictim(u)
    BY <2>5 DEF TypeOK, UsersTyped, RequestTrim, WaitFinished, AfterWait, UpdateVictim, GoTo,
       FromStandby
  <2>6. CASE \/ WipePage(u) \/ SwapFromDisk(u) \/ CopyFromDisk(u) \/ SwapFromDiskFails(u)
             \/ MapPage(u)
    BY <2>6 DEF TypeOK, UsersTyped, WipePage, SwapFromDisk, CopyFromDisk, SwapFromDiskFails,
       MapPage, GoTo, FromStandby
  <2>. QED  BY <2>1, <2>2, <2>3, <2>4, <2>5, <2>6
<1>. QED  BY <1>1, <1>2, BatchStays

(* A frame a thread takes from the standby list, or puts back there, is    *)
(* not in the batch.                                                       *)
LEMMA StandbyStepsKeepBatch ==
    ASSUME TypeOK, ControlOK, Owned, BatchApart, NEW u \in Users,
           RescueStandby(u) \/ TakeStandbySameLock(u) \/ TakeStandbyOtherLock(u) \/ Reacquire(u)
    PROVE  BatchApart'
<1>1. UNCHANGED diskVars
  BY DEF RescueStandby, TakeStandbySameLock, TakeStandbyOtherLock, Reacquire
<1>2. CASE RescueStandby(u)
  <2>1. PICK f \in Frames : f = currentFrame[u]
    BY <1>2, WorksOnFrame DEF RescueStandby, NeedsFrame
  <2>2. \A g \in ToSet(standbyList') : g \in ToSet(standbyList)
    <3>1. standbyList' = RemoveFromFrameList(standbyList, f) \/ standbyList' = standbyList
      BY <1>2, <2>1 DEF RescueStandby
    <3>. QED  BY <3>1, RemoveFromFrameListProperties DEF TypeOK, ListsTyped, Owned, NoDuplicates
  <2>3. pfnArray[f].isOnStandbyList => f \notin ToSet(swapFrames)
    BY DEF Owned, FlagsAgree, BatchApart, BatchFrame
  <2>4. \A v \in Users, g \in ToSet(swapFrames) :
            pc'[v] \in FromStandby /\ currentFrame'[v] = g
                => pc[v] \in FromStandby /\ currentFrame[v] = g
    BY <1>2, <2>1, <2>3 DEF TypeOK, UsersTyped, RescueStandby, GoTo, FromStandby
  <2>. QED  BY <1>1, <2>2, <2>4, BatchStays
<1>3. CASE TakeStandbySameLock(u) \/ TakeStandbyOtherLock(u)
  <2>1. standbyList # <<>> /\ standbyList' = AfterPop(standbyList, 1)
    BY <1>3 DEF TakeStandbySameLock, TakeStandbyOtherLock
  <2>2. PICK f \in Frames : f = standbyList[1] /\ f \in ToSet(standbyList)
    BY <2>1, PopFirstProperties DEF TypeOK, ListsTyped
  <2>3. f \notin ToSet(swapFrames)  BY <2>2 DEF BatchApart, BatchFrame
  <2>4. \A g \in ToSet(standbyList') : g \in ToSet(standbyList)
    BY <2>1, PopFirstProperties DEF TypeOK, ListsTyped
  <2>5. \A v \in Users, g \in ToSet(swapFrames) :
            pc'[v] \in FromStandby /\ currentFrame'[v] = g
                => pc[v] \in FromStandby /\ currentFrame[v] = g
    BY <1>3, <2>2, <2>3 DEF TypeOK, UsersTyped, TakeStandbySameLock, TakeStandbyOtherLock, GoTo,
       FillStep, FromStandby
  <2>. QED  BY <1>1, <2>4, <2>5, BatchStays
<1>4. CASE Reacquire(u)
  <2>1. PICK f \in Frames : f = currentFrame[u]
    BY <1>4, WorksOnFrame DEF Reacquire, NeedsFrame, Holding
  <2>2. f \notin ToSet(swapFrames)
    BY <1>4, <2>1 DEF BatchApart, BatchFrame, Reacquire, FromStandby
  <2>3. standbyList' = AddToFrameList(standbyList, f) \/ standbyList' = standbyList
    BY <1>4, <2>1 DEF Reacquire
  <2>4. ToSet(standbyList') \subseteq ToSet(standbyList) \cup {f}
    BY <2>3, AddToFrameListProperties DEF TypeOK, ListsTyped
  <2>5. \A v \in Users : pc'[v] \in FromStandby
            => pc[v] \in FromStandby /\ currentFrame'[v] = currentFrame[v]
    BY <1>4 DEF TypeOK, UsersTyped, Reacquire, FillStep, GoTo, FromStandby
  <2>. QED  BY <1>1, <2>2, <2>4, <2>5, BatchStays
<1>. QED  BY <1>2, <1>3, <1>4

(* The trim thread and the waiting disk thread leave the batch alone.      *)
LEMMA OtherStepsKeepBatch ==
    ASSUME TypeOK, BatchApart,
           \/ TrimStep \/ DiskWait \/ ReserveSlots \/ WritePage \/ SignalFinished
    PROVE  BatchApart'
<1>1. /\ UNCHANGED <<swapFrames, word, standbyList, currentFrame>>
      /\ diskPC' = "writeWord" => diskPC = "writeWord"
  BY DEF TrimStep, TrimWait, PopActive, UnmapBatch, FixPTE, AddModified, SignalModWrite,
     SetModWriteEvent, DiskWait, ReserveSlots, WritePage, SignalFinished
<1>2. \A v \in Users : pc'[v] \in FromStandby => pc[v] \in FromStandby
  <2>1. CASE SignalFinished
    BY <2>1 DEF TypeOK, UsersTyped, SignalFinished, FromStandby
  <2>2. CASE TrimStep \/ DiskWait \/ ReserveSlots \/ WritePage
    BY <2>2 DEF TrimStep, TrimWait, PopActive, UnmapBatch, FixPTE, AddModified, SignalModWrite,
       DiskWait, ReserveSlots, WritePage
  <2>. QED  BY <2>1, <2>2
<1>. QED  BY <1>1, <1>2, BatchStays

(* A batch starts with modified frames, and a frame leaves it for the      *)
(* standby list, or because it was rescued.                                *)
LEMMA BatchStepsKeepBatch ==
    ASSUME TypeOK, ControlOK, Owned, BatchApart,
           CollectModified \/ PublishPage \/ ReadFrameWord \/ WriteFrameWord
    PROVE  BatchApart'
<1>1. UNCHANGED <<pc, currentFrame>>
  BY DEF CollectModified, PublishPage, ReadFrameWord, WriteFrameWord
<1>2. CASE CollectModified
  <2> DEFINE n == MinOf(Len(diskSlots), Len(modifiedList))
  <2>1. n \in 0 .. Len(modifiedList)
    BY LenProperties DEF TypeOK, DiskTyped, ListsTyped, MinOf
  <2>2. swapFrames' = Popped(modifiedList, n) /\ standbyList' = standbyList /\ diskPC' # "writeWord"
    BY <1>2 DEF CollectModified
  <2>. HIDE DEF n
  <2>3. /\ IsInjective(swapFrames')
        /\ swapFrames' \in Seq(Frames) /\ ToSet(swapFrames') \subseteq ToSet(modifiedList)
    BY <2>1, <2>2, PopProperties DEF TypeOK, ListsTyped, Owned, NoDuplicates
  <2>4. ToSet(swapFrames') \subseteq Frames
    BY <2>3, LenProperties, ElementOfSeq DEF ToSet
  <2>5. \A f \in ToSet(swapFrames') : InAList(f) /\ f \notin ToSet(standbyList)
    BY <2>3, <2>4 DEF Owned, Apart, InAList, InOneListOnly
  <2>6. \A f \in ToSet(swapFrames'), v \in Users : pc[v] \in FromStandby => currentFrame[v] # f
    BY <2>4, <2>5 DEF Owned, Apart, UserHolds, FromStandby, Holding
  <2>. QED  BY <1>1, <2>2, <2>3, <2>5, <2>6 DEF BatchApart, BatchFrame
<1>3. CASE PublishPage \/ ReadFrameWord \/ WriteFrameWord
  <2>1. swapFrames # <<>>
    BY <1>3 DEF ControlOK, DiskControlled, PublishPage, ReadFrameWord, WriteFrameWord
  <2>2. PICK f \in Frames : f = swapFrames[1] /\ f \in ToSet(swapFrames)
    BY <2>1, PopFirstProperties DEF TypeOK, DiskTyped
  <2>3. /\ IsInjective(AfterPop(swapFrames, 1))
        /\ ToSet(AfterPop(swapFrames, 1)) = ToSet(swapFrames) \ {f}
    BY <2>1, <2>2, PopFirstProperties DEF TypeOK, DiskTyped, BatchApart
  <2>4. CASE PublishPage
    <3>1. /\ diskPC' # "writeWord"
          /\ \/ swapFrames' = swapFrames /\ standbyList' = standbyList
             \/ /\ swapFrames' = AfterPop(swapFrames, 1)
                /\ standbyList' = AddToFrameList(standbyList, f)
      BY <2>2, <2>4 DEF PublishPage, NextToWrite
    <3>2. ToSet(AddToFrameList(standbyList, f)) = ToSet(standbyList) \cup {f}
      BY AddToFrameListProperties DEF TypeOK, ListsTyped
    <3>. QED  BY <1>1, <2>3, <3>1, <3>2 DEF BatchApart, BatchFrame
  <2>5. CASE ReadFrameWord
    <3>1. swapFrames' = swapFrames /\ standbyList' = standbyList /\ word' = pfnArray[f]
      BY <2>2, <2>5 DEF ReadFrameWord
    <3>2. ~pfnArray[f].isBeingWritten
      BY <2>2, <2>5 DEF ControlOK, DiskControlled, ReadFrameWord
    <3>3. ~pfnArray[f].isOnStandbyList
      BY <2>2 DEF Owned, FlagsAgree, BatchApart, BatchFrame
    <3>. QED  BY <1>1, <3>1, <3>2, <3>3 DEF BatchApart, BatchFrame
  <2>6. CASE WriteFrameWord
    <3>1. /\ swapFrames' = AfterPop(swapFrames, 1) /\ standbyList' = standbyList
          /\ diskPC' # "writeWord"
      BY <2>6 DEF WriteFrameWord, NextToWrite
    <3>. QED  BY <1>1, <2>3, <3>1 DEF BatchApart, BatchFrame
  <2>. QED  BY <1>3, <2>4, <2>5, <2>6
<1>. QED  BY <1>2, <1>3

-----------------------------------------------------------------------------
(***************************************************************************)
(* The inductive invariant: Owned and BatchApart until a frame is unlinked *)
(* that is not in the list, which takes a torn word, with the types and    *)
(* the control they rest on.                                               *)
(***************************************************************************)
OwnedUntilUnlink ==
    /\ halted # "unlink" => Owned /\ BatchApart
    /\ "wordTorn" \notin races => halted # "unlink"

(* At the start every frame is on the free list, once.                     *)
LEMMA OwnedInit == Init => Owned
<1> SUFFICES ASSUME Init PROVE Owned
  OBVIOUS
<1> DEFINE m == Len(PhysicalPageNumbers)
<1>1. m \in Nat /\ PhysicalPageNumbers \in [1 .. m -> Nat]
  BY ConstantsAssumption, LenProperties
<1>2. /\ freeList = [i \in 1 .. m |-> PhysicalPageNumbers[m + 1 - i]]
      /\ Len(freeList) = m /\ DOMAIN freeList = 1 .. m
  BY <1>1 DEF Init
<1>3. ToSet(freeList) = Frames
  <2>1. \A i \in 1 .. m : m + 1 - i \in 1 .. m /\ m + 1 - (m + 1 - i) = i
    BY <1>1
  <2>2. \A i \in 1 .. m : freeList[m + 1 - i] = PhysicalPageNumbers[i]
    BY <1>2, <2>1
  <2>. QED  BY <1>2, <2>1, <2>2 DEF ToSet, Frames
<1>4. IsInjective(freeList)
  <2>1. \A i, j \in 1 .. m : /\ m + 1 - i \in 1 .. m /\ m + 1 - j \in 1 .. m
                             /\ m + 1 - i = m + 1 - j => i = j
    BY <1>1
  <2>2. \A i, j \in 1 .. m : PhysicalPageNumbers[i] = PhysicalPageNumbers[j] => i = j
    BY <1>1, ConstantsAssumption DEF IsInjective
  <2>3. \A i, j \in 1 .. m : freeList[i] = freeList[j] => i = j
    <3> TAKE i, j \in 1 .. m
    <3>1. freeList[i] = PhysicalPageNumbers[m + 1 - i]
      BY <1>2
    <3>2. freeList[j] = PhysicalPageNumbers[m + 1 - j]
      BY <1>2
    <3>3. m + 1 - i \in 1 .. m /\ m + 1 - j \in 1 .. m
      BY <2>1
    <3>4. PhysicalPageNumbers[m + 1 - i] = PhysicalPageNumbers[m + 1 - j] => m + 1 - i = m + 1 - j
      BY <2>2, <3>3
    <3>. QED  BY <2>1, <3>1, <3>2, <3>4
  <2>. QED  BY <1>2, <2>3 DEF IsInjective
<1>5. /\ activeList = <<>> /\ modifiedList = <<>> /\ standbyList = <<>>
      /\ evictFrames = <<>> /\ swapFrames = <<>>
  BY DEF Init
<1>6. /\ ToSet(activeList) = {} /\ ToSet(modifiedList) = {} /\ ToSet(standbyList) = {}
      /\ ToSet(evictFrames) = {} /\ ToSet(swapFrames) = {} /\ InWriting = {}
  BY <1>5 DEF ToSet, InWriting
<1>7. \A u \in Users, f \in Frames : ~UserHolds(u, f)
  BY DEF Init, UserHolds, Holding
<1>8. Apart
  BY <1>3, <1>6, <1>7 DEF Apart, InAList, InOneListOnly
<1>9. NoDuplicates
  BY <1>4, <1>5 DEF NoDuplicates, IsInjective
<1>10. FlagsAgree
  BY <1>6 DEF FlagsAgree, Init
<1>. QED  BY <1>8, <1>9, <1>10 DEF Owned

(* There is no batch.                                                      *)
LEMMA BatchInit == Init => BatchApart
<1> SUFFICES ASSUME Init PROVE BatchApart
  OBVIOUS
<1>1. swapFrames = <<>> /\ diskPC = "wait"  BY DEF Init
<1>. QED  BY <1>1 DEF BatchApart, IsInjective, ToSet

(* Nothing but a rescue unlinks a frame from the middle of a list.         *)
LEMMA RescuesUnlink ==
    ASSUME halted = "running", [Next]_vars, halted' = "unlink"
    PROVE  \E u \in Users : RescueModified(u) \/ RescueStandby(u)
<1>1. SUFFICES ASSUME \A u \in Users : ~RescueModified(u) /\ ~RescueStandby(u)
               PROVE  FALSE
  OBVIOUS
<1>2. CASE \E u \in Users : AccessStep(u) \/ Shutdown(u)
  BY <1>2 DEF AccessStep, Store, Fault, Shutdown
<1>3. CASE \E u \in Users :
              \/ FaultOnValid(u) \/ ReleaseValid(u) \/ FaultInTransition(u) \/ FaultOnAbsent(u)
              \/ RescueWritten(u)
              \/ ReleaseRescuedSlot(u) \/ GetFreeFrame(u) \/ StandbyEmpty(u)
              \/ ResetFinished(u) \/ RequestTrim(u) \/ WaitFinished(u)
  BY <1>3 DEF FaultOnValid, ReleaseValid, FaultInTransition, FaultOnAbsent, RescueWritten,
     ReleaseRescuedSlot,
     GetFreeFrame, StandbyEmpty, ResetFinished, RequestTrim, WaitFinished, DebugAssert
<1>4. CASE \E u \in Users :
              \/ TakeStandbySameLock(u) \/ TakeStandbyOtherLock(u) \/ UpdateVictim(u)
              \/ Reacquire(u) \/ WipePage(u) \/ SwapFromDisk(u) \/ SwapFromDiskFails(u)
              \/ CopyFromDisk(u) \/ MapPage(u)
  BY <1>4 DEF TakeStandbySameLock, TakeStandbyOtherLock, UpdateVictim, Reacquire, WipePage,
     SwapFromDisk, SwapFromDiskFails, CopyFromDisk, MapPage, DebugAssert
<1>5. CASE TrimStep
  BY <1>5 DEF TrimStep, TrimWait, PopActive, UnmapBatch, FixPTE, AddModified, SignalModWrite,
     DebugAssert
<1>6. CASE DiskStep
  BY <1>6 DEF DiskStep, DiskWait, ReserveSlots, CollectModified, WritePage, PublishPage,
     ReadFrameWord, WriteFrameWord, SignalFinished, DebugAssert
<1>7. CASE UNCHANGED vars  BY <1>7 DEF vars
<1>. QED  BY <1>1, <1>2, <1>3, <1>4, <1>5, <1>6, <1>7 DEF Next, Stopped, ResolveStep

(* A frame is only unlinked that is not in the list when its flag is       *)
(* wrong, and only that of the modified list can be.                       *)
LEMMA UnlinksListed ==
    ASSUME TypeOK, ControlOK, Owned, halted = "running", [Next]_vars
    PROVE  halted' = "unlink" => "wordTorn" \in races
<1>1. CASE \E u \in Users : RescueModified(u)
  <2>1. PICK u \in Users : RescueModified(u)  BY <1>1
  <2>2. currentFrame[u] \in Frames  BY <2>1, WorksOnFrame DEF RescueModified, NeedsFrame
  <2>. QED  BY <2>1, <2>2 DEF RescueModified, Owned, FlagsAgree, Contains, ToSet
<1>2. CASE \E u \in Users : RescueStandby(u)
  <2>1. PICK u \in Users : RescueStandby(u)  BY <1>2
  <2>2. currentFrame[u] \in Frames  BY <2>1, WorksOnFrame DEF RescueStandby, NeedsFrame
  <2>. QED  BY <2>1, <2>2 DEF RescueStandby, Owned, FlagsAgree, Contains, ToSet
<1>. QED  BY <1>1, <1>2, RescuesUnlink

(* Every step of a user thread keeps the frames apart.                     *)
LEMMA UserKeepsOwned ==
    ASSUME TypeOK, ControlOK, TornKept, Owned, BatchApart, halted' # "unlink", NEW u \in Users,
           AccessStep(u) \/ ResolveStep(u) \/ Shutdown(u)
    PROVE  Owned' /\ BatchApart'
<1>1. CASE AccessStep(u) \/ Shutdown(u)
  BY <1>1, AccessStepsInPlace, UserStepsKeepBatch
<1>2. CASE ResolveStep(u)
  <2>1. RescueModified(u) =>
            (pfnArray[currentFrame[u]].isOnModifiedList => currentFrame[u] \in ToSet(modifiedList))
    BY DEF RescueModified, Contains, ToSet
  <2>2. Owned'
    BY <1>2, <2>1, UserStepsInPlace, SlotStepsInPlace, RescueWrittenMoves, RescueModifiedMoves,
       RescueStandbyMoves, GetFreeFrameMoves, TakeStandbyMoves, ReacquireMoves, MapPageMoves
       DEF ResolveStep
  <2>3. BatchApart'
    BY <1>2, UserStepsKeepBatch, StandbyStepsKeepBatch DEF ResolveStep
  <2>. QED  BY <2>2, <2>3
<1>. QED  BY <1>1, <1>2

(* Every step of the trim and disk threads keeps them apart.               *)
LEMMA OthersKeepOwned ==
    ASSUME TypeOK, ControlOK, TornKept, Owned, BatchApart, TrimStep \/ DiskStep
    PROVE  Owned' /\ BatchApart'
<1>1. Owned'
  BY OtherStepsInPlace, PopActiveMoves, AddModifiedMoves, CollectModifiedMoves,
     PublishPageMoves, WriteFrameWordMoves DEF TrimStep, DiskStep
<1>2. BatchApart'
  BY OtherStepsKeepBatch, BatchStepsKeepBatch DEF TrimStep, DiskStep
<1>. QED  BY <1>1, <1>2

(* No window that was hit is forgotten.                                    *)
LEMMA RacesRemembered == [Next]_vars => races \subseteq races'
<1> SUFFICES ASSUME [Next]_vars PROVE races \subseteq races'
  OBVIOUS
<1>1. CASE \E u \in Users : AccessStep(u) \/ Shutdown(u)
  BY <1>1 DEF AccessStep, Store, Fault, Shutdown
<1>2. CASE \E u \in Users : ResolveStep(u)
  BY <1>2 DEF ResolveStep, FaultOnValid, ReleaseValid, FaultInTransition, FaultOnAbsent,
     RescueWritten,
      RescueModified, RescueStandby, ReleaseRescuedSlot, GetFreeFrame, StandbyEmpty,
      ResetFinished, RequestTrim, WaitFinished, TakeStandbySameLock, TakeStandbyOtherLock,
      UpdateVictim, Reacquire, WipePage, SwapFromDisk, SwapFromDiskFails, CopyFromDisk, MapPage
<1>3. CASE TrimStep
  BY <1>3 DEF TrimStep, TrimWait, PopActive, UnmapBatch, FixPTE, AddModified, SignalModWrite
<1>4. CASE DiskStep
  BY <1>4 DEF DiskStep, DiskWait, ReserveSlots, CollectModified, WritePage, PublishPage,
      ReadFrameWord, WriteFrameWord, SignalFinished
<1>5. CASE UNCHANGED vars
  BY <1>5 DEF vars
<1>. QED  BY <1>1, <1>2, <1>3, <1>4, <1>5 DEF Next, Stopped

(* A step that changes nothing keeps the frames apart.                     *)
LEMMA StutterKeepsOwned ==
    ASSUME TypeOK, TornKept, Owned, BatchApart, UNCHANGED vars
    PROVE  Owned' /\ BatchApart'
<1>1. UNCHANGED <<pfnArray, Queues, diskVars, pc, currentFrame>>
  BY DEF vars
<1>2. Owned'
  BY <1>1, NothingMoves DEF SameFlags, SameHolders, UserHolds
<1>3. BatchApart'
  BY <1>1, BatchStays
<1>. QED  BY <1>2, <1>3

(* Every step keeps the invariant.                                         *)
LEMMA OwnedInductive ==
    TypeOK /\ ControlOK /\ OwnedUntilUnlink /\ [Next]_vars => OwnedUntilUnlink'
<1> SUFFICES ASSUME TypeOK, ControlOK, OwnedUntilUnlink, [Next]_vars
             PROVE  OwnedUntilUnlink'
  OBVIOUS
<1>1. TornKept  BY RacesRemembered
<1>2. CASE UNCHANGED vars
  <2>1. UNCHANGED <<halted, races>>  BY <1>2 DEF vars
  <2>. QED  BY <1>1, <1>2, <2>1, StutterKeepsOwned DEF OwnedUntilUnlink
<1>3. CASE ~ UNCHANGED vars
  <2>1. /\ halted = "running"
        /\ \/ \E u \in Users : AccessStep(u) \/ ResolveStep(u) \/ Shutdown(u)
           \/ TrimStep \/ DiskStep
    BY <1>3 DEF Next, Stopped
  <2>2. Owned /\ BatchApart  BY <2>1 DEF OwnedUntilUnlink
  <2>3. halted' # "unlink" => Owned' /\ BatchApart'
    BY <1>1, <2>1, <2>2, UserKeepsOwned, OthersKeepOwned
  <2>4. "wordTorn" \notin races' => halted' # "unlink"
    BY <1>1, <2>1, <2>2, UnlinksListed
  <2>. QED  BY <2>3, <2>4 DEF OwnedUntilUnlink
<1>. QED  BY <1>2, <1>3

(***************************************************************************)
(* A frame is in exactly one list, batch or hand, no list links it twice   *)
(* and its flags say where it is, until the process is halted because a    *)
(* frame is unlinked that is not in the list: the rescue path never takes  *)
(* a frame somebody else has.                                              *)
(***************************************************************************)
THEOREM OneFrameOnePlace == Spec => []FrameInOnePlace
<1>1. Init => TypeOK /\ ControlOK /\ OwnedUntilUnlink
  <2>1. Init => halted # "unlink"  BY DEF Init
  <2>. QED  BY <2>1, TypeInit, OwnedInit, BatchInit DEF OwnedUntilUnlink
<1>2. TypeOK /\ ControlOK /\ OwnedUntilUnlink /\ [Next]_vars
          => TypeOK' /\ ControlOK' /\ OwnedUntilUnlink'
  BY TypeInductive, OwnedInductive
<1>3. OwnedUntilUnlink => FrameInOnePlace
  BY ApartIsOnePlace DEF OwnedUntilUnlink, Owned, NoDuplicates, FrameInOnePlace
<1>. QED  BY <1>1, <1>2, <1>3, PTL DEF Spec

-----------------------------------------------------------------------------
(* The list functions are called as FrameQueues says.                      *)

(* Popping no frame leaves a list as it is.                                *)
LEMMA AfterPopNone ==
    ASSUME NEW S, NEW list \in Seq(S)
    PROVE  AfterPop(list, 0) = list
<1>1. Len(list) \in Nat  BY LenProperties
<1>2. /\ AfterPop(list, 0) \in Seq(S) /\ Len(AfterPop(list, 0)) = Len(list)
      /\ \A i \in 1 .. Len(list) : AfterPop(list, 0)[i] = list[i]
  BY <1>1, AfterPopElements
<1>. QED  BY <1>1, <1>2, SeqEqual

(* FrameQueues has the same operations.                                    *)
LEMMA QueueOperations ==
    /\ \A list : FQ!ToSet(list) = ToSet(list) /\ FQ!IsInjective(list) = IsInjective(list)
    /\ \A list, n : FQ!AfterPop(list, n) = AfterPop(list, n)
    /\ \A list, f : FQ!AddToFrameList(list, f) = AddToFrameList(list, f)
    /\ \A list, f : FQ!AddToFrameListTail(list, f) = AddToFrameListTail(list, f)
    /\ \A list, f : FQ!RemoveFromFrameList(list, f) = RemoveFromFrameList(list, f)
<1>1. \A list : FQ!ToSet(list) = ToSet(list)  BY DEF FQ!ToSet, ToSet
<1>2. \A list : FQ!IsInjective(list) = IsInjective(list)
  BY DEF FQ!IsInjective, IsInjective
<1>3. \A list, n : FQ!AfterPop(list, n) = AfterPop(list, n)
  BY DEF FQ!AfterPop, AfterPop
<1>4. \A list, f : FQ!AddToFrameList(list, f) = AddToFrameList(list, f)
  BY DEF FQ!AddToFrameList, AddToFrameList
<1>5. \A list, f : FQ!AddToFrameListTail(list, f) = AddToFrameListTail(list, f)
  BY DEF FQ!AddToFrameListTail, AddToFrameListTail
<1>6. \A list, f : FQ!RemoveFromFrameList(list, f) = RemoveFromFrameList(list, f)
  BY DEF FQ!RemoveFromFrameList, RemoveFromFrameList, FQ!Contains, Contains, FQ!RemoveAt, RemoveAt,
     FQ!Position, Position
<1>. QED  BY <1>1, <1>2, <1>3, <1>4, <1>5, <1>6

(* What FrameQueues reads of the four lists.                               *)
LEMMA QueueNames ==
    /\ FQ!ListNames = {"free", "active", "modified", "standby"}
    /\ FQ!PageoutLists = {"modified", "standby"}
    /\ \A f : FQ!Loose(f) <=> /\ f \notin ToSet(freeList) /\ f \notin ToSet(activeList)
                              /\ f \notin ToSet(modifiedList) /\ f \notin ToSet(standbyList)
BY QueueOperations DEF FQ!ListNames, FQ!PageoutLists, FQ!Loose

(* Frames popped off the head of one list.                                 *)
LEMMA QueuePop ==
    ASSUME ListsTyped, NEW n \in Nat,
           \/ /\ n <= Len(freeList) /\ freeList' = AfterPop(freeList, n)
              /\ UNCHANGED <<activeList, modifiedList, standbyList>>
           \/ /\ n <= Len(activeList) /\ activeList' = AfterPop(activeList, n)
              /\ UNCHANGED <<freeList, modifiedList, standbyList>>
           \/ /\ n <= Len(modifiedList) /\ modifiedList' = AfterPop(modifiedList, n)
              /\ UNCHANGED <<freeList, activeList, standbyList>>
           \/ /\ n <= Len(standbyList) /\ standbyList' = AfterPop(standbyList, n)
              /\ UNCHANGED <<freeList, activeList, modifiedList>>
    PROVE  FQ!ListCall \/ UNCHANGED lists
<1>1. CASE n = 0  BY <1>1, AfterPopNone DEF ListsTyped
<1>2. CASE n > 0
  <2>1. FQ!Pop("free", n) => n <= Len(freeList)  BY DEF FQ!Pop
  <2>2. FQ!Pop("active", n) => n <= Len(activeList)  BY DEF FQ!Pop
  <2>3. FQ!Pop("modified", n) => n <= Len(modifiedList)  BY DEF FQ!Pop
  <2>4. FQ!Pop("standby", n) => n <= Len(standbyList)  BY DEF FQ!Pop
  <2>5. \/ FQ!Pop("free", n) \/ FQ!Pop("active", n)
        \/ FQ!Pop("modified", n) \/ FQ!Pop("standby", n)
    <3>1. CASE /\ n <= Len(freeList) /\ freeList' = AfterPop(freeList, n)
                /\ UNCHANGED <<activeList, modifiedList, standbyList>>
      <4>1. FQ!Pop("free", n)  BY <3>1, QueueOperations DEF FQ!Pop
      <4>. QED  BY <4>1
    <3>2. CASE /\ n <= Len(activeList) /\ activeList' = AfterPop(activeList, n)
                /\ UNCHANGED <<freeList, modifiedList, standbyList>>
      <4>1. FQ!Pop("active", n)  BY <3>2, QueueOperations DEF FQ!Pop
      <4>. QED  BY <4>1
    <3>3. CASE /\ n <= Len(modifiedList) /\ modifiedList' = AfterPop(modifiedList, n)
                /\ UNCHANGED <<freeList, activeList, standbyList>>
      <4>1. FQ!Pop("modified", n)  BY <3>3, QueueOperations DEF FQ!Pop
      <4>. QED  BY <4>1
    <3>4. CASE /\ n <= Len(standbyList) /\ standbyList' = AfterPop(standbyList, n)
                /\ UNCHANGED <<freeList, activeList, modifiedList>>
      <4>1. FQ!Pop("standby", n)  BY <3>4, QueueOperations DEF FQ!Pop
      <4>. QED  BY <4>1
    <3>. QED  BY <3>1, <3>2, <3>3, <3>4
  <2>6. /\ n <= Len(freeList) => n \in 1 .. Len(freeList)
        /\ n <= Len(activeList) => n \in 1 .. Len(activeList)
        /\ n <= Len(modifiedList) => n \in 1 .. Len(modifiedList)
        /\ n <= Len(standbyList) => n \in 1 .. Len(standbyList)
    BY <1>2, LenProperties DEF ListsTyped
  <2>. QED  BY <2>1, <2>2, <2>3, <2>4, <2>5, <2>6, QueueNames DEF FQ!ListCall
<1>. QED  BY <1>1, <1>2

(* A loose frame put in front of a list.                                   *)
LEMMA QueueAddHead ==
    ASSUME NEW f \in Frames, FQ!Loose(f),
           \/ /\ modifiedList' = AddToFrameList(modifiedList, f)
              /\ UNCHANGED <<freeList, activeList, standbyList>>
           \/ /\ standbyList' = AddToFrameList(standbyList, f)
              /\ UNCHANGED <<freeList, activeList, modifiedList>>
    PROVE  FQ!ListCall
<1>1. FQ!AddHead("modified", f) \/ FQ!AddHead("standby", f)
  <2>1. CASE /\ modifiedList' = AddToFrameList(modifiedList, f)
             /\ UNCHANGED <<freeList, activeList, standbyList>>
    <3>1. FQ!AddHead("modified", f)  BY <2>1, QueueOperations DEF FQ!AddHead
    <3>. QED  BY <3>1
  <2>2. CASE /\ standbyList' = AddToFrameList(standbyList, f)
             /\ UNCHANGED <<freeList, activeList, modifiedList>>
    <3>1. FQ!AddHead("standby", f)  BY <2>2, QueueOperations DEF FQ!AddHead
    <3>. QED  BY <3>1
  <2>. QED  BY <2>1, <2>2
<1>. QED  BY <1>1, QueueNames DEF FQ!ListCall

(* A loose frame put behind the active list.                               *)
LEMMA QueueAddTail ==
    ASSUME NEW f \in Frames, FQ!Loose(f),
           activeList' = AddToFrameListTail(activeList, f),
           UNCHANGED <<freeList, modifiedList, standbyList>>
    PROVE  FQ!ListCall
<1>1. FQ!AddTail(f)  BY QueueOperations DEF FQ!AddTail
<1>. QED  BY <1>1, QueueNames DEF FQ!ListCall

(* A frame taken out of the middle of the list it is in.                   *)
LEMMA QueueRemove ==
    ASSUME NEW f \in Frames,
           \/ /\ f \in ToSet(modifiedList)
              /\ modifiedList' = RemoveFromFrameList(modifiedList, f)
              /\ UNCHANGED <<freeList, activeList, standbyList>>
           \/ /\ f \in ToSet(standbyList)
              /\ standbyList' = RemoveFromFrameList(standbyList, f)
              /\ UNCHANGED <<freeList, activeList, modifiedList>>
    PROVE  FQ!ListCall
<1>1. FQ!RemoveListed("modified", f) \/ FQ!RemoveListed("standby", f)
  <2>1. CASE /\ f \in ToSet(modifiedList)
             /\ modifiedList' = RemoveFromFrameList(modifiedList, f)
             /\ UNCHANGED <<freeList, activeList, standbyList>>
    <3>1. FQ!RemoveListed("modified", f)  BY <2>1, QueueOperations DEF FQ!RemoveListed
    <3>. QED  BY <3>1
  <2>2. CASE /\ f \in ToSet(standbyList)
             /\ standbyList' = RemoveFromFrameList(standbyList, f)
             /\ UNCHANGED <<freeList, activeList, modifiedList>>
    <3>1. FQ!RemoveListed("standby", f)  BY <2>2, QueueOperations DEF FQ!RemoveListed
    <3>. QED  BY <3>1
  <2>. QED  BY <2>1, <2>2
<1>. QED  BY <1>1, QueueNames DEF FQ!ListCall

(* The rescues unlink the frame from the list it is in.                    *)
LEMMA RescueQueues ==
    ASSUME TypeOK, ControlOK, Owned, NEW u \in Users, RescueModified(u) \/ RescueStandby(u)
    PROVE  FQ!ListCall \/ UNCHANGED lists
<1>1. PICK f \in Frames : f = currentFrame[u]
  BY WorksOnFrame DEF RescueModified, RescueStandby, NeedsFrame
<1>2. CASE RescueModified(u) /\ pfnArray[f].isOnModifiedList
  <2>1. CASE f \in ToSet(modifiedList)
    BY <1>1, <1>2, <2>1, QueueRemove DEF RescueModified
  <2>2. CASE f \notin ToSet(modifiedList)
    <3>1. RemoveFromFrameList(modifiedList, f) = modifiedList
      BY <2>2 DEF RemoveFromFrameList, Contains, ToSet
    <3>. QED  BY <1>1, <1>2, <3>1 DEF RescueModified
  <2>. QED  BY <2>1, <2>2
<1>3. CASE RescueStandby(u) /\ pfnArray[f].isOnStandbyList
  <2>1. f \in ToSet(standbyList)  BY <1>3 DEF Owned, FlagsAgree
  <2>. QED  BY <1>1, <1>3, <2>1, QueueRemove DEF RescueStandby
<1>4. CASE RescueModified(u) /\ ~pfnArray[f].isOnModifiedList
  BY <1>1, <1>4 DEF RescueModified
<1>5. CASE RescueStandby(u) /\ ~pfnArray[f].isOnStandbyList
  BY <1>1, <1>5 DEF RescueStandby
<1>. QED  BY <1>2, <1>3, <1>4, <1>5

(* A thread takes a frame from the head of the free or the standby list.   *)
LEMMA TakeQueues ==
    ASSUME TypeOK, NEW u \in Users,
           GetFreeFrame(u) \/ TakeStandbySameLock(u) \/ TakeStandbyOtherLock(u)
    PROVE  FQ!ListCall \/ UNCHANGED lists
<1>1. CASE GetFreeFrame(u)
  <2>1. CASE freeList = <<>>  BY <1>1, <2>1 DEF GetFreeFrame
  <2>2. CASE freeList # <<>>
    <3>1. 1 <= Len(freeList)  BY <2>2, PopFirstProperties DEF TypeOK, ListsTyped
    <3>2. freeList' = AfterPop(freeList, 1) /\ UNCHANGED <<activeList, modifiedList, standbyList>>
      BY <1>1, <2>2 DEF GetFreeFrame
    <3>. QED  BY <3>1, <3>2, QueuePop DEF TypeOK
  <2>. QED  BY <2>1, <2>2
<1>2. CASE TakeStandbySameLock(u) \/ TakeStandbyOtherLock(u)
  <2>1. /\ standbyList # <<>> /\ standbyList' = AfterPop(standbyList, 1)
        /\ UNCHANGED <<freeList, activeList, modifiedList>>
    BY <1>2 DEF TakeStandbySameLock, TakeStandbyOtherLock
  <2>2. 1 <= Len(standbyList)  BY <2>1, PopFirstProperties DEF TypeOK, ListsTyped
  <2>. QED  BY <2>1, <2>2, QueuePop DEF TypeOK
<1>. QED  BY <1>1, <1>2

(* A frame in a thread's hands, in trim's batch or marked in the disk      *)
(* thread's is in no list.                                                 *)
LEMMA HeldIsLoose ==
    ASSUME Owned, NEW f \in Frames,
           (\E u \in Users : UserHolds(u, f)) \/ f \in ToSet(evictFrames) \/ f \in InWriting
    PROVE  FQ!Loose(f)
<1>1. /\ f \notin ToSet(freeList) /\ f \notin ToSet(activeList)
      /\ f \notin ToSet(modifiedList) /\ f \notin ToSet(standbyList)
  BY DEF Owned, Apart, InAList, InOneListOnly
<1>. QED  BY <1>1, QueueNames

(* A user thread puts the frame in its hands into a list.                  *)
LEMMA ReturnQueues ==
    ASSUME TypeOK, ControlOK, Owned, NEW u \in Users, Reacquire(u) \/ MapPage(u)
    PROVE  FQ!ListCall \/ UNCHANGED lists
<1>1. PICK f \in Frames : f = currentFrame[u]
  BY WorksOnFrame DEF Reacquire, MapPage, NeedsFrame, Holding
<1>2. FQ!Loose(f)
  BY <1>1, HeldIsLoose DEF Reacquire, MapPage, UserHolds, Holding
<1>3. CASE MapPage(u)  BY <1>1, <1>2, <1>3, QueueAddTail DEF MapPage
<1>4. CASE Reacquire(u)
  <2>1. UNCHANGED <<freeList, activeList, modifiedList>>  BY <1>4 DEF Reacquire
  <2>2. standbyList' = AddToFrameList(standbyList, f) \/ standbyList' = standbyList
    BY <1>1, <1>4 DEF Reacquire
  <2>. QED  BY <1>2, <2>1, <2>2, QueueAddHead
<1>. QED  BY <1>3, <1>4

(* The trim and the disk thread take batches and add one frame at a time.  *)
LEMMA OtherQueues ==
    ASSUME TypeOK, ControlOK, Owned,
           PopActive \/ AddModified \/ CollectModified \/ PublishPage
    PROVE  FQ!ListCall \/ UNCHANGED lists
<1>1. CASE PopActive
  <2> DEFINE n == MinOf(MaxWritePages, Len(activeList))
  <2>1. n \in Nat /\ n <= Len(activeList)
    BY ConstantsAssumption, LenProperties DEF TypeOK, ListsTyped, MinOf
  <2>2. activeList' = AfterPop(activeList, n) /\ UNCHANGED <<freeList, modifiedList, standbyList>>
    BY <1>1 DEF PopActive
  <2>. HIDE DEF n
  <2>. QED  BY <2>1, <2>2, QueuePop DEF TypeOK
<1>2. CASE CollectModified
  <2> DEFINE n == MinOf(Len(diskSlots), Len(modifiedList))
  <2>1. n \in Nat /\ n <= Len(modifiedList)
    BY LenProperties DEF TypeOK, DiskTyped, ListsTyped, MinOf
  <2>2. modifiedList' = AfterPop(modifiedList, n) /\ UNCHANGED <<freeList, activeList, standbyList>>
    BY <1>2 DEF CollectModified
  <2>. HIDE DEF n
  <2>. QED  BY <2>1, <2>2, QueuePop DEF TypeOK
<1>3. CASE AddModified
  <2>1. evictFrames # <<>>  BY <1>3 DEF ControlOK, TrimControlled, AddModified
  <2>2. PICK f \in Frames : f = evictFrames[1] /\ f \in ToSet(evictFrames)
    BY <2>1, PopFirstProperties DEF TypeOK, TrimTyped
  <2>3. FQ!Loose(f)  BY <2>2, HeldIsLoose
  <2>. QED  BY <1>3, <2>2, <2>3, QueueAddHead DEF AddModified
<1>4. CASE PublishPage
  <2>1. swapFrames # <<>>  BY <1>4 DEF ControlOK, DiskControlled, PublishPage
  <2>2. PICK f \in Frames : f = swapFrames[1] /\ f \in ToSet(swapFrames)
    BY <2>1, PopFirstProperties DEF TypeOK, DiskTyped
  <2>3. UNCHANGED <<freeList, activeList, modifiedList>>  BY <1>4 DEF PublishPage
  <2>4. CASE ~pfnArray[f].isBeingWritten  BY <1>4, <2>2, <2>3, <2>4 DEF PublishPage
  <2>5. CASE pfnArray[f].isBeingWritten
    <3>1. standbyList' = AddToFrameList(standbyList, f)
      BY <1>4, <2>2, <2>5 DEF PublishPage
    <3>2. FQ!Loose(f)  BY <2>2, <2>5, HeldIsLoose DEF InWriting
    <3>. QED  BY <2>3, <3>1, <3>2, QueueAddHead
  <2>. QED  BY <2>4, <2>5
<1>. QED  BY <1>1, <1>2, <1>3, <1>4

(* All other steps leave the lists alone.                                  *)
LEMMA OtherStepsQueues ==
    ASSUME \/ \E u \in Users :
                 \/ AccessStep(u) \/ Shutdown(u)
                 \/ FaultOnValid(u) \/ ReleaseValid(u) \/ FaultInTransition(u) \/ FaultOnAbsent(u)
                 \/ RescueWritten(u) \/ ReleaseRescuedSlot(u)
                 \/ StandbyEmpty(u) \/ ResetFinished(u) \/ RequestTrim(u) \/ WaitFinished(u)
                 \/ UpdateVictim(u) \/ WipePage(u) \/ SwapFromDisk(u)
                 \/ CopyFromDisk(u) \/ SwapFromDiskFails(u)
           \/ TrimWait \/ UnmapBatch \/ FixPTE \/ SignalModWrite
           \/ DiskWait \/ ReserveSlots \/ WritePage \/ ReadFrameWord \/ WriteFrameWord
           \/ SignalFinished \/ UNCHANGED vars
    PROVE  UNCHANGED lists
<1>1. CASE \E u \in Users : AccessStep(u) \/ Shutdown(u)
  BY <1>1 DEF AccessStep, Store, Fault, Shutdown
<1>2. CASE \E u \in Users :
              \/ FaultOnValid(u) \/ ReleaseValid(u) \/ FaultInTransition(u) \/ FaultOnAbsent(u)
              \/ RescueWritten(u) \/ ReleaseRescuedSlot(u)
  BY <1>2 DEF FaultOnValid, ReleaseValid, FaultInTransition, FaultOnAbsent, RescueWritten,
     ReleaseRescuedSlot
<1>3. CASE \E u \in Users :
              StandbyEmpty(u) \/ ResetFinished(u) \/ RequestTrim(u) \/ WaitFinished(u)
  BY <1>3 DEF StandbyEmpty, ResetFinished, RequestTrim, WaitFinished
<1>4. CASE \E u \in Users :
              \/ UpdateVictim(u) \/ WipePage(u) \/ SwapFromDisk(u)
              \/ CopyFromDisk(u) \/ SwapFromDiskFails(u)
  BY <1>4 DEF UpdateVictim, WipePage, SwapFromDisk, CopyFromDisk, SwapFromDiskFails
<1>5. CASE TrimWait \/ UnmapBatch \/ FixPTE \/ SignalModWrite
  BY <1>5 DEF TrimWait, UnmapBatch, FixPTE, SignalModWrite
<1>6. CASE \/ DiskWait \/ ReserveSlots \/ WritePage \/ ReadFrameWord \/ WriteFrameWord
           \/ SignalFinished
  BY <1>6 DEF DiskWait, ReserveSlots, WritePage, ReadFrameWord, WriteFrameWord, SignalFinished
<1>7. CASE UNCHANGED vars  BY <1>7 DEF vars
<1>. QED  BY <1>1, <1>2, <1>3, <1>4, <1>5, <1>6, <1>7

(* A frame goes astray only when a torn word said it was modified.         *)
LEMMA AbsentQueues ==
    ASSUME TypeOK, ControlOK, Owned, halted = "running", [Next]_vars, halted' = "unlink"
    PROVE  FQ!Next
<1>1. PICK u \in Users : RescueModified(u) \/ RescueStandby(u)  BY RescuesUnlink
<1>2. PICK f \in Frames : f = currentFrame[u]
  BY <1>1, WorksOnFrame DEF RescueModified, RescueStandby, NeedsFrame
<1>3. CASE RescueModified(u)
  <2>1. f \notin ToSet(modifiedList) /\ UNCHANGED <<freeList, activeList, standbyList, races>>
    BY <1>2, <1>3 DEF RescueModified, Contains, ToSet
  <2>2. modifiedList' = modifiedList
    <3>1. RemoveFromFrameList(modifiedList, f) = modifiedList
      BY <2>1 DEF RemoveFromFrameList, Contains, ToSet
    <3>. QED  BY <1>2, <1>3, <3>1 DEF RescueModified
  <2>3. "wordTorn" \in races  BY UnlinksListed
  <2>4. FQ!UnlinkAbsent("modified", f)
    BY <2>1, <2>2, <2>3, QueueOperations DEF FQ!UnlinkAbsent
  <2>. QED  BY <2>4, QueueNames DEF FQ!Next
<1>4. CASE RescueStandby(u)
  BY <1>2, <1>4 DEF RescueStandby, Owned, FlagsAgree, Contains, ToSet
<1>. QED  BY <1>1, <1>3, <1>4

(* The flags can be trusted until the disk thread writes a word back torn, *)
(* which touches no list.                                                  *)
LEMMA TornQueues ==
    ASSUME WriteFrameWord
    PROVE  [FQ!Next]_(FQ!vars)
<1>1. UNCHANGED <<lists, halted>> /\ races \subseteq races'  BY DEF WriteFrameWord
<1>2. CASE "wordTorn" \notin races /\ "wordTorn" \in races'
  BY <1>1, <1>2 DEF FQ!Next, FQ!Distrust
<1>3. CASE ("wordTorn" \notin races) = ("wordTorn" \notin races')
  BY <1>1, <1>3 DEF FQ!vars
<1>. QED  BY <1>1, <1>2, <1>3

LEMMA OthersTearNothing ==
    ASSUME [Next]_vars, ~WriteFrameWord
    PROVE  ("wordTorn" \notin races') = ("wordTorn" \notin races)
<1>1. CASE \E u \in Users : AccessStep(u) \/ Shutdown(u)
  BY <1>1 DEF AccessStep, Store, Fault, Shutdown
<1>2. CASE \E u \in Users : ResolveStep(u)
  BY <1>2 DEF ResolveStep, FaultOnValid, ReleaseValid, FaultInTransition, FaultOnAbsent,
      RescueWritten, RescueModified, RescueStandby, ReleaseRescuedSlot, GetFreeFrame, StandbyEmpty,
      ResetFinished, RequestTrim, WaitFinished, TakeStandbySameLock, TakeStandbyOtherLock,
      UpdateVictim, Reacquire, WipePage, SwapFromDisk, SwapFromDiskFails, CopyFromDisk, MapPage
<1>3. CASE TrimStep
  BY <1>3 DEF TrimStep, TrimWait, PopActive, UnmapBatch, FixPTE, AddModified, SignalModWrite
<1>4. CASE DiskStep
  BY <1>4 DEF DiskStep, DiskWait, ReserveSlots, CollectModified, WritePage, PublishPage,
      ReadFrameWord, SignalFinished
<1>5. CASE UNCHANGED vars
  BY <1>5 DEF vars
<1>. QED  BY <1>1, <1>2, <1>3, <1>4, <1>5 DEF Next, Stopped

(***************************************************************************)
(* VirtualMemory uses its lists as FrameQueues does: a frame that is added *)
(* to a list is in none, whatever the threads do, and a frame unlinked is  *)
(* in the list until a word was torn; the unlinking of an absent frame is  *)
(* a step of its own there, which FrameQueues allows only after that.      *)
(* With LinksRepresent this says that the links of utilities.c do for the  *)
(* program what the sequences do.                                          *)
(***************************************************************************)
THEOREM ListsAreQueues == Spec => UsesFrameQueues
<1>1. Init => TypeOK /\ ControlOK /\ OwnedUntilUnlink
  BY TypeInit, OwnedInit, BatchInit DEF OwnedUntilUnlink, Init
<1>2. TypeOK /\ ControlOK /\ OwnedUntilUnlink /\ [Next]_vars
          => TypeOK' /\ ControlOK' /\ OwnedUntilUnlink'
  BY TypeInductive, OwnedInductive
<1>3. Init => FQ!Init
  <2>1. SUFFICES ASSUME Init  PROVE FQ!Init  OBVIOUS
  <2>2. freeList \in Seq(Frames) /\ IsInjective(freeList)
    BY <2>1, TypeInit, OwnedInit DEF TypeOK, ListsTyped, Owned, NoDuplicates
  <2>3. activeList = <<>> /\ modifiedList = <<>> /\ standbyList = <<>>  BY <2>1 DEF Init
  <2>4. halted # "unlink"  BY <2>1 DEF Init
  <2>. QED  BY <2>2, <2>3, <2>4, QueueNames, QueueOperations DEF FQ!Init
<1>4. TypeOK /\ ControlOK /\ OwnedUntilUnlink /\ [Next]_vars => [FQ!Next]_(FQ!vars)
  <2>1. SUFFICES ASSUME TypeOK, ControlOK, OwnedUntilUnlink, [Next]_vars
                 PROVE  [FQ!Next]_(FQ!vars)
    OBVIOUS
  <2>2. CASE UNCHANGED vars
    <3>1. UNCHANGED <<lists, races, halted>>  BY <2>2 DEF vars
    <3>. QED  BY <3>1 DEF FQ!vars
  <2>3. CASE halted = "running" /\ halted' = "unlink"
    BY <2>1, <2>3, AbsentQueues DEF OwnedUntilUnlink
  <2>4. CASE WriteFrameWord  BY <2>4, TornQueues
  <2>5. CASE /\ halted = "running" /\ halted' # "unlink" /\ ~WriteFrameWord
             /\ (\E u \in Users : AccessStep(u) \/ ResolveStep(u) \/ Shutdown(u))
                   \/ TrimStep \/ DiskStep
    <3>1. Owned  BY <2>1, <2>5 DEF OwnedUntilUnlink
    <3>2. FQ!ListCall \/ UNCHANGED lists
      <4>1. CASE \E u \in Users : AccessStep(u) \/ ResolveStep(u) \/ Shutdown(u)
        BY <2>1, <3>1, <4>1, RescueQueues, TakeQueues, ReturnQueues, OtherStepsQueues
           DEF ResolveStep
      <4>2. CASE TrimStep \/ DiskStep
        BY <2>1, <3>1, <4>2, OtherQueues, OtherStepsQueues DEF TrimStep, DiskStep
      <4>. QED  BY <2>5, <4>1, <4>2
    <3>3. /\ ("wordTorn" \notin races') = ("wordTorn" \notin races)
          /\ (halted' = "unlink") = (halted = "unlink")
      BY <2>1, <2>5, OthersTearNothing
    <3>. QED  BY <3>2, <3>3 DEF FQ!Next, FQ!vars
  <2>. QED  BY <2>1, <2>2, <2>3, <2>4, <2>5 DEF Next, Stopped
<1>. QED  BY <1>1, <1>2, <1>3, <1>4, PTL DEF Spec, UsesFrameQueues, FQ!Spec
=============================================================================
