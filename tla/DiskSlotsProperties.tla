-------------------------- MODULE DiskSlotsProperties --------------------------
(***************************************************************************)
(* What the search for disk slots must guarantee.                          *)
(***************************************************************************)
EXTENDS DiskSlots

TypeOK ==
    /\ diskSlotBitmap \in SUBSET DiskSlots
    /\ diskSearchStartIndex \in DiskSlots
    /\ currentSearchIndex \in DiskSlots
    /\ scanned \in 0 .. NumberOfDiskSlots
    /\ diskSlotsToBatch \in Seq(DiskSlots)
    /\ pc \in {"wait", "next", "scan", "try", "collect", "release"}
    /\ stored \in SUBSET DiskSlots
    /\ usedAtStart \in SUBSET DiskSlots
    /\ halted \in BOOLEAN

(* The slot k places after the start of a search.                          *)
At(k) == IndexAfter(diskSearchStartIndex, k)

(* The search is where it says, and what it has passed was in use when it  *)
(* began; since then bits have been cleared, but none has been set.        *)
PassedSlotsWereUsed ==
    /\ currentSearchIndex = At(scanned)
    /\ diskSlotBitmap \subseteq usedAtStart
    /\ \A k \in 0 .. scanned - 1 : At(k) \in usedAtStart

(***************************************************************************)
(* findFreeDiskSlot returns -1 only if no slot was free when it began: no  *)
(* start inside a word, skip of a full word, wrap at the last slot or      *)
(* release by another thread makes it pass a free slot.                    *)
(***************************************************************************)
NoFreeSlotMissed == pc = "scan" /\ scanned >= NumberOfDiskSlots => usedAtStart = DiskSlots

(***************************************************************************)
(* Every bit that is set stands for one reservation, either in the batch   *)
(* or kept by a page or a frame, and never for two; so each is released    *)
(* once and the ASSERT of ReleaseDiskSlot holds.                           *)
(***************************************************************************)
SlotsReservedOnce ==
    /\ IsInjective(diskSlotsToBatch)
    /\ ToSet(diskSlotsToBatch) \cap stored = {}
    /\ diskSlotBitmap = ToSet(diskSlotsToBatch) \cup stored
    /\ ~halted

(***************************************************************************)
(* A batch is one that ReserveSlots of VirtualMemory takes in one step: as *)
(* many slots as fit, all those that were free if there are fewer.  The    *)
(* moment of that step is the end of the batch if it is full, else the     *)
(* start of its last search.                                               *)
(***************************************************************************)
ReservedAtOnce(usedByOthers) ==
    LET free == DiskSlots \ usedByOthers IN
    /\ ToSet(diskSlotsToBatch) \subseteq free
    /\ Len(diskSlotsToBatch) =
           IF MaxWritePages < Cardinality(free) THEN MaxWritePages ELSE Cardinality(free)

BatchAsIfAtOnce ==
    pc = "collect" => \/ ReservedAtOnce(stored)
                      \/ ReservedAtOnce(usedAtStart \ ToSet(diskSlotsToBatch))

(***************************************************************************)
(* A search ends, however often other threads release slots meanwhile.     *)
(***************************************************************************)
SearchEnds == pc \in {"scan", "try"} ~> pc \in {"next", "collect"}
=============================================================================
