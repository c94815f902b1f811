------------------------ MODULE AccessPatternProperties ------------------------
(***************************************************************************)
(* What the addresses of a user thread must satisfy.                       *)
(***************************************************************************)
EXTENDS AccessPattern

(* Types, and what they need to be kept: where the thread may go next.     *)
TypeOK ==
    /\ arbitrary_va \in Nat
    /\ lastVirtualAddressAccess = arbitrary_va
    /\ i \in 0 .. TestIterations
    /\ currentPTE \in 0 .. NumberOfVirtualPages - 1
    /\ PTELock \in 0 .. PTELockRegionCount - 1
    /\ pc \in {"choose", "store", "resolve", "finished"}

(***************************************************************************)
(* However jumps and strides follow one another, and wherever a stride     *)
(* wraps, the thread stores a whole word of the address space, the first   *)
(* of a group of eight: no store is outside what VirtualAlloc2 reserved    *)
(* (vm.c:388), where resolvePageFault could not help.                      *)
(***************************************************************************)
InAddressSpace(va) ==
    /\ va >= VAStart /\ va + WordSize <= VAStart + VirtualAddressSize
    /\ (va - VAStart) % (Alignment * WordSize) = 0

StoresInBounds == pc \in {"store", "resolve"} => InAddressSpace(arbitrary_va)

(***************************************************************************)
(* The entry a fault resolves is that of the page the address is in, as    *)
(* the trim thread will find it when it goes back from the entry to the    *)
(* address, and the lock is one of pteLockTable and covers the entry.      *)
(***************************************************************************)
FaultFindsItsPage ==
    pc = "resolve" =>
        /\ PageTableEntryToVA(currentPTE) <= arbitrary_va
        /\ arbitrary_va < PageTableEntryToVA(currentPTE) + PageSize
        /\ PTELock \in 0 .. PTELockRegionCount - 1
        /\ PTELock * PTERegionSize <= currentPTE
        /\ currentPTE < (PTELock + 1) * PTERegionSize
=============================================================================
