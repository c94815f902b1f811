----------------------------- MODULE AccessPattern -----------------------------
(***************************************************************************)
(* Where a user thread goes next, and the arithmetic from there to the     *)
(* page-table entry and its lock (userThread, VAToPageTableEntry,          *)
(* PageTableEntryToVA, GetPTELock).  VirtualMemory lets a thread go to any *)
(* page; here are the addresses themselves, one thread of them, for the    *)
(* thread's addresses depend on nothing the other threads do.              *)
(*                                                                         *)
(* How a fault is resolved is left to VirtualMemory: here the thread comes *)
(* back and repeats the store, as often as it has to.                      *)
(*                                                                         *)
(* Some operators have a wrong form just before them, which no action      *)
(* uses: put in the place of the right one it breaks a property.           *)
(***************************************************************************)
EXTENDS Integers

CONSTANTS
    PageSize,             (* PAGE_SIZE, in bytes                           *)
    NumberOfVirtualPages, (* NUMBER_OF_VIRTUAL_PAGES                       *)
    PTELockRegionCount,   (* PTE_LOCK_REGION_COUNT                         *)
    VAStart,              (* vaStartLoc                                    *)
    TimeStamps,           (* what an unsigned may get of the time stamp    *)
    TestIterations        (* TEST_ITERATIONS                               *)

WordSize == 8                        (* sizeof (ULONG_PTR)                 *)
Alignment == 8                       (* of a random word: & ~0x7           *)
VirtualAddressSize == NumberOfVirtualPages * PageSize
NumberOfWords == VirtualAddressSize \div WordSize
PTERegionSize == NumberOfVirtualPages \div PTELockRegionCount

(* Pages hold whole groups of words, and all regions are as large: so it   *)
(* is in utilities.h.  A remainder would have no lock in pteLockTable.     *)
ASSUME AddressAssumption ==
    /\ PageSize \in Nat \ {0} /\ PageSize % (Alignment * WordSize) = 0
    /\ PTELockRegionCount \in Nat \ {0}
    /\ NumberOfVirtualPages \in Nat \ {0}
    /\ NumberOfVirtualPages % PTELockRegionCount = 0
    /\ VAStart \in Nat \ {0} /\ VAStart % PageSize = 0
    /\ TimeStamps \subseteq Nat
    /\ TestIterations \in Nat

VARIABLES
    arbitrary_va,              (* the address of this iteration            *)
    lastVirtualAddressAccess,  (* that of the last one, 0 before the first *)
    i,                         (* the iterations done                      *)
    currentPTE,                (* the index in pageTable of the last fault *)
    PTELock,                   (* the index in pteLockTable of its lock    *)
    pc

vars == <<arbitrary_va, lastVirtualAddressAccess, i, currentPTE, PTELock, pc>>

(***************************************************************************)
(* Choosing an address.  The time stamp decides both the random address    *)
(* and whether the thread takes it.                                        *)
(***************************************************************************)
RandomWord(stamp) ==
    LET word == stamp % NumberOfWords IN word - (word % Alignment)

RandomVA(stamp) == VAStart + RandomWord(stamp) * WordSize

(* The pointer is to words, so PAGE_SIZE on is WordSize pages on.          *)
Stride == PageSize * WordSize

BeyondOneLate(va) == va > VAStart + VirtualAddressSize
Beyond(va) == va >= VAStart + VirtualAddressSize

SequentialVA ==
    LET next == lastVirtualAddressAccess + Stride
    IN  IF Beyond(next) THEN VAStart ELSE next

Goto(va) ==
    /\ arbitrary_va' = va
    /\ lastVirtualAddressAccess' = va
    /\ pc' = "store"
    /\ UNCHANGED <<i, currentPTE, PTELock>>

Jump ==
    /\ pc = "choose" /\ i < TestIterations
    /\ \E stamp \in TimeStamps :
           /\ lastVirtualAddressAccess = 0 \/ RandomWord(stamp) % 3 = 0
           /\ Goto(RandomVA(stamp))

Proceed ==
    /\ pc = "choose" /\ i < TestIterations
    /\ lastVirtualAddressAccess # 0
    /\ \E stamp \in TimeStamps : RandomWord(stamp) % 3 # 0
    /\ Goto(SequentialVA)

(***************************************************************************)
(* The store, and the entry and lock that a fault on it needs.             *)
(***************************************************************************)
VAToPageTableEntry(va) == (va - VAStart) \div PageSize

PageTableEntryToVA(entry) == entry * PageSize + VAStart

RegionByCount(entry) == entry \div PTELockRegionCount
Region(entry) == entry \div PTERegionSize

Store ==
    /\ pc = "store"
    /\ i' = i + 1
    /\ pc' = "choose"
    /\ UNCHANGED <<arbitrary_va, lastVirtualAddressAccess, currentPTE, PTELock>>

(* GetPTELock stops the program on an entry out of range.                  *)
Fault ==
    LET entry == VAToPageTableEntry(arbitrary_va)
        inRange == entry < NumberOfVirtualPages
    IN  /\ pc = "store"
        /\ currentPTE' = entry
        /\ PTELock' = IF inRange THEN Region(entry) ELSE PTELock
        /\ pc' = IF inRange THEN "resolve" ELSE "halted"
        /\ UNCHANGED <<arbitrary_va, lastVirtualAddressAccess, i>>

Resolved ==
    /\ pc = "resolve"
    /\ pc' = "store"
    /\ UNCHANGED <<arbitrary_va, lastVirtualAddressAccess, i, currentPTE, PTELock>>

Finish ==
    /\ pc = "choose" /\ i = TestIterations
    /\ pc' = "finished"
    /\ UNCHANGED <<arbitrary_va, lastVirtualAddressAccess, i, currentPTE, PTELock>>

Ended == pc \in {"finished", "halted"} /\ UNCHANGED vars

Init ==
    /\ arbitrary_va = 0 /\ lastVirtualAddressAccess = 0
    /\ i = 0
    /\ currentPTE = 0 /\ PTELock = 0
    /\ pc = "choose"

Next == Jump \/ Proceed \/ Store \/ Fault \/ Resolved \/ Finish \/ Ended

Spec == Init /\ [][Next]_vars
=============================================================================
