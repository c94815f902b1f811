-------------------------- MODULE AccessPatternProofs --------------------------
(***************************************************************************)
(* The addresses of a user thread are right for every size of pages, of    *)
(* the address space and of the lock table that AddressAssumption allows.  *)
(***************************************************************************)
EXTENDS AccessPatternProperties, TLAPS

-----------------------------------------------------------------------------
(* Arithmetic.                                                             *)

(***************************************************************************)
(* Quotients: the multiple of d below a and the one above, and that a      *)
(* number below n * d has a quotient below n.                              *)
(***************************************************************************)
LEMMA QuotientBounds ==
    ASSUME NEW a \in Nat, NEW d \in Nat \ {0}
    PROVE  /\ a \div d \in Nat
           /\ (a \div d) * d <= a /\ a < (a \div d + 1) * d
           /\ a % d = a - (a \div d) * d
OBVIOUS

(* What is less than n times the divisor has a quotient below n.           *)
LEMMA QuotientBelow ==
    ASSUME NEW a \in Nat, NEW d \in Nat \ {0}, NEW n \in Nat, a < n * d
    PROVE  a \div d < n
<1> DEFINE q == a \div d
<1>1. q \in Nat /\ q * d <= a  BY QuotientBounds
<1>2. SUFFICES ASSUME q >= n PROVE FALSE  BY <1>1
<1>3. q * d = n * d + (q - n) * d /\ (q - n) * d >= 0  BY <1>1, <1>2
<1>. HIDE DEF q
<1>. QED  BY <1>1, <1>3

(***************************************************************************)
(* Two numbers that d divides and of which one is less are d apart.        *)
(***************************************************************************)
LEMMA WholeSteps ==
    ASSUME NEW a \in Nat, NEW b \in Nat, NEW d \in Nat \ {0},
           a % d = 0, b % d = 0, a < b
    PROVE  a + d <= b
<1> DEFINE q == a \div d
           r == b \div d
<1>1. q \in Nat /\ r \in Nat /\ a = q * d /\ b = r * d  BY QuotientBounds
<1>. HIDE DEF q, r
<1>2. r >= q + 1
  <2>1. SUFFICES ASSUME r <= q PROVE FALSE  BY <1>1
  <2>2. q * d = r * d + (q - r) * d /\ (q - r) * d >= 0  BY <1>1, <2>1
  <2>. QED  BY <1>1, <2>2
<1>3. r * d = q * d + d + (r - q - 1) * d /\ (r - q - 1) * d >= 0  BY <1>1, <1>2
<1>. QED  BY <1>1, <1>3

(***************************************************************************)
(* The sizes: whole groups of words, and all regions as large.             *)
(***************************************************************************)
LEMMA Sizes ==
    /\ VirtualAddressSize \in Nat \ {0} /\ VirtualAddressSize % 64 = 0
    /\ NumberOfWords \in Nat \ {0} /\ NumberOfWords * 8 = VirtualAddressSize
    /\ NumberOfWords % 8 = 0
    /\ Stride \in Nat /\ Stride % 64 = 0
    /\ PTERegionSize \in Nat \ {0}
    /\ NumberOfVirtualPages = PTELockRegionCount * PTERegionSize
<1> DEFINE k == PageSize \div 64
           m == NumberOfVirtualPages * k
<1>1. PageSize \in Nat \ {0} /\ NumberOfVirtualPages \in Nat \ {0} /\ PageSize % 64 = 0
  BY AddressAssumption DEF Alignment, WordSize
<1>2. k \in Nat \ {0} /\ PageSize = 64 * k  BY <1>1, QuotientBounds
<1>. HIDE DEF k
<1>3. m \in Nat \ {0}  BY <1>1, <1>2
<1>4. VirtualAddressSize = 64 * m  BY <1>1, <1>2 DEF VirtualAddressSize
<1>. HIDE DEF m
<1>5. NumberOfWords = 8 * m  BY <1>3, <1>4 DEF NumberOfWords, WordSize
<1>6. Stride = 64 * (8 * k)  BY <1>2 DEF Stride, WordSize
<1>7. /\ PTERegionSize \in Nat
      /\ NumberOfVirtualPages = PTELockRegionCount * PTERegionSize
  BY AddressAssumption, QuotientBounds DEF PTERegionSize
<1>8. PTERegionSize # 0  BY <1>1, <1>7, AddressAssumption
<1>. QED  BY <1>2, <1>3, <1>4, <1>5, <1>6, <1>7, <1>8

-----------------------------------------------------------------------------
(* The addresses.                                                          *)

(***************************************************************************)
(* A random address, the start, and any address a stride on from one in    *)
(* the address space and not beyond it are in the address space.           *)
(***************************************************************************)
LEMMA RandomInSpace ==
    ASSUME NEW stamp \in TimeStamps
    PROVE  RandomVA(stamp) \in Nat /\ InAddressSpace(RandomVA(stamp))
<1> DEFINE word == stamp % NumberOfWords
           first == word - (word % 8)
<1>1. stamp \in Nat /\ VAStart \in Nat  BY AddressAssumption
<1>2. word \in Nat /\ word < NumberOfWords  BY <1>1, Sizes
<1>. HIDE DEF word
<1>3. first \in Nat /\ first % 8 = 0 /\ first <= word  BY <1>2
<1>4. RandomVA(stamp) = VAStart + first * 8
  BY DEF RandomVA, RandomWord, Alignment, WordSize, word
<1>. HIDE DEF first
<1>5. first + 8 <= NumberOfWords  BY <1>2, <1>3, Sizes, WholeSteps
<1>6. first * 8 + 64 <= VirtualAddressSize  BY <1>3, <1>5, Sizes
<1>7. (first * 8) % 64 = 0  BY <1>3
<1>. QED  BY <1>1, <1>3, <1>4, <1>6, <1>7, Sizes DEF InAddressSpace, Alignment, WordSize

(* The next address in sequence is in the address space, or its start.     *)
LEMMA SequentialInSpace ==
    ASSUME lastVirtualAddressAccess \in Nat, InAddressSpace(lastVirtualAddressAccess)
    PROVE  SequentialVA \in Nat /\ InAddressSpace(SequentialVA)
<1> DEFINE offset == lastVirtualAddressAccess - VAStart
           next == offset + Stride
<1>1. VAStart \in Nat  BY AddressAssumption
<1>2. offset \in Nat /\ offset % 64 = 0 /\ lastVirtualAddressAccess = VAStart + offset
  BY <1>1 DEF InAddressSpace, Alignment, WordSize
<1>. HIDE DEF offset
<1>3. next \in Nat /\ next % 64 = 0  BY <1>2, Sizes
<1>4. lastVirtualAddressAccess + Stride = VAStart + next  BY <1>1, <1>2, Sizes
<1>. HIDE DEF next
<1>5. CASE Beyond(lastVirtualAddressAccess + Stride)
  <2>1. SequentialVA = VAStart  BY <1>5 DEF SequentialVA
  <2>2. VirtualAddressSize >= 64  BY Sizes
  <2>. QED  BY <1>1, <2>1, <2>2, Sizes DEF InAddressSpace, Alignment, WordSize
<1>6. CASE ~Beyond(lastVirtualAddressAccess + Stride)
  <2>1. SequentialVA = VAStart + next  BY <1>4, <1>6 DEF SequentialVA
  <2>2. next < VirtualAddressSize  BY <1>1, <1>3, <1>4, <1>6, Sizes DEF Beyond
  <2>3. next + 64 <= VirtualAddressSize  BY <1>3, <2>2, Sizes, WholeSteps
  <2>. QED  BY <1>1, <1>3, <2>1, <2>3, Sizes DEF InAddressSpace, Alignment, WordSize
<1>. QED  BY <1>5, <1>6

(***************************************************************************)
(* The entry of an address in the address space is that of its page, and   *)
(* its lock is one of pteLockTable and covers it.                          *)
(***************************************************************************)
LEMMA EntryOfAddress ==
    ASSUME NEW va \in Nat, InAddressSpace(va)
    PROVE  LET entry == VAToPageTableEntry(va)
           IN  /\ entry \in 0 .. NumberOfVirtualPages - 1
               /\ PageTableEntryToVA(entry) <= va
               /\ va < PageTableEntryToVA(entry) + PageSize
               /\ Region(entry) \in 0 .. PTELockRegionCount - 1
               /\ Region(entry) * PTERegionSize <= entry
               /\ entry < (Region(entry) + 1) * PTERegionSize
<1> DEFINE offset == va - VAStart
           entry == offset \div PageSize
<1>1. /\ VAStart \in Nat /\ PageSize \in Nat \ {0} /\ NumberOfVirtualPages \in Nat \ {0}
      /\ PTELockRegionCount \in Nat \ {0}
  BY AddressAssumption
<1>2. offset \in Nat /\ offset < NumberOfVirtualPages * PageSize /\ va = VAStart + offset
  BY <1>1, Sizes DEF InAddressSpace, VirtualAddressSize, WordSize
<1>. HIDE DEF offset
<1>3. entry \in Nat /\ entry * PageSize <= offset /\ offset < (entry + 1) * PageSize
  BY <1>1, <1>2, QuotientBounds
<1>4. entry < NumberOfVirtualPages  BY <1>1, <1>2, QuotientBelow
<1>. HIDE DEF entry
<1>5. (entry + 1) * PageSize = entry * PageSize + PageSize  BY <1>1, <1>3
<1>6. /\ PageTableEntryToVA(entry) <= va
      /\ va < PageTableEntryToVA(entry) + PageSize
  BY <1>1, <1>2, <1>3, <1>5 DEF PageTableEntryToVA
<1>7. /\ Region(entry) \in Nat /\ Region(entry) < PTELockRegionCount
      /\ Region(entry) * PTERegionSize <= entry
      /\ entry < (Region(entry) + 1) * PTERegionSize
  BY <1>1, <1>3, <1>4, Sizes, QuotientBounds, QuotientBelow DEF Region
<1>8. entry = VAToPageTableEntry(va)  BY DEF VAToPageTableEntry, entry, offset
<1>. QED  BY <1>1, <1>3, <1>4, <1>6, <1>7, <1>8

-----------------------------------------------------------------------------
(* The invariant.                                                          *)

(* Where the thread last was is in the address space, too.                 *)
LastInSpace ==
    lastVirtualAddressAccess # 0 => InAddressSpace(lastVirtualAddressAccess)

(* A thread at an address has chosen it, in an iteration not yet done.     *)
Started ==
    pc \in {"store", "resolve"} => lastVirtualAddressAccess # 0 /\ i < TestIterations

IInv == TypeOK /\ StoresInBounds /\ FaultFindsItsPage /\ LastInSpace /\ Started

(* No address has been accessed at the start.                              *)
LEMMA InitIInv == Init => IInv
<1> USE AddressAssumption
<1>. QED
  BY DEF Init, IInv, TypeOK, StoresInBounds, FaultFindsItsPage, LastInSpace, Started

(***************************************************************************)
(* Going to an address of the address space keeps the invariant.           *)
(***************************************************************************)
LEMMA GotoKeepsIInv ==
    ASSUME IInv, i < TestIterations, NEW va \in Nat, InAddressSpace(va), Goto(va)
    PROVE  IInv'
<1>1. va # 0  BY AddressAssumption DEF InAddressSpace
<1>2. InAddressSpace(va)'  BY DEF InAddressSpace
<1>. QED
  BY <1>1, <1>2 DEF Goto, IInv, TypeOK, StoresInBounds, FaultFindsItsPage, LastInSpace,
                    Started, InAddressSpace

(***************************************************************************)
(* Every step keeps the invariant: a jump and a stride by what the address *)
(* is, a fault by the arithmetic of the entry, the others change no        *)
(* address.                                                                *)
(***************************************************************************)
LEMMA NextIInv == IInv /\ [Next]_vars => IInv'
<1> SUFFICES ASSUME IInv, [Next]_vars PROVE IInv'
  OBVIOUS
<1>1. CASE Jump
  <2>1. PICK stamp \in TimeStamps : Goto(RandomVA(stamp))  BY <1>1 DEF Jump
  <2>2. i < TestIterations  BY <1>1 DEF Jump
  <2>. QED  BY <2>1, <2>2, RandomInSpace, GotoKeepsIInv
<1>2. CASE Proceed
  <2>1. /\ lastVirtualAddressAccess \in Nat
        /\ InAddressSpace(lastVirtualAddressAccess)
        /\ Goto(SequentialVA)
        /\ i < TestIterations
    BY <1>2 DEF Proceed, IInv, TypeOK, LastInSpace
  <2>. QED  BY <2>1, SequentialInSpace, GotoKeepsIInv
<1>3. CASE Store
  <2>1. i + 1 \in 0 .. TestIterations
    BY <1>3, AddressAssumption DEF Store, IInv, TypeOK, Started
  <2>. QED
    BY <1>3, <2>1 DEF Store, IInv, TypeOK, StoresInBounds, FaultFindsItsPage, LastInSpace,
                      Started, InAddressSpace
<1>4. CASE Fault
  <2>1. arbitrary_va \in Nat /\ InAddressSpace(arbitrary_va)
    BY <1>4 DEF Fault, IInv, TypeOK, StoresInBounds
  <2>2. /\ currentPTE' = VAToPageTableEntry(arbitrary_va)
        /\ VAToPageTableEntry(arbitrary_va) < NumberOfVirtualPages
        /\ PTELock' = Region(VAToPageTableEntry(arbitrary_va))
        /\ pc' = "resolve"
    BY <1>4, <2>1, EntryOfAddress, AddressAssumption DEF Fault
  <2>. QED
    BY <1>4, <2>1, <2>2, EntryOfAddress
    DEF Fault, IInv, TypeOK, StoresInBounds, FaultFindsItsPage, LastInSpace, Started,
        InAddressSpace, PageTableEntryToVA
<1>5. CASE Resolved
  BY <1>5 DEF Resolved, IInv, TypeOK, StoresInBounds, FaultFindsItsPage, LastInSpace, Started,
              InAddressSpace
<1>6. CASE Finish
  BY <1>6 DEF Finish, IInv, TypeOK, StoresInBounds, FaultFindsItsPage, LastInSpace, Started,
              InAddressSpace
<1>7. CASE UNCHANGED vars
  BY <1>7 DEF vars, IInv, TypeOK, StoresInBounds, FaultFindsItsPage, LastInSpace, Started,
              InAddressSpace
<1>. QED
  BY <1>1, <1>2, <1>3, <1>4, <1>5, <1>6, <1>7 DEF Next, Ended

(***************************************************************************)
(* Whatever a thread jumps and strides over, the entry and the lock of its *)
(* fault are indices of the page table and of pteLockTable.                *)
(***************************************************************************)
THEOREM AccessTyped == Spec => []TypeOK
<1>1. IInv => TypeOK  BY DEF IInv
<1>. QED  BY <1>1, InitIInv, NextIInv, PTL DEF Spec

(***************************************************************************)
(* No store of any user thread is outside the virtual address space, for   *)
(* any sequence of jumps and strides.                                      *)
(***************************************************************************)
THEOREM AddressesInBounds == Spec => []StoresInBounds
<1>1. IInv => StoresInBounds  BY DEF IInv
<1>. QED  BY <1>1, InitIInv, NextIInv, PTL DEF Spec

(***************************************************************************)
(* Every fault finds the entry of its page and a lock of the table.        *)
(***************************************************************************)
THEOREM FaultsFindTheirPages == Spec => []FaultFindsItsPage
<1>1. IInv => FaultFindsItsPage  BY DEF IInv
<1>. QED  BY <1>1, InitIInv, NextIInv, PTL DEF Spec
=============================================================================
