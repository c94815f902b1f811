---------------------------- MODULE DiskSlotsProofs ----------------------------
(***************************************************************************)
(* For any number of slots and any size of word: the search misses no free *)
(* slot (SearchMissesNothing), no slot is reserved twice or released twice *)
(* (NoSlotReservedTwice), and the searches of a batch do what one step of  *)
(* VirtualMemory does (BatchIsReservedAtOnce).                             *)
(***************************************************************************)
EXTENDS DiskSlotsProperties, FrameListProofs, FiniteSetTheorems

-----------------------------------------------------------------------------
(* The arithmetic of the search.                                           *)

(***************************************************************************)
(* A slot is in its word, and the rest of the word is as long as the skip. *)
(***************************************************************************)
LEMMA OffsetInWord ==
    ASSUME NEW s \in DiskSlots
    PROVE  /\ DiskSlotToBitOffset(s) \in 0 .. WordSize - 1
           /\ \A j \in 0 .. WordSize - DiskSlotToBitOffset(s) - 1 : s + j \in WordOf(s)
<1>1. s \in Nat /\ WordSize \in Nat \ {0}  BY SlotsAssumption DEF DiskSlots
<1>2. DiskSlotToBitOffset(s) \in 0 .. WordSize - 1  BY <1>1 DEF DiskSlotToBitOffset
<1> DEFINE r == DiskSlotToBitOffset(s)
<1> HIDE DEF r
<1>3. \A j \in 0 .. WordSize - r - 1 : s + j \in s - r .. (s - r) + WordSize - 1
  BY <1>1, <1>2 DEF r
<1>. QED  BY <1>2, <1>3 DEF WordOf, WordStart, r

(***************************************************************************)
(* Going on by j from the place reached by k steps, without passing the    *)
(* last slot on the way, is going k + j steps.                             *)
(***************************************************************************)
LEMMA StepsAdd ==
    ASSUME NEW n \in Nat \ {0}, NEW start \in 0 .. n - 1, NEW k \in 0 .. n - 1,
           NEW j \in Nat, k + j <= n,
           NEW cur \in 0 .. n - 1,
           cur = (IF start + k >= n THEN start + k - n ELSE start + k),
           cur + j <= n
    PROVE  /\ (IF start + (k + j) >= n THEN start + (k + j) - n ELSE start + (k + j))
                  = IF cur + j >= n THEN cur + j - n ELSE cur + j
           /\ (IF cur + j >= n THEN cur + j - n ELSE cur + j) \in 0 .. n - 1
<1>1. CASE start + k >= n
  <2>1. cur + j < n  BY <1>1
  <2>. QED  BY <1>1, <2>1
<1>2. CASE start + k < n  BY <1>2
<1>. QED  BY <1>1, <1>2

(***************************************************************************)
(* The walk of a search that takes as many steps as there are slots passes *)
(* every slot, wherever it started.                                        *)
(***************************************************************************)
LEMMA WalkPassesAll ==
    ASSUME NEW n \in Nat \ {0}, NEW start \in 0 .. n - 1, NEW s \in 0 .. n - 1
    PROVE  \E k \in 0 .. n - 1 :
               s = IF start + k >= n THEN start + k - n ELSE start + k
<1>1. CASE s >= start
  <2>1. PICK k \in 0 .. n - 1 : k = s - start  BY <1>1
  <2>2. s = IF start + k >= n THEN start + k - n ELSE start + k  BY <2>1
  <2>. QED  BY <2>2
<1>2. CASE s < start
  <2>1. PICK k \in 0 .. n - 1 : k = s - start + n  BY <1>2
  <2>2. s = IF start + k >= n THEN start + k - n ELSE start + k  BY <2>1
  <2>. QED  BY <2>2
<1>. QED  BY <1>1, <1>2

-----------------------------------------------------------------------------
(* The search.                                                             *)

SearchInv == /\ TypeOK
             /\ pc \in {"scan", "try"} => PassedSlotsWereUsed
             /\ pc = "try" => scanned < NumberOfDiskSlots

(***************************************************************************)
(* A search begins with nothing passed.                                    *)
(***************************************************************************)
LEMMA BeginSearchKeeps ==
    ASSUME SearchInv, BeginSearch
    PROVE  SearchInv'
<1>1. TypeOK'
  BY SlotsAssumption DEF SearchInv, BeginSearch, TypeOK
<1>2. NumberOfDiskSlots \in Nat \ {0} /\ diskSearchStartIndex \in 0 .. NumberOfDiskSlots - 1
  BY SlotsAssumption DEF SearchInv, TypeOK, DiskSlots
<1>3. PassedSlotsWereUsed'
  BY <1>2 DEF BeginSearch, PassedSlotsWereUsed, At, IndexAfter
<1>. QED  BY <1>1, <1>3 DEF SearchInv, BeginSearch

(***************************************************************************)
(* A skip passes the rest of a full word, within the slots, and no other.  *)
(***************************************************************************)
LEMMA SkipWordKeeps ==
    ASSUME SearchInv, SkipWord
    PROVE  SearchInv'
<1> DEFINE n == NumberOfDiskSlots
           cur == currentSearchIndex
           skip == Skip(cur)
           start == diskSearchStartIndex
<1>1. /\ n \in Nat \ {0} /\ cur \in 0 .. n - 1 /\ start \in 0 .. n - 1
      /\ scanned \in 0 .. n - 1 /\ cur \in DiskSlots
  BY SlotsAssumption DEF SearchInv, TypeOK, DiskSlots, SkipWord
<1>2. /\ PassedSlotsWereUsed /\ WordOf(cur) \subseteq diskSlotBitmap
      /\ diskSlotBitmap \subseteq DiskSlots
  BY DEF SearchInv, TypeOK, SkipWord, WordIsFull
<1>3. /\ scanned' = scanned + skip /\ currentSearchIndex' = IndexAfter(cur, skip)
      /\ UNCHANGED <<diskSlotBitmap, diskSearchStartIndex, usedAtStart, pc>>
  BY DEF SkipWord
<1>4. /\ skip \in 1 .. n /\ scanned + skip <= n
      /\ \A j \in 0 .. skip - 1 : cur + j \in WordOf(cur)
  <2>1. /\ DiskSlotToBitOffset(cur) \in 0 .. WordSize - 1 /\ WordSize \in Nat
        /\ \A j \in 0 .. WordSize - DiskSlotToBitOffset(cur) - 1 : cur + j \in WordOf(cur)
    BY <1>1, OffsetInWord, SlotsAssumption
  <2>. QED  BY <1>1, <2>1 DEF Skip
<1> HIDE DEF skip, n, cur, start
<1>5. \A j \in 0 .. skip - 1 : cur + j \in diskSlotBitmap /\ cur + j < n
  <2>1. \A j \in 0 .. skip - 1 : cur + j \in DiskSlots  BY <1>2, <1>4
  <2>. QED  BY <1>1, <1>2, <1>4, <2>1 DEF DiskSlots, n
<1>6. cur + skip <= n
  <2>1. skip - 1 \in 0 .. skip - 1  BY <1>4
  <2>. QED  BY <1>1, <1>4, <1>5, <2>1
<1>7. cur = IF start + scanned >= n THEN start + scanned - n ELSE start + scanned
  BY <1>2 DEF PassedSlotsWereUsed, At, IndexAfter, n, cur, start
<1>8. /\ currentSearchIndex' = IndexAfter(start, scanned + skip)
      /\ currentSearchIndex' \in 0 .. n - 1
  <2>1. skip \in Nat  BY <1>4
  <2>. QED  BY <1>1, <1>3, <1>4, <1>6, <1>7, <2>1, StepsAdd DEF IndexAfter, n
<1>9. ASSUME NEW k \in 0 .. scanned + skip - 1
      PROVE  IndexAfter(start, k) \in usedAtStart
  <2>1. CASE k < scanned
    <3>1. k \in 0 .. scanned - 1  BY <1>1, <1>4, <2>1
    <3>. QED  BY <1>2, <3>1 DEF PassedSlotsWereUsed, At, start
  <2>2. CASE k >= scanned
    <3>1. PICK j \in 0 .. skip - 1 : j = k - scanned /\ scanned + j = k
      <4>1. k - scanned \in 0 .. skip - 1 /\ scanned + (k - scanned) = k
        BY <1>1, <1>4, <2>2
      <4>. QED  BY <4>1
    <3>2. j \in Nat /\ scanned + j <= n /\ cur + j < n /\ cur + j <= n /\ ~(cur + j >= n)
      BY <1>1, <1>4, <1>5, <3>1
    <3>3. IndexAfter(start, scanned + j) = cur + j
      BY <1>1, <1>7, <3>2, StepsAdd DEF IndexAfter, n
    <3>. QED  BY <1>2, <1>5, <3>1, <3>3 DEF PassedSlotsWereUsed
  <2>. QED  BY <2>1, <2>2, <1>1
<1>10. PassedSlotsWereUsed'
  <2>0. scanned' = scanned + skip  BY <1>3
  <2>1. currentSearchIndex' = At(scanned)'  BY <1>3, <1>8 DEF At, start
  <2>2. (diskSlotBitmap \subseteq usedAtStart)'  BY <1>2, <1>3 DEF PassedSlotsWereUsed
  <2>3. ASSUME NEW k \in 0 .. scanned' - 1  PROVE At(k)' \in usedAtStart'
    <3>1. k \in 0 .. scanned + skip - 1  BY <1>1, <1>4, <2>0, <2>3
    <3>2. IndexAfter(start, k) \in usedAtStart  BY <1>9, <3>1, Zenon
    <3>. QED  BY <1>3, <3>2 DEF At, IndexAfter, start
  <2>. QED  BY <2>1, <2>2, <2>3 DEF PassedSlotsWereUsed
<1>11. TypeOK'
  BY <1>1, <1>3, <1>4, <1>8 DEF SearchInv, TypeOK, SkipWord, DiskSlots, n
<1>. QED  BY <1>10, <1>11 DEF SearchInv, SkipWord

(***************************************************************************)
(* Passing one slot whose bit was found set.                               *)
(***************************************************************************)
LEMMA TryReserveTakenKeeps ==
    ASSUME SearchInv, TryReserveTaken
    PROVE  SearchInv'
<1> DEFINE n == NumberOfDiskSlots
           cur == currentSearchIndex
           start == diskSearchStartIndex
<1>1. /\ n \in Nat \ {0} /\ cur \in 0 .. n - 1 /\ start \in 0 .. n - 1
      /\ scanned \in 0 .. n - 1
  BY SlotsAssumption DEF SearchInv, TypeOK, DiskSlots, TryReserveTaken
<1>2. PassedSlotsWereUsed /\ cur \in diskSlotBitmap
  BY DEF SearchInv, TryReserveTaken, WasInUse
<1>3. /\ scanned' = scanned + 1 /\ currentSearchIndex' = NextIndex(cur)
      /\ UNCHANGED <<diskSlotBitmap, diskSearchStartIndex, usedAtStart>> /\ pc' = "scan"
  BY DEF TryReserveTaken
<1>4. cur = IF start + scanned >= n THEN start + scanned - n ELSE start + scanned
  BY <1>2 DEF PassedSlotsWereUsed, At, IndexAfter
<1> HIDE DEF n, cur, start
<1>5. /\ currentSearchIndex' = IndexAfter(start, scanned + 1)
      /\ currentSearchIndex' \in 0 .. n - 1
  <2>1. NextIndex(cur) = IF cur + 1 >= n THEN cur + 1 - n ELSE cur + 1
    BY <1>1 DEF NextIndex, n
  <2>2. scanned + 1 <= n /\ cur + 1 <= n  BY <1>1
  <2>. QED  BY <1>1, <1>3, <1>4, <2>1, <2>2, StepsAdd DEF IndexAfter, n
<1>6. ASSUME NEW k \in 0 .. scanned + 1 - 1
      PROVE  IndexAfter(start, k) \in usedAtStart
  <2>1. CASE k = scanned
    BY <1>2, <1>4, <2>1 DEF IndexAfter, n, PassedSlotsWereUsed
  <2>2. CASE k # scanned
    <3>1. k \in 0 .. scanned - 1  BY <1>1, <2>2
    <3>. QED  BY <1>2, <3>1 DEF PassedSlotsWereUsed, At, start
  <2>. QED  BY <2>1, <2>2
<1>7. PassedSlotsWereUsed'
  <2>0. scanned' = scanned + 1  BY <1>3
  <2>1. currentSearchIndex' = At(scanned)'  BY <1>3, <1>5 DEF At, start
  <2>2. (diskSlotBitmap \subseteq usedAtStart)'  BY <1>2, <1>3 DEF PassedSlotsWereUsed
  <2>3. ASSUME NEW k \in 0 .. scanned' - 1  PROVE At(k)' \in usedAtStart'
    <3>1. k \in 0 .. scanned + 1 - 1  BY <1>1, <2>0, <2>3
    <3>2. IndexAfter(start, k) \in usedAtStart  BY <1>6, <3>1, Zenon
    <3>. QED  BY <1>3, <3>2 DEF At, IndexAfter, start
  <2>. QED  BY <2>1, <2>2, <2>3 DEF PassedSlotsWereUsed
<1>8. TypeOK'
  BY <1>1, <1>3, <1>5 DEF SearchInv, TypeOK, TryReserveTaken, DiskSlots, n
<1>. QED  BY <1>3, <1>7, <1>8 DEF SearchInv

(***************************************************************************)
(* A search that succeeds leaves the start of the next one behind it.      *)
(***************************************************************************)
LEMMA TryReserveFoundKeeps ==
    ASSUME SearchInv, TryReserveFound
    PROVE  SearchInv'
<1>1. /\ NumberOfDiskSlots \in Nat \ {0} /\ currentSearchIndex \in 0 .. NumberOfDiskSlots - 1
      /\ diskSlotsToBatch \in Seq(DiskSlots) /\ currentSearchIndex \in DiskSlots
  BY SlotsAssumption DEF SearchInv, TypeOK, DiskSlots
<1>2. NextIndex(currentSearchIndex) \in 0 .. NumberOfDiskSlots - 1
  BY <1>1 DEF NextIndex
<1>3. Append(diskSlotsToBatch, currentSearchIndex) \in Seq(DiskSlots)
  BY <1>1, AppendProperties
<1>4. pc' \in {"collect", "next"}  BY DEF TryReserveFound
<1>5. TypeOK'
  <2>1. diskSlotBitmap' \subseteq DiskSlots
    BY <1>1 DEF SearchInv, TypeOK, TryReserveFound, SetBit
  <2>2. diskSlotsToBatch' \in Seq(DiskSlots)  BY <1>3 DEF TryReserveFound
  <2>3. diskSearchStartIndex' \in DiskSlots  BY <1>2 DEF TryReserveFound, DiskSlots
  <2>. QED  BY <1>4, <2>1, <2>2, <2>3 DEF SearchInv, TypeOK, TryReserveFound, search
<1>. QED  BY <1>4, <1>5 DEF SearchInv

(***************************************************************************)
(* Every other step leaves the search where it is; bits are only cleared.  *)
(***************************************************************************)
LEMMA OtherStepsKeep ==
    ASSUME SearchInv,
           \/ ReadWord \/ SearchFails \/ ReleaseUnused \/ EndBatch \/ UNCHANGED vars
           \/ \E n \in 0 .. MaxWritePages : CollectModified(n)
           \/ \E s \in DiskSlots : ReleaseDiskSlot(s)
    PROVE  SearchInv'
<1>1. CASE ReadWord
  BY <1>1 DEF SearchInv, ReadWord, search, TypeOK, PassedSlotsWereUsed, At
<1>2. CASE SearchFails
  BY <1>2 DEF SearchInv, SearchFails, search, TypeOK
<1>3. CASE ReleaseUnused
  <2>1. Tail(diskSlotsToBatch) \in Seq(DiskSlots)
    BY <1>3, HeadTailProperties DEF SearchInv, TypeOK, ReleaseUnused
  <2>2. halted' \in BOOLEAN /\ diskSlotBitmap' \subseteq DiskSlots
    BY <1>3 DEF SearchInv, TypeOK, ReleaseUnused, ClearBit
  <2>. QED  BY <1>3, <2>1, <2>2 DEF SearchInv, ReleaseUnused, search, TypeOK
<1>4. CASE EndBatch
  BY <1>4 DEF SearchInv, EndBatch, search, TypeOK
<1>5. CASE UNCHANGED vars
  BY <1>5 DEF SearchInv, vars, search, TypeOK, PassedSlotsWereUsed, At
<1>6. ASSUME NEW n \in 0 .. MaxWritePages, CollectModified(n)  PROVE SearchInv'
  <2> DEFINE batch == diskSlotsToBatch
  <2>1. /\ batch \in Seq(DiskSlots) /\ n \in 0 .. Len(batch) /\ Len(batch) \in Nat
        /\ \A i \in 1 .. Len(batch) : batch[i] \in DiskSlots
    BY <1>6, LenProperties, ElementOfSeq DEF SearchInv, TypeOK, CollectModified
  <2>2. \A i \in n + 1 .. Len(batch) : batch[i] \in DiskSlots  BY <2>1
  <2>3. SubSeq(batch, n + 1, Len(batch)) \in Seq(DiskSlots)
    <3>1. n + 1 \in Int  BY <2>1
    <3>. QED  BY <2>1, <2>2, <3>1, SubSeqProperties
  <2>4. stored' \subseteq DiskSlots
    <3>1. \A i \in 1 .. n : batch[i] \in DiskSlots  BY <2>1
    <3>2. SubSeq(batch, 1, n) \in Seq(DiskSlots)  BY <2>1, <3>1, SubSeqProperties
    <3>3. ToSet(SubSeq(batch, 1, n)) \subseteq DiskSlots
      BY <3>2, LenProperties, ElementOfSeq DEF ToSet
    <3>. QED  BY <1>6, <3>3 DEF SearchInv, TypeOK, CollectModified, StoredAfter
  <2>. QED  BY <1>6, <2>3, <2>4 DEF SearchInv, CollectModified, search, TypeOK
<1>7. ASSUME NEW s \in DiskSlots, ReleaseDiskSlot(s)  PROVE SearchInv'
  <2>1. /\ diskSlotBitmap' = diskSlotBitmap \ {s} /\ stored' = stored \ {s}
        /\ halted' \in BOOLEAN
        /\ UNCHANGED <<diskSearchStartIndex, currentSearchIndex, scanned, diskSlotsToBatch,
                       pc, usedAtStart>>
    BY <1>7 DEF ReleaseDiskSlot, ClearBit, search, SearchInv, TypeOK
  <2>2. TypeOK'  BY <2>1 DEF SearchInv, TypeOK
  <2>3. pc \in {"scan", "try"} => PassedSlotsWereUsed'
    BY <2>1 DEF SearchInv, PassedSlotsWereUsed, At
  <2>. QED  BY <2>1, <2>2, <2>3 DEF SearchInv
<1>. QED  BY <1>1, <1>2, <1>3, <1>4, <1>5, <1>6, <1>7

(***************************************************************************)
(* The search is always where SearchInv says.                              *)
(***************************************************************************)
LEMMA SearchInvariant == Spec => []SearchInv
<1>1. Init => SearchInv
  <2>1. 0 \in DiskSlots /\ 0 \in 0 .. NumberOfDiskSlots /\ <<>> \in Seq(DiskSlots)
    BY SlotsAssumption DEF DiskSlots
  <2>. QED  BY <2>1 DEF Init, SearchInv, TypeOK
<1>2. SearchInv /\ [Next]_vars => SearchInv'
  BY BeginSearchKeeps, SkipWordKeeps, TryReserveFoundKeeps, TryReserveTakenKeeps,
     OtherStepsKeep DEF Next, SearchStep
<1>. QED  BY <1>1, <1>2, PTL DEF Spec

(***************************************************************************)
(* For any number of slots and any word size, the search stays on the      *)
(* slots of the bitmap: neither a skip nor a wrap takes an index past its  *)
(* last slot.                                                              *)
(***************************************************************************)
THEOREM SearchTyped == Spec => []TypeOK
<1>1. SearchInv => TypeOK  BY DEF SearchInv
<1>. QED  BY <1>1, SearchInvariant, PTL

(***************************************************************************)
(* findFreeDiskSlot returns -1 only when no slot was free, for any size of *)
(* word and any number of slots, whole words or not.                       *)
(***************************************************************************)
THEOREM SearchMissesNothing == Spec => []NoFreeSlotMissed
<1>1. SearchInv => NoFreeSlotMissed
  <2>1. SUFFICES ASSUME SearchInv, pc = "scan", scanned >= NumberOfDiskSlots,
                        NEW s \in DiskSlots
                 PROVE  s \in usedAtStart
    BY DEF NoFreeSlotMissed, SearchInv, TypeOK
  <2>2. /\ NumberOfDiskSlots \in Nat \ {0} /\ s \in 0 .. NumberOfDiskSlots - 1
        /\ diskSearchStartIndex \in 0 .. NumberOfDiskSlots - 1
        /\ scanned = NumberOfDiskSlots
    BY <2>1, SlotsAssumption DEF SearchInv, TypeOK, DiskSlots
  <2>3. PICK k \in 0 .. NumberOfDiskSlots - 1 : s = IndexAfter(diskSearchStartIndex, k)
    BY <2>2, WalkPassesAll DEF IndexAfter
  <2>. QED  BY <2>1, <2>2, <2>3 DEF SearchInv, PassedSlotsWereUsed, At
<1>. QED  BY <1>1, SearchInvariant, PTL

-----------------------------------------------------------------------------
(* The reservations.                                                       *)

(***************************************************************************)
(* A slot is reserved only if its bit was clear, and then joins the batch. *)
(***************************************************************************)
LEMMA ReserveOnce ==
    ASSUME TypeOK, SlotsReservedOnce, TryReserveFound
    PROVE  SlotsReservedOnce'
<1> DEFINE s == currentSearchIndex
           batch == diskSlotsToBatch
<1>1. batch \in Seq(DiskSlots) /\ s \in DiskSlots  BY DEF TypeOK
<1>2. /\ s \notin diskSlotBitmap /\ diskSlotBitmap' = diskSlotBitmap \cup {s}
      /\ diskSlotsToBatch' = AddToFrameListTail(batch, s)
      /\ UNCHANGED <<stored, halted>>
  BY DEF TryReserveFound, WasInUse, SetBit, AddToFrameListTail
<1>3. s \notin ToSet(batch) /\ s \notin stored  BY <1>2 DEF SlotsReservedOnce
<1>4. ToSet(batch') = ToSet(batch) \cup {s} /\ IsInjective(batch')
  BY <1>1, <1>2, <1>3, AddToFrameListTailProperties DEF SlotsReservedOnce
<1>. QED  BY <1>2, <1>3, <1>4 DEF SlotsReservedOnce

(***************************************************************************)
(* The slots that get a frame pass from the batch to the standby frames.   *)
(***************************************************************************)
LEMMA CollectOnce ==
    ASSUME TypeOK, SlotsReservedOnce, NEW n \in 0 .. MaxWritePages, CollectModified(n)
    PROVE  SlotsReservedOnce'
<1> DEFINE batch == diskSlotsToBatch
<1>1. batch \in Seq(DiskSlots) /\ n \in 0 .. Len(batch)  BY DEF TypeOK, CollectModified
<1>2. /\ stored' = stored \cup ToSet(Popped(batch, n))
      /\ diskSlotsToBatch' = AfterPop(batch, n)
      /\ UNCHANGED <<diskSlotBitmap, halted>>
  BY DEF CollectModified, StoredAfter, Popped, AfterPop
<1>3. /\ ToSet(batch) = ToSet(Popped(batch, n)) \cup ToSet(AfterPop(batch, n))
      /\ IsInjective(AfterPop(batch, n))
      /\ ToSet(Popped(batch, n)) \cap ToSet(AfterPop(batch, n)) = {}
  BY <1>1, PopProperties DEF SlotsReservedOnce
<1>. QED  BY <1>2, <1>3 DEF SlotsReservedOnce

(***************************************************************************)
(* A slot of the batch without a frame is released once.                   *)
(***************************************************************************)
LEMMA ReleaseUnusedOnce ==
    ASSUME TypeOK, SlotsReservedOnce, ReleaseUnused
    PROVE  SlotsReservedOnce'
<1> DEFINE batch == diskSlotsToBatch
<1>1. batch \in Seq(DiskSlots) /\ batch # <<>>  BY DEF TypeOK, ReleaseUnused
<1>2. Head(batch) = batch[1] /\ Tail(batch) = AfterPop(batch, 1)
  <2>1. Len(batch) \in Nat /\ Len(batch) >= 1  BY <1>1, EmptySeq, LenProperties
  <2>2. /\ AfterPop(batch, 1) \in Seq(DiskSlots) /\ Len(AfterPop(batch, 1)) = Len(batch) - 1
        /\ \A i \in 1 .. Len(batch) - 1 : AfterPop(batch, 1)[i] = batch[1 + i]
    <3>1. 1 \in 0 .. Len(batch)  BY <2>1
    <3>. QED  BY <1>1, <3>1, AfterPopElements
  <2>3. /\ Tail(batch) \in Seq(DiskSlots) /\ Len(Tail(batch)) = Len(batch) - 1
        /\ Head(batch) = batch[1]
        /\ \A i \in 1 .. Len(batch) - 1 : Tail(batch)[i] = batch[i + 1]
    BY <1>1, <2>1, HeadTailProperties
  <2>4. \A i \in 1 .. Len(batch) - 1 : Tail(batch)[i] = AfterPop(batch, 1)[i]
    BY <2>1, <2>2, <2>3
  <2>. QED  BY <2>2, <2>3, <2>4, SeqEqual
<1>3. /\ diskSlotBitmap' = diskSlotBitmap \ {batch[1]}
      /\ halted' = (halted \/ batch[1] \notin diskSlotBitmap)
      /\ diskSlotsToBatch' = AfterPop(batch, 1) /\ UNCHANGED stored
  BY <1>2 DEF ReleaseUnused, ClearBit
<1>4. /\ ToSet(batch) = ToSet(AfterPop(batch, 1)) \cup {batch[1]}
      /\ IsInjective(AfterPop(batch, 1)) /\ batch[1] \notin ToSet(AfterPop(batch, 1))
  BY <1>1, PopFirstProperties DEF SlotsReservedOnce
<1>. QED  BY <1>3, <1>4 DEF SlotsReservedOnce

(***************************************************************************)
(* No slot is ever reserved for two, and no slot is released that is not   *)
(* reserved, whatever the other threads release while the search is on.    *)
(***************************************************************************)
THEOREM NoSlotReservedTwice == Spec => []SlotsReservedOnce
<1>1. Init => SlotsReservedOnce  BY DEF Init, SlotsReservedOnce, IsInjective, ToSet
<1>2. SearchInv => TypeOK  BY DEF SearchInv
<1>3. ASSUME TypeOK, SlotsReservedOnce, [Next]_vars  PROVE SlotsReservedOnce'
  <2>1. CASE BeginSearch  BY <1>3, <2>1 DEF BeginSearch, SlotsReservedOnce
  <2>2. CASE SkipWord  BY <1>3, <2>2 DEF SkipWord, SlotsReservedOnce
  <2>3. CASE ReadWord  BY <1>3, <2>3 DEF ReadWord, SlotsReservedOnce
  <2>4. CASE TryReserveFound  BY <1>3, <2>4, ReserveOnce
  <2>5. CASE TryReserveTaken  BY <1>3, <2>5 DEF TryReserveTaken, SlotsReservedOnce
  <2>6. CASE SearchFails  BY <1>3, <2>6 DEF SearchFails, SlotsReservedOnce
  <2>7. CASE \E n \in 0 .. MaxWritePages : CollectModified(n)  BY <1>3, <2>7, CollectOnce
  <2>8. CASE ReleaseUnused  BY <1>3, <2>8, ReleaseUnusedOnce
  <2>9. CASE EndBatch  BY <1>3, <2>9 DEF EndBatch, SlotsReservedOnce
  <2>10. CASE \E s \in DiskSlots : ReleaseDiskSlot(s)
    BY <1>3, <2>10 DEF ReleaseDiskSlot, ClearBit, SlotsReservedOnce
  <2>11. CASE UNCHANGED vars  BY <1>3, <2>11 DEF vars, SlotsReservedOnce
  <2>. QED
    BY <1>3, <2>1, <2>2, <2>3, <2>4, <2>5, <2>6, <2>7, <2>8, <2>9, <2>10, <2>11
       DEF Next, SearchStep
<1>. QED  BY <1>1, <1>2, <1>3, SearchInvariant, PTL DEF Spec

-----------------------------------------------------------------------------
(* A batch of slots.                                                       *)

(***************************************************************************)
(* A sequence without repetitions has as many elements as it is long.      *)
(***************************************************************************)
LEMMA ElementsCounted ==
    ASSUME NEW S, NEW s \in Seq(S), IsInjective(s)
    PROVE  /\ IsFiniteSet(ToSet(s)) /\ Cardinality(ToSet(s)) = Len(s)
           /\ Len(s) \in Nat
<1>1. /\ Len(s) \in Nat /\ DOMAIN s = 1 .. Len(s)
      /\ \A i \in 1 .. Len(s) : s[i] \in S
      /\ s = [i \in 1 .. Len(s) |-> s[i]]
  BY LenProperties, ElementOfSeq
<1>2. IsFiniteSet(1 .. Len(s)) /\ Cardinality(1 .. Len(s)) = Len(s)
  <2>1. 1 \in Int /\ Len(s) \in Int  BY <1>1
  <2>2. /\ IsFiniteSet(1 .. Len(s))
        /\ Cardinality(1 .. Len(s)) = IF 1 > Len(s) THEN 0 ELSE Len(s) - 1 + 1
    BY <2>1, FS_Interval
  <2>. QED  BY <1>1, <2>2
<1>3. s \in Bijection(1 .. Len(s), ToSet(s))
  <2>1. s \in [1 .. Len(s) -> ToSet(s)]  BY <1>1 DEF ToSet
  <2>2. \A t \in ToSet(s) : \E i \in 1 .. Len(s) : s[i] = t  BY <1>1 DEF ToSet
  <2>. QED  BY <2>1, <2>2 DEF Bijection, Injection, Surjection
<1>4. ExistsBijection(1 .. Len(s), ToSet(s))  BY <1>3 DEF ExistsBijection
<1>. QED  BY <1>1, <1>2, <1>4, FS_Bijection

(***************************************************************************)
(* The disk thread begins with an empty batch, asks for a slot only while  *)
(* there is room for one, and stops when there is none left or no slot was *)
(* free when it began the search that failed.                              *)
(***************************************************************************)
BatchFits ==
    /\ Len(diskSlotsToBatch) <= MaxWritePages
    /\ pc = "wait" => diskSlotsToBatch = <<>>
    /\ pc \in {"next", "scan", "try"} => Len(diskSlotsToBatch) < MaxWritePages
    /\ pc = "collect" => Len(diskSlotsToBatch) = MaxWritePages \/ usedAtStart = DiskSlots

(***************************************************************************)
(* The searches of a batch.                                                *)
(***************************************************************************)
LEMMA SearchStepFits ==
    ASSUME TypeOK, NoFreeSlotMissed, BatchFits, SearchStep
    PROVE  BatchFits'
<1> DEFINE batch == diskSlotsToBatch
<1>1. batch \in Seq(DiskSlots) /\ Len(batch) \in Nat /\ MaxWritePages \in Nat \ {0}
  BY LenProperties, SlotsAssumption DEF TypeOK
<1>2. CASE BeginSearch
  <2>1. Len(<<>>) = 0  BY LenProperties
  <2>2. Len(batch) < MaxWritePages  BY <1>1, <1>2, <2>1 DEF BatchFits, BeginSearch
  <2>. QED  BY <1>1, <1>2, <2>2 DEF BatchFits, BeginSearch
<1>3. CASE SkipWord \/ ReadWord \/ TryReserveTaken
  BY <1>3 DEF BatchFits, SkipWord, ReadWord, TryReserveTaken
<1>4. CASE TryReserveFound
  <2>1. /\ pc = "try" /\ batch' = Append(batch, currentSearchIndex)
        /\ pc' = IF Len(batch') = MaxWritePages THEN "collect" ELSE "next"
    BY <1>4 DEF TryReserveFound
  <2>2. currentSearchIndex \in DiskSlots  BY DEF TypeOK
  <2>3. Len(batch') = Len(batch) + 1  BY <1>1, <2>1, <2>2, AppendProperties
  <2>4. Len(batch) < MaxWritePages  BY <2>1 DEF BatchFits
  <2>. QED  BY <1>1, <2>1, <2>3, <2>4 DEF BatchFits
<1>5. CASE SearchFails
  BY <1>5 DEF BatchFits, SearchFails, NoFreeSlotMissed
<1>. QED  BY <1>2, <1>3, <1>4, <1>5 DEF SearchStep

(***************************************************************************)
(* What happens after the searches makes a batch shorter.                  *)
(***************************************************************************)
LEMMA OthersFit ==
    ASSUME TypeOK, BatchFits,
           \/ ReleaseUnused \/ EndBatch \/ UNCHANGED vars
           \/ \E n \in 0 .. MaxWritePages : CollectModified(n)
           \/ \E s \in DiskSlots : ReleaseDiskSlot(s)
    PROVE  BatchFits'
<1> DEFINE batch == diskSlotsToBatch
<1>1. batch \in Seq(DiskSlots) /\ Len(batch) \in Nat /\ MaxWritePages \in Nat \ {0}
  BY LenProperties, SlotsAssumption DEF TypeOK
<1>2. CASE ReleaseUnused
  <2>1. Len(batch') = Len(batch) - 1
    BY <1>1, <1>2, HeadTailProperties DEF ReleaseUnused
  <2>2. pc = "release" /\ pc' = "release"  BY <1>2 DEF ReleaseUnused
  <2>. QED  BY <1>1, <2>1, <2>2 DEF BatchFits
<1>3. CASE EndBatch  BY <1>3 DEF BatchFits, EndBatch
<1>4. CASE UNCHANGED vars  BY <1>4 DEF BatchFits, vars
<1>5. ASSUME NEW n \in 0 .. MaxWritePages, CollectModified(n)  PROVE BatchFits'
  <2>1. n \in 0 .. Len(batch) /\ batch' = AfterPop(batch, n) /\ pc' = "release"
    BY <1>5 DEF CollectModified, AfterPop
  <2>2. Len(batch') = Len(batch) - n  BY <1>1, <2>1, PopProperties
  <2>. QED  BY <1>1, <2>1, <2>2 DEF BatchFits
<1>6. CASE \E s \in DiskSlots : ReleaseDiskSlot(s)
  BY <1>6 DEF BatchFits, ReleaseDiskSlot
<1>. QED  BY <1>2, <1>3, <1>4, <1>5, <1>6

(***************************************************************************)
(* A full batch could be taken in one step when it was complete, and one   *)
(* that is not full when its last search began: of the slots that were     *)
(* not in use by then it has all.                                          *)
(***************************************************************************)
LEMMA FitsIsAtOnce ==
    ASSUME TypeOK, SlotsReservedOnce, BatchFits
    PROVE  BatchAsIfAtOnce
<1> DEFINE batch == diskSlotsToBatch
<1>0. SUFFICES ASSUME pc = "collect"
               PROVE  ReservedAtOnce(stored) \/ ReservedAtOnce(usedAtStart \ ToSet(batch))
  BY DEF BatchAsIfAtOnce
<1>1. batch \in Seq(DiskSlots) /\ IsInjective(batch) /\ ToSet(batch) \subseteq DiskSlots
  <2>1. batch \in Seq(DiskSlots) /\ IsInjective(batch)  BY DEF TypeOK, SlotsReservedOnce
  <2>. QED  BY <2>1, LenProperties, ElementOfSeq DEF ToSet
<1>2. /\ Cardinality(ToSet(batch)) = Len(batch) /\ Len(batch) \in Nat
      /\ MaxWritePages \in Nat /\ Len(batch) <= MaxWritePages
  BY <1>1, ElementsCounted, SlotsAssumption DEF BatchFits
<1>3. CASE Len(batch) = MaxWritePages
  <2>. DEFINE free == DiskSlots \ stored
  <2>1. ToSet(batch) \subseteq free  BY <1>1 DEF SlotsReservedOnce
  <2>2. IsFiniteSet(DiskSlots)
    <3>1. 0 \in Int /\ NumberOfDiskSlots - 1 \in Int  BY SlotsAssumption
    <3>. QED  BY <3>1, FS_Interval DEF DiskSlots
  <2>3. IsFiniteSet(free)  BY <2>2, FS_Subset
  <2>4. Cardinality(free) \in Nat /\ Cardinality(ToSet(batch)) <= Cardinality(free)
    BY <2>1, <2>3, FS_Subset, FS_CardinalityType
  <2>5. Len(batch) = IF MaxWritePages < Cardinality(free) THEN MaxWritePages
                     ELSE Cardinality(free)
    BY <1>2, <1>3, <2>4
  <2>. QED  BY <2>1, <2>5 DEF ReservedAtOnce
<1>4. CASE usedAtStart = DiskSlots
  <2>1. DiskSlots \ (usedAtStart \ ToSet(batch)) = ToSet(batch)  BY <1>1, <1>4
  <2>2. Len(batch) = IF MaxWritePages < Cardinality(ToSet(batch)) THEN MaxWritePages
                     ELSE Cardinality(ToSet(batch))
    BY <1>2
  <2>. QED  BY <2>1, <2>2 DEF ReservedAtOnce
<1>. QED  BY <1>0, <1>3, <1>4 DEF BatchFits

(***************************************************************************)
(* A batch found search by search, while other threads release slots, is   *)
(* one that could have been found in one step: as ReserveSlots of          *)
(* VirtualMemory has it, for any number of slots, any word size and any    *)
(* size of a batch.                                                        *)
(***************************************************************************)
THEOREM BatchIsReservedAtOnce == Spec => []BatchAsIfAtOnce
<1>1. Init => BatchFits
  <2>1. Len(<<>>) = 0  BY LenProperties
  <2>. QED  BY <2>1, SlotsAssumption DEF Init, BatchFits
<1>2. ASSUME TypeOK, NoFreeSlotMissed, BatchFits, [Next]_vars  PROVE BatchFits'
  BY <1>2, SearchStepFits, OthersFit DEF Next
<1>3. TypeOK /\ SlotsReservedOnce /\ BatchFits => BatchAsIfAtOnce  BY FitsIsAtOnce
<1>. QED
  BY <1>1, <1>2, <1>3, SearchTyped, SearchMissesNothing, NoSlotReservedTwice, PTL DEF Spec
===============================================================================
