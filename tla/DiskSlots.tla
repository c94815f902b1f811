------------------------------- MODULE DiskSlots -------------------------------
(***************************************************************************)
(* The bitmap of disk slots and the search for free ones (disk.c), bit by  *)
(* bit, while user threads release slots.  Only the disk thread reserves.  *)
(* A step is one interlocked bit operation or one plain read of a word of  *)
(* the bitmap; the search remembers what it read.                          *)
(*                                                                         *)
(* VirtualMemory does a whole batch in one step (ReserveSlots); here the   *)
(* batch is what it is in the code, up to MaxWritePages searches.          *)
(*                                                                         *)
(* Some operators have a wrong form just before them, which no action      *)
(* uses: put in the place of the right one it breaks a property.           *)
(***************************************************************************)
EXTENDS Integers, FiniteSets, Sequences, SequencesExt

CONSTANTS
    WordSize,             (* 64: the bits of one word of the bitmap        *)
    NumberOfDiskSlots,    (* NUMBER_OF_DISK_SLOTS                          *)
    MaxWritePages         (* MAX_WRITE_PAGES                               *)

ASSUME SlotsAssumption ==
    /\ WordSize \in Nat \ {0}
    /\ NumberOfDiskSlots \in Nat \ {0}
    /\ MaxWritePages \in Nat \ {0}

DiskSlots == 0 .. NumberOfDiskSlots - 1

VARIABLES
    diskSlotBitmap,         (* the slots whose bit is set                  *)
    diskSearchStartIndex,   (* where the next search starts                *)
    currentSearchIndex,     (* where this one is                           *)
    scanned,                (* how many slots it has passed                *)
    diskSlotsToBatch,       (* the slots found for this batch              *)
    pc,                     (* where the disk thread is                    *)
    stored,                 (* the slots in use by pages and frames        *)
    usedAtStart,            (* history: the bitmap when the search started *)
    halted                  (* an ASSERT of disk.c failed                  *)

search == <<currentSearchIndex, scanned>>
vars == <<diskSlotBitmap, diskSearchStartIndex, search, diskSlotsToBatch, pc, stored,
          usedAtStart, halted>>

(* DiskSlotToBitOffset, and the bits of the slot's word.  The last word    *)
(* may have bits that are no slots; they are never set.                    *)
DiskSlotToBitOffset(s) == s % WordSize
WordStart(s) == s - DiskSlotToBitOffset(s)
WordOf(s) == WordStart(s) .. WordStart(s) + WordSize - 1

Init ==
    /\ diskSlotBitmap = {}
    /\ diskSearchStartIndex = 0
    /\ currentSearchIndex = 0 /\ scanned = 0
    /\ diskSlotsToBatch = <<>>
    /\ pc = "wait"
    /\ stored = {}
    /\ usedAtStart = {}
    /\ halted = FALSE

(* The interlocked operations, each with its ASSERT.                       *)
SetBit(s) == diskSlotBitmap' = diskSlotBitmap \cup {s}
ClearBit(s) ==
    /\ diskSlotBitmap' = diskSlotBitmap \ {s}
    /\ halted' = (halted \/ s \notin diskSlotBitmap)

(* The index after i, and after a skip of n, wrapped at the end.           *)
NextIndexNotWrapped(i) == IF i + 1 > NumberOfDiskSlots THEN 0 ELSE i + 1
NextIndex(i) == IF i + 1 >= NumberOfDiskSlots THEN 0 ELSE i + 1
IndexAfter(i, n) ==
    IF i + n >= NumberOfDiskSlots THEN i + n - NumberOfDiskSlots ELSE i + n

-----------------------------------------------------------------------------
(* swapToDisk asks findFreeDiskSlot for a slot.                            *)
BeginSearch ==
    /\ pc \in {"wait", "next"}
    /\ currentSearchIndex' = diskSearchStartIndex
    /\ scanned' = 0
    /\ usedAtStart' = diskSlotBitmap
    /\ pc' = "scan"
    /\ UNCHANGED <<diskSlotBitmap, diskSearchStartIndex, diskSlotsToBatch, stored, halted>>

(* A full word is skipped, from here to its end.                           *)
WordIsFull(s) == WordOf(s) \subseteq diskSlotBitmap

SkipOffset(s) == DiskSlotToBitOffset(s)
SkipWholeWord(s) ==
    LET left == NumberOfDiskSlots - scanned IN IF WordSize > left THEN left ELSE WordSize
Skip(s) ==
    LET skip == WordSize - DiskSlotToBitOffset(s)
        left == NumberOfDiskSlots - scanned
    IN IF skip > left THEN left ELSE skip

SkipWord ==
    /\ pc = "scan" /\ scanned < NumberOfDiskSlots
    /\ WordIsFull(currentSearchIndex)
    /\ scanned' = scanned + Skip(currentSearchIndex)
    /\ currentSearchIndex' = IndexAfter(currentSearchIndex, Skip(currentSearchIndex))
    /\ UNCHANGED <<diskSlotBitmap, diskSearchStartIndex, diskSlotsToBatch, pc, stored,
                   usedAtStart, halted>>

(* A word that is not full: its slots are tried, this one first.           *)
ReadWord ==
    /\ pc = "scan" /\ scanned < NumberOfDiskSlots
    /\ ~WordIsFull(currentSearchIndex)
    /\ pc' = "try"
    /\ UNCHANGED <<diskSlotBitmap, diskSearchStartIndex, search, diskSlotsToBatch, stored,
                   usedAtStart, halted>>

WasInUseIgnored(s) == FALSE
WasInUse(s) == s \in diskSlotBitmap

(* TryReserveDiskSlotInternal succeeds: the slot joins the batch.          *)
TryReserveFound ==
    LET s == currentSearchIndex IN
    /\ pc = "try" /\ ~WasInUse(s)
    /\ SetBit(s)
    /\ diskSearchStartIndex' = NextIndex(s)
    /\ diskSlotsToBatch' = Append(diskSlotsToBatch, s)
    /\ pc' = IF Len(diskSlotsToBatch') = MaxWritePages THEN "collect" ELSE "next"
    /\ UNCHANGED <<search, stored, usedAtStart, halted>>

(* The bit was set: on to the next slot.                                   *)
TryReserveTaken ==
    /\ pc = "try" /\ WasInUse(currentSearchIndex)
    /\ scanned' = scanned + 1
    /\ currentSearchIndex' = NextIndex(currentSearchIndex)
    /\ pc' = "scan"
    /\ UNCHANGED <<diskSlotBitmap, diskSearchStartIndex, diskSlotsToBatch, stored,
                   usedAtStart, halted>>

(* Every slot has been passed: -1, and the batch is what was found.        *)
SearchFails ==
    /\ pc = "scan" /\ scanned >= NumberOfDiskSlots
    /\ pc' = "collect"
    /\ UNCHANGED <<diskSlotBitmap, diskSearchStartIndex, search, diskSlotsToBatch, stored,
                   usedAtStart, halted>>

-----------------------------------------------------------------------------
(* The rest of swapToDisk: the slots for which there is a modified frame   *)
(* are filled and become the standby frames', the others are given back.   *)
StoredAfter(n) == stored \cup ToSet(SubSeq(diskSlotsToBatch, 1, n))
CollectModified(n) ==
    /\ pc = "collect" /\ n \in 0 .. Len(diskSlotsToBatch)
    /\ stored' = StoredAfter(n)
    /\ diskSlotsToBatch' = SubSeq(diskSlotsToBatch, n + 1, Len(diskSlotsToBatch))
    /\ pc' = "release"
    /\ UNCHANGED <<diskSlotBitmap, diskSearchStartIndex, search, usedAtStart, halted>>

ReleaseUnused ==
    /\ pc = "release" /\ diskSlotsToBatch # <<>>
    /\ ClearBit(Head(diskSlotsToBatch))
    /\ diskSlotsToBatch' = Tail(diskSlotsToBatch)
    /\ UNCHANGED <<diskSearchStartIndex, search, pc, stored, usedAtStart>>

EndBatch ==
    /\ pc = "release" /\ diskSlotsToBatch = <<>>
    /\ pc' = "wait"
    /\ UNCHANGED <<diskSlotBitmap, diskSearchStartIndex, search, diskSlotsToBatch, stored,
                   usedAtStart, halted>>

(* A slot that holds a page or a copy of a frame is released, by a user    *)
(* thread (read in, rescued, reused) or by the disk thread (rescued).      *)
ReleaseDiskSlot(s) ==
    /\ s \in stored
    /\ ClearBit(s)
    /\ stored' = stored \ {s}
    /\ UNCHANGED <<diskSearchStartIndex, search, diskSlotsToBatch, pc, usedAtStart>>

SearchStep == BeginSearch \/ SkipWord \/ ReadWord \/ TryReserveFound \/ TryReserveTaken
              \/ SearchFails

Next ==
    \/ SearchStep
    \/ \E n \in 0 .. MaxWritePages : CollectModified(n)
    \/ ReleaseUnused \/ EndBatch
    \/ \E s \in DiskSlots : ReleaseDiskSlot(s)

Spec == Init /\ [][Next]_vars

(***************************************************************************)
(* The disk thread keeps running.                                          *)
(***************************************************************************)
FairSpec == Spec /\ WF_vars(SearchStep)
=============================================================================
