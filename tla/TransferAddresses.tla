--------------------------- MODULE TransferAddresses ---------------------------
(***************************************************************************)
(* The addresses through which the program reaches frames that no page is  *)
(* mapped to: TransferVACount of them for each user thread, to fill a      *)
(* frame (wipePage, swapFromDisk), and MaxWritePages for the disk thread,  *)
(* to write a batch (swapToDisk).  A user thread's address stays mapped    *)
(* after use and is unmapped with all the others when they are used up, so *)
(* a frame may still be mapped by threads that have long passed it on.     *)
(*                                                                         *)
(* The way of a frame from one thread to the next is that of VirtualMemory *)
(* without lists, pages and slots.                                         *)
(*                                                                         *)
(* Some operators have a wrong form just before them, which no action      *)
(* uses: put in the place of the right one it breaks a property.           *)
(***************************************************************************)
EXTENDS Integers, FiniteSets, Sequences, SequencesExt

CONSTANTS
    Users,             (* the user threads                                 *)
    Frames,            (* the frames                                       *)
    TransferVACount,   (* TRANSFER_VA_COUNT: addresses of each user thread *)
    MaxWritePages,     (* MAX_WRITE_PAGES: addresses of the disk thread    *)
    None               (* NULL, or not mapped                              *)

ASSUME TransferAssumption ==
    /\ TransferVACount \in Nat \ {0} /\ MaxWritePages \in Nat \ {0}
    /\ None \notin Frames \cup Users

TransferVAs == 0 .. TransferVACount - 1

VARIABLES
    transferVAIndex,   (* the next address of each user thread             *)
    perThreadTransferVAs, (* the frame each of its addresses is mapped to  *)
    pc, va, frame,     (* where a user thread is, its address and frame    *)
    writeTransferVA,   (* the frame each address of the disk thread is mapped to *)
    diskPC, swapFrames, (* where the disk thread is, its batch             *)
    written,           (* how many pages of the batch it has written       *)
    place,             (* where each frame is                              *)
    filledBy           (* the thread whose contents a frame holds          *)

window == <<transferVAIndex, perThreadTransferVAs>>
user == <<pc, va, frame>>
disk == <<writeTransferVA, diskPC, swapFrames, written>>
vars == <<window, user, disk, place, filledBy>>

NoneMapped == [i \in TransferVAs |-> None]

Init ==
    /\ transferVAIndex = [u \in Users |-> 0]
    /\ perThreadTransferVAs = [u \in Users |-> NoneMapped]
    /\ pc = [u \in Users |-> "run"]
    /\ va = [u \in Users |-> 0]
    /\ frame = [u \in Users |-> None]
    /\ writeTransferVA = [i \in 0 .. MaxWritePages - 1 |-> None]
    /\ diskPC = "wait" /\ swapFrames = <<>> /\ written = 0
    /\ place = [f \in Frames |-> "free"]
    /\ filledBy = [f \in Frames |-> None]

Move(f, where) == place' = [place EXCEPT ![f] = where]
GoTo(u, next) == pc' = [pc EXCEPT ![u] = next]

-----------------------------------------------------------------------------
(* A user thread takes a free frame for its page, which it need not fill   *)
(* when the page is new ...                                                *)
TakeFree(u, f) ==
    /\ pc[u] = "run" /\ place[f] = "free"
    /\ Move(f, "taken")
    /\ frame' = [frame EXCEPT ![u] = f]
    /\ \E next \in {"acquireVA", "mapPage"} : GoTo(u, next)
    /\ UNCHANGED <<window, va, disk, filledBy>>

(* ... or a standby frame, which goes back when the page has been mapped   *)
(* in the meantime ...                                                     *)
TakeStandby(u, f) ==
    /\ pc[u] = "run" /\ place[f] = "standby"
    /\ Move(f, "taken")
    /\ frame' = [frame EXCEPT ![u] = f]
    /\ GoTo(u, "reacquire")
    /\ UNCHANGED <<window, va, disk, filledBy>>

PutBack(u) ==
    /\ pc[u] = "reacquire"
    /\ Move(frame[u], "standby")
    /\ frame' = [frame EXCEPT ![u] = None]
    /\ GoTo(u, "run")
    /\ UNCHANGED <<window, va, disk, filledBy>>

(* ... and, when it has to be wiped or filled from disk, an address for    *)
(* it.  acquireTransferVA: if all are used up, all are unmapped first.     *)
UsedUpOneLate(index) == index > TransferVACount
UsedUp(index) == index > TransferVACount - 1

FlushedNever(u) == perThreadTransferVAs[u]
Flushed(u) == NoneMapped

AcquireTransferVA(u) ==
    LET flush == UsedUp(transferVAIndex[u])
        index == IF flush THEN 0 ELSE transferVAIndex[u]
    IN
    /\ pc[u] \in {"acquireVA", "reacquire"}
    /\ perThreadTransferVAs' =
           [perThreadTransferVAs EXCEPT ![u] = IF flush THEN Flushed(u) ELSE @]
    /\ va' = [va EXCEPT ![u] = index]
    /\ transferVAIndex' = [transferVAIndex EXCEPT ![u] = index + 1]
    /\ GoTo(u, "mapVA")
    /\ UNCHANGED <<frame, disk, place, filledBy>>

MapTransferVA(u) ==
    /\ pc[u] = "mapVA"
    /\ perThreadTransferVAs' = [perThreadTransferVAs EXCEPT ![u][va[u]] = frame[u]]
    /\ GoTo(u, "fill")
    /\ UNCHANGED <<transferVAIndex, va, frame, disk, place, filledBy>>

(* In swapFromDisk the call may fail: it returns with the address used up, *)
(* and the page is given the frame as it is.                               *)
MapTransferVAFails(u) ==
    /\ pc[u] = "mapVA"
    /\ GoTo(u, "mapPage")
    /\ UNCHANGED <<window, va, frame, disk, place, filledBy>>

(* memset or memcpy through the address.                                   *)
ReachedFirst(u) == perThreadTransferVAs[u][0]
Reached(u) == perThreadTransferVAs[u][va[u]]
Fill(u) ==
    /\ pc[u] = "fill"
    /\ filledBy' = [filledBy EXCEPT ![Reached(u)] = u]
    /\ GoTo(u, "filled")
    /\ UNCHANGED <<window, va, frame, disk, place>>

MapPage(u) ==
    /\ pc[u] \in {"filled", "mapPage"}
    /\ Move(frame[u], "active")
    /\ frame' = [frame EXCEPT ![u] = None]
    /\ GoTo(u, "run")
    /\ UNCHANGED <<window, va, disk, filledBy>>

-----------------------------------------------------------------------------
(* evictFrame unmaps the page of a frame.                                  *)
Evict(f) ==
    /\ place[f] = "active"
    /\ Move(f, "modified")
    /\ UNCHANGED <<window, user, disk, filledBy>>

(* A frame is rescued from the lists or from the disk thread's hands.      *)
Rescue(f) ==
    /\ place[f] \in {"modified", "writing", "standby"}
    /\ Move(f, "active")
    /\ UNCHANGED <<window, user, disk, filledBy>>

(* swapToDisk takes a batch off the modified list ...                      *)
Modified == {f \in Frames : place[f] = "modified"}
Batches == UNION {Injection(1 .. n, Modified) : n \in 1 .. MaxWritePages}

CollectModified ==
    /\ diskPC = "wait"
    /\ \E batch \in Batches :
           /\ swapFrames' = batch
           /\ place' = [f \in Frames |-> IF f \in Range(batch) THEN "writing" ELSE place[f]]
    /\ diskPC' = "map"
    /\ UNCHANGED <<window, user, writeTransferVA, written, filledBy>>

(* ... maps it ...                                                         *)
MapBatch ==
    /\ diskPC = "map"
    /\ writeTransferVA' = [i \in DOMAIN writeTransferVA |->
           IF i < Len(swapFrames) THEN swapFrames[i + 1] ELSE writeTransferVA[i]]
    /\ diskPC' = "write"
    /\ UNCHANGED <<window, user, swapFrames, written, place, filledBy>>

(* ... writes its pages in order, each from its own address; those not     *)
(* rescued meanwhile go to the standby list ...                            *)
CopyVAFirst(i) == writeTransferVA[0]
CopyVA(i) == writeTransferVA[i - 1]

WritePage ==
    LET f == swapFrames[written + 1] IN
    /\ diskPC = "write" /\ written < Len(swapFrames)
    /\ written' = written + 1
    /\ IF place[f] = "writing" THEN Move(f, "standby") ELSE UNCHANGED place
    /\ UNCHANGED <<window, user, writeTransferVA, diskPC, swapFrames, filledBy>>

(* ... and unmaps as many addresses as it has mapped.                      *)
NumToUnmap(n) == n
UnmapBatch ==
    /\ diskPC = "write" /\ written = Len(swapFrames)
    /\ writeTransferVA' = [i \in DOMAIN writeTransferVA |->
           IF i < NumToUnmap(Len(swapFrames)) THEN None ELSE writeTransferVA[i]]
    /\ swapFrames' = <<>> /\ written' = 0
    /\ diskPC' = "wait"
    /\ UNCHANGED <<window, user, place, filledBy>>

Next ==
    \/ \E u \in Users : \/ \E f \in Frames : TakeFree(u, f) \/ TakeStandby(u, f)
                        \/ PutBack(u) \/ AcquireTransferVA(u) \/ MapTransferVA(u)
                        \/ MapTransferVAFails(u) \/ Fill(u) \/ MapPage(u)
    \/ \E f \in Frames : Evict(f) \/ Rescue(f)
    \/ CollectModified \/ MapBatch \/ WritePage \/ UnmapBatch

Spec == Init /\ [][Next]_vars
=============================================================================
