-------------------------- MODULE DocumentedClaims --------------------------
(***************************************************************************)
(* What the comments and assertions of the code say of it, and what it     *)
(* does not keep.  Each claim is checked by a run of its own that finds it *)
(* violated (README, "Findings").                                          *)
(***************************************************************************)
EXTENDS VirtualMemoryProperties

(***************************************************************************)
(* userThread.c:271, "the disk index ... it's now owned by the victim PTE  *)
(* on disk": a used slot always has an owner.  Slot 0 does not: the PTE    *)
(* that should own it reads as a PTE never used.                           *)
(***************************************************************************)
UsedSlotHasAnOwner == \A s \in diskSlotBitmap : SlotOwners(s) # {}

(***************************************************************************)
(* checkVa (utilities.c:269-278): a mapped page holds zeros and its own    *)
(* addresses.                                                              *)
(***************************************************************************)
CheckVa == \A p \in Pages : mapped[p] # None => ram[mapped[p]] \subseteq {p} \X Words

(***************************************************************************)
(* disk.c:281-283, "If the slot in disk space we are trying to fill from   *)
(* is not already in use, debug break because the contents should be       *)
(* there": the ASSERTs on disk slots hold.                                 *)
(***************************************************************************)
SlotsAreInUse == halted # "assert"

(***************************************************************************)
(* utilities.c:144-147, "Error: item has no prev but is not head?          *)
(* Possibly not in this list": a frame is only ever removed from the list  *)
(* it is in.                                                               *)
(***************************************************************************)
RemovedFrameIsListed == halted # "unlink"
=============================================================================
