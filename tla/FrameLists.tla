----------------------------- MODULE FrameLists -----------------------------
(***************************************************************************)
(* The frame lists of components/utilities.c seen as sequences: the head   *)
(* of the sequence is headFrame, its last element tailFrame, its length    *)
(* the length field.  A list operation also maintains the two list flags   *)
(* of the frame it moves; the flags live in the frames and are updated by  *)
(* the callers in VirtualMemory.                                           *)
(***************************************************************************)
EXTENDS Integers, Sequences, SequencesExt

(***************************************************************************)
(* addToFrameList: the item becomes the new head.                          *)
(***************************************************************************)
AddToFrameList(list, item) == <<item>> \o list

(***************************************************************************)
(* addToFrameListTail: the item becomes the new tail.                      *)
(***************************************************************************)
AddToFrameListTail(list, item) == Append(list, item)

(***************************************************************************)
(* What n calls of popFirstFrame return, oldest call first, and what they  *)
(* leave behind.                                                           *)
(***************************************************************************)
Popped(list, n) == SubSeq(list, 1, n)
AfterPop(list, n) == SubSeq(list, n + 1, Len(list))

(***************************************************************************)
(* removeFromFrameList: the item is unlinked wherever it is.  An item that *)
(* is not in the list has no neighbours to unlink and the sequence stays   *)
(* as it is (the caller reports that case, see VirtualMemory).             *)
(***************************************************************************)
Position(list, item) == CHOOSE i \in 1 .. Len(list) : list[i] = item

RemoveFromFrameList(list, item) ==
    IF Contains(list, item) THEN RemoveAt(list, Position(list, item)) ELSE list
=============================================================================
