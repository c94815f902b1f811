----------------------- MODULE TransferAddressProperties -----------------------
(***************************************************************************)
(* What the transfer addresses must guarantee.                             *)
(***************************************************************************)
EXTENDS TransferAddresses

TypeOK ==
    /\ transferVAIndex \in [Users -> 0 .. TransferVACount]
    /\ perThreadTransferVAs \in [Users -> [TransferVAs -> Frames \cup {None}]]
    /\ pc \in [Users -> {"run", "reacquire", "acquireVA", "mapVA", "fill", "filled", "mapPage"}]
    /\ va \in [Users -> TransferVAs]
    /\ frame \in [Users -> Frames \cup {None}]
    /\ writeTransferVA \in [0 .. MaxWritePages - 1 -> Frames \cup {None}]
    /\ diskPC \in {"wait", "map", "write"}
    /\ swapFrames \in Seq(Frames) /\ Len(swapFrames) <= MaxWritePages
    /\ written \in 0 .. Len(swapFrames)
    /\ place \in [Frames -> {"free", "standby", "taken", "active", "modified", "writing"}]
    /\ filledBy \in [Frames -> Users \cup {None}]

(***************************************************************************)
(* An address that is about to be mapped is mapped to nothing, and the     *)
(* disk thread starts each batch with none mapped: no call of              *)
(* MapUserPhysicalPages takes a mapping away that is still meant to be     *)
(* there.  Of the code: the index of acquireTransferVA, its test and its   *)
(* flush, over any number of fills, those among them whose mapping fails,  *)
(* and the number of pages swapToDisk maps and unmaps.                     *)
(***************************************************************************)
AddressesAreFresh ==
    /\ \A u \in Users : pc[u] = "mapVA" => perThreadTransferVAs[u][va[u]] = None
    /\ diskPC # "write" => \A i \in DOMAIN writeTransferVA : writeTransferVA[i] = None

(***************************************************************************)
(* A frame that its thread has filled holds what this thread put in until  *)
(* it is given its page: wipePage and swapFromDisk write where they mean   *)
(* to, and no other thread writes into it, though other threads' addresses *)
(* may still be mapped to it and this thread's to other frames.            *)
(***************************************************************************)
FillReachesFrame == \A u \in Users : pc[u] = "filled" => filledBy[frame[u]] = u

(***************************************************************************)
(* While swapToDisk writes its batch, the address it copies each remaining *)
(* page from leads to that page's frame, and no thread can fill the frame: *)
(* rescued or not, evicted again or not, it cannot reach the standby list, *)
(* from where it would be taken for another page, before it is written.    *)
(***************************************************************************)
BatchReachesItsFrames ==
    \A i \in written + 1 .. Len(swapFrames) :
        /\ diskPC = "write" => CopyVA(i) = swapFrames[i]
        /\ place[swapFrames[i]] \in {"writing", "active", "modified"}
        /\ \A u \in Users : pc[u] = "fill" => Reached(u) # swapFrames[i]
=============================================================================
