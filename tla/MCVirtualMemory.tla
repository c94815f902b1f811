--------------------------- MODULE MCVirtualMemory ---------------------------
(***************************************************************************)
(* The instances of VirtualMemory that TLC checks.                         *)
(***************************************************************************)
EXTENDS DocumentedClaims, TLC

CONSTANTS u1, u2, p1, p2, p3, w1

OneFrame == <<1>>
TwoFrames == <<1, 2>>

(* All PTEs under one lock, and each under its own.                        *)
OneRegion == [p \in Pages |-> "r1"]
RegionPerPage == [p \in Pages |-> p]

(* p1 and p2 share a lock, p3 has its own.                                 *)
TwoRegions == [p \in Pages |-> IF p = p3 THEN "r2" ELSE "r1"]

Symmetry == Permutations(Users) \cup Permutations(Pages)

-----------------------------------------------------------------------------
(* Bounds.                                                                 *)

(* Some of the checked properties promise nothing after a race: stop there. *)
NoRace == races = {}

(* Each thread has a page of its own, and they share the third: what the   *)
(* one takes off the standby list is under its own lock or under another.  *)
OwnAndShared == va[u1] # <<p3, w1>> /\ va[u2] # <<p1, w1>>

(* The disk thread finds the lowest free slots, in order.                  *)
LowestSlots ==
    diskPC = "collect" =>
        /\ \A i \in 1 .. Len(diskSlots), s \in DiskSlots \ diskSlotBitmap : diskSlots[i] < s
        /\ \A i, j \in 1 .. Len(diskSlots) : i < j => diskSlots[i] < diskSlots[j]

EndBound == OwnAndShared /\ LowestSlots
=============================================================================
