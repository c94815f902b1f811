-------------------------- MODULE LinkedFrameLists --------------------------
(***************************************************************************)
(* The frame lists of utilities.c as they are in memory: nextPFN and       *)
(* prevPFN in each frame, headFrame, tailFrame and length in each list.    *)
(* One action is one call of a list function.  The lock of the list is     *)
(* held during the call, and the call touches only frames of that list and *)
(* the one frame its caller holds, so calls on different lists commute.    *)
(*                                                                         *)
(* The free list is special: initListsAndPFNs links its frames without     *)
(* prevPFN and tailFrame.                                                  *)
(*                                                                         *)
(* As in VirtualMemory, a few operators have a wrong form just before      *)
(* them, which no action uses: put in the place of the right one it breaks *)
(* a property.                                                             *)
(***************************************************************************)
EXTENDS Integers, FiniteSets, FrameLists

CONSTANTS
    PhysicalPageNumbers,  (* physical_page_numbers: the frames, in order   *)
    LengthModulus,        (* one more than the largest ULONG64             *)
    MaxAbsentRemovals,    (* bound: removals of frames that are not listed *)
    None                  (* NULL                                          *)

Frames == {PhysicalPageNumbers[i] : i \in 1 .. Len(PhysicalPageNumbers)}
ListNames == {"free", "active", "modified", "standby"}
PageoutLists == {"modified", "standby"}

ASSUME ListAssumption ==
    /\ PhysicalPageNumbers \in Seq(Nat) /\ IsInjective(PhysicalPageNumbers)
    /\ LengthModulus \in Nat /\ LengthModulus > Len(PhysicalPageNumbers)
    /\ MaxAbsentRemovals \in Nat
    /\ None \notin Frames

VARIABLES
    nextPFN, prevPFN,                   (* the links of each frame         *)
    isOnModifiedList, isOnStandbyList,  (* the flags of each frame         *)
    headFrame, tailFrame, length,       (* the fields of each list         *)
    linked,                             (* how many frames have been given to the free list *)
    contents,                           (* history: the list as a sequence *)
    absentRemovals                      (* history: how often a frame was removed from a
                                           list it was not in              *)

links == <<nextPFN, prevPFN>>
flags == <<isOnModifiedList, isOnStandbyList>>
heads == <<headFrame, tailFrame, length>>
vars == <<links, flags, heads, linked, contents, absentRemovals>>

Loose(f) == \A l \in ListNames : f \notin ToSet(contents[l])

NoFrame == [f \in Frames |-> None]
NoFlag == [f \in Frames |-> FALSE]

Init ==
    /\ nextPFN = NoFrame /\ prevPFN = NoFrame
    /\ isOnModifiedList = NoFlag /\ isOnStandbyList = NoFlag
    /\ headFrame = [l \in ListNames |-> None]
    /\ tailFrame = [l \in ListNames |-> None]
    /\ length = [l \in ListNames |-> 0]
    /\ linked = 0
    /\ contents = [l \in ListNames |-> <<>>]
    /\ absentRemovals = [l \in ListNames |-> 0]

(* length++ and length--, of a ULONG64.                                    *)
Longer(l) == length' = [length EXCEPT ![l] = (@ + 1) % LengthModulus]
ShorterSigned(l) == length' = [length EXCEPT ![l] = @ - 1]
ShorterNever(l) == UNCHANGED length
Shorter(l) == length' = [length EXCEPT ![l] = (@ - 1) % LengthModulus]

(* "Maintain flags".                                                       *)
FlagOn(l, f) ==
    IF l \in PageoutLists
    THEN /\ isOnModifiedList' = [isOnModifiedList EXCEPT ![f] = l = "modified"]
         /\ isOnStandbyList' = [isOnStandbyList EXCEPT ![f] = l = "standby"]
    ELSE UNCHANGED flags

FlagOffNever(l, f) == UNCHANGED flags
FlagOff(l, f) ==
    /\ isOnModifiedList' = [isOnModifiedList EXCEPT ![f] = @ /\ l # "modified"]
    /\ isOnStandbyList' = [isOnStandbyList EXCEPT ![f] = @ /\ l # "standby"]

(* An assignment through a pointer that may be NULL.                       *)
SetLinkNever(link, f, g) == link
SetLink(link, f, g) == IF f = None THEN link ELSE [link EXCEPT ![f] = g]

(***************************************************************************)
(* initListsAndPFNs: the next frame of physical_page_numbers becomes the   *)
(* head of the free list.  Nothing else runs until all are linked.         *)
(***************************************************************************)
LinkFree ==
    LET f == PhysicalPageNumbers[linked + 1] IN
    /\ linked < Len(PhysicalPageNumbers)
    /\ linked' = linked + 1
    /\ nextPFN' = [nextPFN EXCEPT ![f] = headFrame["free"]]
    /\ headFrame' = [headFrame EXCEPT !["free"] = f]
    /\ Longer("free")
    /\ isOnModifiedList' = [isOnModifiedList EXCEPT ![f] = FALSE]
    /\ contents' = [contents EXCEPT !["free"] = AddToFrameList(@, f)]
    /\ UNCHANGED <<prevPFN, isOnStandbyList, tailFrame, absentRemovals>>

Built == linked = Len(PhysicalPageNumbers)

(***************************************************************************)
(* addToFrameList: in front.  If the list was empty the frame is its tail  *)
(* as well.                                                                *)
(***************************************************************************)
TailAfterAddForgotten(l, f) == tailFrame[l]
TailAfterAdd(l, f) == IF tailFrame[l] = None THEN f ELSE tailFrame[l]

AddHead(l, f) ==
    /\ Built /\ Loose(f)
    /\ Longer(l)
    /\ nextPFN' = [nextPFN EXCEPT ![f] = headFrame[l]]
    /\ prevPFN' = SetLink([prevPFN EXCEPT ![f] = None], headFrame[l], f)
    /\ headFrame' = [headFrame EXCEPT ![l] = f]
    /\ tailFrame' = [tailFrame EXCEPT ![l] = TailAfterAdd(l, f)]
    /\ FlagOn(l, f)
    /\ contents' = [contents EXCEPT ![l] = AddToFrameList(@, f)]
    /\ UNCHANGED <<linked, absentRemovals>>

(***************************************************************************)
(* addToFrameListTail: behind.  Only the active list is used this way.     *)
(***************************************************************************)
AddTail(f) ==
    LET last == tailFrame["active"] IN
    /\ Built /\ Loose(f)
    /\ nextPFN' = SetLink([nextPFN EXCEPT ![f] = None], last, f)
    /\ prevPFN' = [prevPFN EXCEPT ![f] = last]
    /\ headFrame' = [headFrame EXCEPT !["active"] = IF last = None THEN f ELSE @]
    /\ tailFrame' = [tailFrame EXCEPT !["active"] = f]
    /\ Longer("active")
    /\ FlagOn("active", f)
    /\ contents' = [contents EXCEPT !["active"] = AddToFrameListTail(@, f)]
    /\ UNCHANGED <<linked, absentRemovals>>

(***************************************************************************)
(* popFirstFrame, of a list that is not empty (otherwise nothing happens). *)
(***************************************************************************)
PopFirst(l) ==
    LET f == headFrame[l]  g == nextPFN[f] IN
    /\ Built /\ headFrame[l] # None
    /\ Shorter(l)
    /\ headFrame' = [headFrame EXCEPT ![l] = g]
    /\ tailFrame' = [tailFrame EXCEPT ![l] = IF g = None THEN None ELSE @]
    /\ nextPFN' = [nextPFN EXCEPT ![f] = None]
    /\ prevPFN' = [SetLink(prevPFN, g, None) EXCEPT ![f] = None]
    /\ FlagOff(l, f)
    /\ contents' = [contents EXCEPT ![l] = AfterPop(@, 1)]
    /\ UNCHANGED <<linked, absentRemovals>>

(***************************************************************************)
(* removeFromFrameList: unlink a frame by its own links.  Its callers go   *)
(* by the frame's flag, so it may be asked for a frame that is in no list: *)
(* then only the length changes.                                           *)
(***************************************************************************)
Unlink(l, f) ==
    LET before == prevPFN[f]
        after == nextPFN[f]
        head == IF before = None /\ headFrame[l] = f THEN after ELSE headFrame[l]
        tail == IF after = None /\ tailFrame[l] = f THEN before ELSE tailFrame[l]
    IN
    /\ nextPFN' = [SetLink(nextPFN, before, after) EXCEPT ![f] = None]
    /\ prevPFN' = [SetLink(prevPFN, after, before) EXCEPT ![f] = None]
    /\ headFrame' = [headFrame EXCEPT ![l] = head]
    /\ tailFrame' = [tailFrame EXCEPT ![l] = IF head = None THEN None ELSE tail]
    /\ Shorter(l)
    /\ FlagOff(l, f)
    /\ contents' = [contents EXCEPT ![l] = RemoveFromFrameList(@, f)]

RemoveListed(l, f) ==
    /\ Built /\ f \in ToSet(contents[l])
    /\ Unlink(l, f)
    /\ UNCHANGED <<linked, absentRemovals>>

RemoveAbsent(l, f) ==
    /\ Built /\ Loose(f)
    /\ absentRemovals[l] < MaxAbsentRemovals
    /\ absentRemovals' = [absentRemovals EXCEPT ![l] = @ + 1]
    /\ Unlink(l, f)
    /\ UNCHANGED linked

(***************************************************************************)
(* The end of a run: pfnArray is given back and the list heads are zeroed. *)
(* The next run starts with fresh, zeroed frames.                          *)
(***************************************************************************)
HeadsAfterReset ==
    /\ headFrame' = [l \in ListNames |-> None]
    /\ tailFrame' = [l \in ListNames |-> None]
    /\ length' = [l \in ListNames |-> 0]

ResetFrameListsForNewRun ==
    /\ Built
    /\ HeadsAfterReset
    /\ nextPFN' = NoFrame /\ prevPFN' = NoFrame
    /\ isOnModifiedList' = NoFlag /\ isOnStandbyList' = NoFlag
    /\ linked' = 0
    /\ contents' = [l \in ListNames |-> <<>>]
    /\ absentRemovals' = [l \in ListNames |-> 0]

Next ==
    \/ LinkFree \/ ResetFrameListsForNewRun
    \/ \E f \in Frames : AddTail(f)
    \/ \E l \in ListNames : PopFirst(l)
    \/ \E l \in PageoutLists, f \in Frames :
           AddHead(l, f) \/ RemoveListed(l, f) \/ RemoveAbsent(l, f)

Spec == Init /\ [][Next]_vars
=============================================================================
