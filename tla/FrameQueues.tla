---------------------------- MODULE FrameQueues ----------------------------
(***************************************************************************)
(* How the program uses its four frame lists, seen as queues of frames:    *)
(* what the functions of utilities.c are asked to do, and never anything   *)
(* else.  VirtualMemory makes only such steps (UsesFrameQueues), and the   *)
(* links of LinkedFrameLists carry them out (ImplementsFrameQueues).       *)
(*                                                                         *)
(* The list functions go by what their callers know of a frame.  While the *)
(* frames' flags can be trusted, only a frame that is in a list is         *)
(* unlinked from it; once they cannot, an absent one may be, which leaves  *)
(* the queues as they are but is remembered in astray.                     *)
(***************************************************************************)
EXTENDS FrameLists

CONSTANT Frames

VARIABLES
    lists,     (* the frames of each list, head first                      *)
    trusted,   (* the flags of every frame say in which list it is         *)
    astray     (* an absent frame was unlinked in this run                 *)

vars == <<lists, trusted, astray>>

ListNames == {"free", "active", "modified", "standby"}

(* The lists a frame may be added to at the head, and unlinked from.       *)
PageoutLists == {"modified", "standby"}

Loose(f) == \A l \in ListNames : f \notin ToSet(lists[l])

Init ==
    /\ lists["free"] \in Seq(Frames) /\ IsInjective(lists["free"])
    /\ lists = [l \in ListNames |-> IF l = "free" THEN lists["free"] ELSE <<>>]
    /\ trusted \in BOOLEAN
    /\ astray = FALSE

(* The free list is built before anything else happens.                    *)
Build(f) ==
    /\ Loose(f)
    /\ \A l \in ListNames \ {"free"} : lists[l] = <<>>
    /\ lists' = [lists EXCEPT !["free"] = AddToFrameList(@, f)]

(* Some frames are taken off the head of a list, or put in front of one,   *)
(* or behind the active list, or taken out of the middle.                  *)
Pop(l, n) ==
    /\ n <= Len(lists[l])
    /\ lists' = [lists EXCEPT ![l] = AfterPop(@, n)]

AddHead(l, f) ==
    /\ Loose(f)
    /\ lists' = [lists EXCEPT ![l] = AddToFrameList(@, f)]

AddTail(f) ==
    /\ Loose(f)
    /\ lists' = [lists EXCEPT !["active"] = AddToFrameListTail(@, f)]

RemoveListed(l, f) ==
    /\ f \in ToSet(lists[l])
    /\ lists' = [lists EXCEPT ![l] = RemoveFromFrameList(@, f)]

ListCall ==
    \/ \E f \in Frames : Build(f) \/ AddTail(f)
    \/ \E l \in ListNames : \E n \in 1 .. Len(lists[l]) : Pop(l, n)
    \/ \E l \in PageoutLists, f \in Frames : AddHead(l, f) \/ RemoveListed(l, f)

(* A flag becomes wrong, and later a frame is unlinked on its account.     *)
Distrust ==
    /\ trusted /\ ~trusted'
    /\ UNCHANGED <<lists, astray>>

UnlinkAbsent(l, f) ==
    /\ ~trusted
    /\ f \notin ToSet(lists[l])
    /\ astray'
    /\ UNCHANGED <<lists, trusted>>

(* The lists of a run are gone when the next one starts.                   *)
Discard ==
    /\ lists' = [l \in ListNames |-> <<>>]
    /\ ~astray'
    /\ UNCHANGED trusted

Next ==
    \/ ListCall /\ UNCHANGED <<trusted, astray>>
    \/ Distrust
    \/ \E l \in PageoutLists, f \in Frames : UnlinkAbsent(l, f)
    \/ Discard

Spec == Init /\ [][Next]_vars
=============================================================================
