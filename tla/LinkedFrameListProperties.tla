---------------------- MODULE LinkedFrameListProperties ----------------------
(***************************************************************************)
(* What the linked lists of utilities.c must guarantee.                    *)
(***************************************************************************)
EXTENDS LinkedFrameLists

TypeOK ==
    /\ nextPFN \in [Frames -> Frames \cup {None}]
    /\ prevPFN \in [Frames -> Frames \cup {None}]
    /\ isOnModifiedList \in [Frames -> BOOLEAN]
    /\ isOnStandbyList \in [Frames -> BOOLEAN]
    /\ headFrame \in [ListNames -> Frames \cup {None}]
    /\ tailFrame \in [ListNames -> Frames \cup {None}]
    /\ length \in [ListNames -> 0 .. LengthModulus - 1]
    /\ linked \in 0 .. Len(PhysicalPageNumbers)
    /\ contents \in [ListNames -> Seq(Frames)]
    /\ absentRemovals \in [ListNames -> 0 .. MaxAbsentRemovals]

(* The links of the i-th frame of a list.  The free list has no way back.  *)
NextIn(s, i) == IF i = Len(s) THEN None ELSE s[i + 1]
PrevIn(l, s, i) == IF i = 1 \/ l = "free" THEN None ELSE s[i - 1]

HeadIn(s) == IF s = <<>> THEN None ELSE s[1]
TailIn(l, s) == IF s = <<>> \/ l = "free" THEN None ELSE s[Len(s)]

(* The sequence s is what these links and ends say.                        *)
LinkedAs(l, s, next, prev, head, tail) ==
    /\ head = HeadIn(s) /\ tail = TailIn(l, s)
    /\ \A i \in 1 .. Len(s) : next[s[i]] = NextIn(s, i) /\ prev[s[i]] = PrevIn(l, s, i)

Linked(l) == LinkedAs(l, contents[l], nextPFN, prevPFN, headFrame[l], tailFrame[l])

Unlinked(f) == nextPFN[f] = None /\ prevPFN[f] = None

ListsLinked == \A l \in ListNames : Linked(l)

ListsApart ==
    /\ \A l \in ListNames : IsInjective(contents[l])
    /\ \A l, m \in ListNames : l # m => ToSet(contents[l]) \cap ToSet(contents[m]) = {}

(***************************************************************************)
(* The links of a list, followed either way from its head or its tail, are *)
(* the frames that were put into it in their order; no frame is in two     *)
(* lists or twice in one; a frame in no list has no links, which is what   *)
(* makes removing it from a list harmless.  Of the code: every list        *)
(* function on every kind of list, the free list without a tail included.  *)
(***************************************************************************)
Represents == /\ ListsLinked /\ ListsApart
              /\ \A f \in Frames : Loose(f) => Unlinked(f)

(***************************************************************************)
(* The flags of a frame say whether it is on the modified or the standby   *)
(* list, through all list calls, for the rescue of resolvePageFault goes   *)
(* by nothing else.                                                        *)
(***************************************************************************)
FlagsSayWhere ==
    \A f \in Frames :
        /\ isOnModifiedList[f] <=> f \in ToSet(contents["modified"])
        /\ isOnStandbyList[f] <=> f \in ToSet(contents["standby"])

(***************************************************************************)
(* length is the number of frames linked, less the removals of frames that *)
(* were not, in the arithmetic of ULONG64.                                 *)
(***************************************************************************)
LengthCounts ==
    \A l \in ListNames :
        length[l] = (Len(contents[l]) - absentRemovals[l]) % LengthModulus

-----------------------------------------------------------------------------
(* Following the links, as validateFrameList and listContains do: the      *)
(* frame reached after i - 1 links, None past the end.  A walk of more     *)
(* steps than there are frames has met one of them twice.                  *)
Walk(l) ==
    LET at[i \in 1 .. Cardinality(Frames) + 1] ==
            IF i = 1 THEN headFrame[l]
            ELSE IF at[i - 1] = None THEN None ELSE nextPFN[at[i - 1]]
    IN at

Visits(l) == {i \in DOMAIN Walk(l) : Walk(l)[i] # None}
Chain(l) == [i \in 1 .. Cardinality(Visits(l)) |-> Walk(l)[i]]

(***************************************************************************)
(* validateFrameList: no frame twice, and as many as length says.  It      *)
(* passes on every list from which no absent frame was removed, whatever   *)
(* calls were made before, in this run and in those before it.             *)
(***************************************************************************)
ValidateFrameList(l) == IsInjective(Chain(l)) /\ Cardinality(Visits(l)) = length[l]

ValidationPasses == \A l \in ListNames : absentRemovals[l] = 0 => ValidateFrameList(l)

chains == [l \in ListNames |-> Chain(l)]

FQ == INSTANCE FrameQueues WITH
          lists   <- chains,
          trusted <- FALSE,
          astray  <- \E l \in ListNames : absentRemovals[l] # 0

(***************************************************************************)
(* Read by their links alone, the lists do what FrameQueues says, the      *)
(* unlinking of a frame that is in no list included: no other frame is     *)
(* lost or moved by it.  What FrameQueues says of them is all the program  *)
(* asks.                                                                   *)
(***************************************************************************)
ImplementsFrameQueues == FQ!Spec
=============================================================================
