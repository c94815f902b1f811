------------------------- MODULE TransferAddressProofs -------------------------
(***************************************************************************)
(* The properties of the transfer addresses hold for any number of         *)
(* threads, frames and addresses.                                          *)
(***************************************************************************)
EXTENDS TransferAddressProperties, TLAPS

(* The last address in use is the one a thread is about to map.            *)
NotYetMapped(u) == IF pc[u] = "mapVA" THEN 1 ELSE 0

(* No address beyond the index is mapped, nor is that one: those before    *)
(* it are mapped but where swapFromDisk could not.                         *)
IndexCounts ==
    \A u \in Users :
        /\ \A i \in TransferVAs :
               perThreadTransferVAs[u][i] # None => i < transferVAIndex[u] - NotYetMapped(u)
        /\ pc[u] \in {"mapVA", "fill"} => va[u] = transferVAIndex[u] - 1

(* A thread that works on a frame has taken it, and no other thread has.   *)
TakersApart ==
    /\ \A u \in Users : pc[u] # "run" => frame[u] \in Frames /\ place[frame[u]] = "taken"
    /\ \A u, v \in Users : pc[u] # "run" /\ pc[v] # "run" /\ frame[u] = frame[v] => u = v

(* What a thread fills is mapped where it fills it ...                     *)
FillsItsFrame == \A u \in Users : pc[u] = "fill" => Reached(u) = frame[u]

(* ... and holds what the thread put in until it has its page.             *)
KeepsItsFill == FillReachesFrame

(* The disk thread has mapped its batch and no address beyond it ...       *)
BatchMapped ==
    /\ \A i \in DOMAIN writeTransferVA :
           diskPC # "write" \/ i >= Len(swapFrames) => writeTransferVA[i] = None
    /\ diskPC = "write" =>
           \A i \in 1 .. Len(swapFrames) : writeTransferVA[i - 1] = swapFrames[i]

(* ... and until a page of it is written no thread can have its frame.     *)
BatchApart ==
    /\ diskPC = "wait" => swapFrames = <<>>
    /\ diskPC # "write" => written = 0
    /\ \A i, j \in 1 .. Len(swapFrames) : swapFrames[i] = swapFrames[j] => i = j
    /\ \A i \in 1 .. Len(swapFrames) :
           i > written => place[swapFrames[i]] \in {"writing", "active", "modified"}

IInv ==
    /\ TypeOK /\ IndexCounts /\ TakersApart
    /\ FillsItsFrame /\ KeepsItsFill
    /\ BatchMapped /\ BatchApart

-----------------------------------------------------------------------------
(* It holds at the start: nothing is taken and nothing mapped.             *)
LEMMA IInvInit == Init => IInv
<1> SUFFICES ASSUME Init  PROVE IInv  OBVIOUS
<1> USE TransferAssumption DEF Init
<1>1. TypeOK  BY DEF TypeOK, NoneMapped, TransferVAs
<1>2. IndexCounts  BY DEF IndexCounts, NotYetMapped, NoneMapped, TransferVAs
<1>3. TakersApart  BY DEF TakersApart
<1>4. FillsItsFrame /\ KeepsItsFill
  BY DEF FillsItsFrame, KeepsItsFill, FillReachesFrame
<1>5. BatchMapped /\ BatchApart  BY DEF BatchMapped, BatchApart
<1>. QED  BY <1>1, <1>2, <1>3, <1>4, <1>5 DEF IInv

(***************************************************************************)
(* A step that leaves the users' addresses and program counters alone      *)
(* keeps what is said of them.                                             *)
(***************************************************************************)
LEMMA SameWindows ==
    ASSUME IInv, UNCHANGED <<window, user, filledBy>>
    PROVE  IndexCounts' /\ FillsItsFrame' /\ KeepsItsFill'
BY DEF IInv, IndexCounts, FillsItsFrame, KeepsItsFill, FillReachesFrame, NotYetMapped,
       Reached, window, user

(***************************************************************************)
(* A step that leaves the disk thread alone keeps what is mapped ...       *)
(***************************************************************************)
LEMMA SameBatch ==
    ASSUME IInv, UNCHANGED disk
    PROVE  BatchMapped'
BY DEF IInv, BatchMapped, disk

(***************************************************************************)
(* ... and where the frames of its batch are, when it moves none ...       *)
(***************************************************************************)
LEMMA SamePlaces ==
    ASSUME IInv, UNCHANGED <<disk, place>>
    PROVE  BatchApart'
BY DEF IInv, BatchApart, disk

(***************************************************************************)
(* ... or moves one that is not in the batch, or not out of reach of it.   *)
(***************************************************************************)
LEMMA MoveKeepsBatch ==
    ASSUME IInv, NEW f \in Frames, NEW where, Move(f, where), UNCHANGED disk,
           \/ place[f] \notin {"writing", "active", "modified"}
           \/ where \in {"writing", "active", "modified"}
    PROVE  BatchApart'
<1>1. \A i \in 1 .. Len(swapFrames) : swapFrames[i] \in Frames  BY DEF IInv, TypeOK
<1>. QED  BY <1>1 DEF IInv, BatchApart, Move, TypeOK, disk

(***************************************************************************)
(* A frame that no thread has taken may be moved on.                       *)
(***************************************************************************)
LEMMA MoveKeepsTakers ==
    ASSUME IInv, NEW f \in Frames, NEW where, place[f] # "taken", Move(f, where),
           UNCHANGED user
    PROVE  TakersApart'
BY DEF IInv, TakersApart, Move, user, TypeOK

-----------------------------------------------------------------------------
(* A frame on a list is in no thread's hands when one takes it.            *)
LEMMA TakeFrameStep ==
    ASSUME IInv, NEW u \in Users, NEW f \in Frames, TakeFree(u, f) \/ TakeStandby(u, f)
    PROVE  IInv'
<1>1. PICK next \in {"reacquire", "acquireVA", "mapPage"} :
          pc' = [pc EXCEPT ![u] = next]
  BY DEF TakeFree, TakeStandby, GoTo
<1>2. /\ pc[u] = "run" /\ place[f] \in {"free", "standby"}
      /\ Move(f, "taken") /\ place' = [place EXCEPT ![f] = "taken"]
      /\ frame' = [frame EXCEPT ![u] = f]
      /\ UNCHANGED <<transferVAIndex, perThreadTransferVAs, va, disk, filledBy>>
  BY DEF TakeFree, TakeStandby, Move, window
<1> USE DEF IInv
<1>3. TypeOK'  BY <1>1, <1>2 DEF TypeOK, disk
<1>4. IndexCounts'  BY <1>1, <1>2 DEF IndexCounts, NotYetMapped, TypeOK
<1>5. TakersApart'  BY <1>1, <1>2 DEF TakersApart, TypeOK
<1>6. FillsItsFrame'  BY <1>1, <1>2 DEF FillsItsFrame, Reached, TypeOK
<1>7. KeepsItsFill'  BY <1>1, <1>2 DEF KeepsItsFill, FillReachesFrame, TypeOK
<1>8. BatchMapped' /\ BatchApart'  BY <1>2, SameBatch, MoveKeepsBatch
<1>. QED  BY <1>3, <1>4, <1>5, <1>6, <1>7, <1>8

(* A frame goes back to the standby list, or to its page, from the hands   *)
(* of the one thread that had taken it.                                    *)
LEMMA GiveStep ==
    ASSUME IInv, NEW u \in Users, PutBack(u) \/ MapPage(u)
    PROVE  IInv'
<1> USE DEF IInv
<1>1. PICK where \in {"standby", "active"} : Move(frame[u], where)
  BY DEF PutBack, MapPage
<1>2. /\ pc[u] \in {"reacquire", "filled", "mapPage"}
      /\ pc' = [pc EXCEPT ![u] = "run"]
      /\ frame' = [frame EXCEPT ![u] = None]
      /\ place' = [place EXCEPT ![frame[u]] = where]
      /\ UNCHANGED <<transferVAIndex, perThreadTransferVAs, va, disk, filledBy>>
  BY <1>1 DEF PutBack, MapPage, Move, GoTo, window
<1>3. frame[u] \in Frames /\ place[frame[u]] = "taken"  BY <1>2 DEF TakersApart
<1>4. TypeOK'  BY <1>2, <1>3 DEF TypeOK, disk
<1>5. IndexCounts'  BY <1>2 DEF IndexCounts, NotYetMapped, TypeOK
<1>6. TakersApart'  BY <1>2, <1>3 DEF TakersApart, TypeOK
<1>7. FillsItsFrame'  BY <1>2 DEF FillsItsFrame, Reached, TypeOK
<1>8. KeepsItsFill'  BY <1>2 DEF KeepsItsFill, FillReachesFrame, TypeOK
<1>9. BatchMapped' /\ BatchApart'  BY <1>1, <1>2, <1>3, SameBatch, MoveKeepsBatch
<1>. QED  BY <1>4, <1>5, <1>6, <1>7, <1>8, <1>9

(***************************************************************************)
(* acquireTransferVA: the address it returns is mapped to nothing, because *)
(* the index is past all that are, or all have been unmapped.              *)
(***************************************************************************)
LEMMA AcquireStep ==
    ASSUME IInv, NEW u \in Users, AcquireTransferVA(u)
    PROVE  IInv'
<1> USE TransferAssumption DEF IInv
<1> DEFINE flush == UsedUp(transferVAIndex[u])
           index == IF flush THEN 0 ELSE transferVAIndex[u]
<1>1. /\ transferVAIndex[u] \in 0 .. TransferVACount
      /\ index \in TransferVAs /\ index + 1 \in 0 .. TransferVACount
  BY DEF TypeOK, UsedUp, TransferVAs
<1>2. TypeOK'
  BY <1>1 DEF TypeOK, AcquireTransferVA, GoTo, Flushed, NoneMapped, disk
<1>3. IndexCounts'
  <2> SUFFICES ASSUME NEW v \in Users
               PROVE  /\ \A i \in TransferVAs : perThreadTransferVAs'[v][i] # None
                             => i < transferVAIndex'[v] - NotYetMapped(v)'
                      /\ pc'[v] \in {"mapVA", "fill"} => va'[v] = transferVAIndex'[v] - 1
    BY DEF IndexCounts
  <2>1. CASE v # u
    BY <2>1 DEF AcquireTransferVA, GoTo, IndexCounts, NotYetMapped, TypeOK
  <2>2. CASE v = u
    <3>1. /\ transferVAIndex'[u] = index + 1 /\ va'[u] = index /\ pc'[u] = "mapVA"
          /\ perThreadTransferVAs'[u] = IF flush THEN NoneMapped ELSE perThreadTransferVAs[u]
      BY DEF AcquireTransferVA, GoTo, TypeOK, Flushed
    <3>2. \A i \in TransferVAs : perThreadTransferVAs'[u][i] # None => i < index
      <4>1. CASE flush  BY <3>1, <4>1 DEF NoneMapped, TransferVAs
      <4>2. CASE ~flush
        <5>1. /\ perThreadTransferVAs'[u] = perThreadTransferVAs[u]
              /\ index = transferVAIndex[u] - NotYetMapped(u)
          BY <1>1, <3>1, <4>2 DEF NotYetMapped, AcquireTransferVA
        <5>. QED  BY <5>1 DEF IndexCounts
      <4>. QED  BY <4>1, <4>2
    <3>. QED  BY <1>1, <2>2, <3>1, <3>2 DEF NotYetMapped, TransferVAs
  <2>. QED  BY <2>1, <2>2
<1>4. TakersApart'  BY DEF TakersApart, AcquireTransferVA, GoTo, TypeOK
<1>5. FillsItsFrame'
  BY DEF FillsItsFrame, Reached, AcquireTransferVA, GoTo, TypeOK
<1>6. KeepsItsFill'
  BY DEF KeepsItsFill, FillReachesFrame, AcquireTransferVA, GoTo, TypeOK
<1>7. BatchMapped' /\ BatchApart'  BY SameBatch, SamePlaces DEF AcquireTransferVA
<1>. QED  BY <1>2, <1>3, <1>4, <1>5, <1>6, <1>7

(* MapUserPhysicalPages: the address leads to the thread's own frame ...   *)
LEMMA MapTransferStep ==
    ASSUME IInv, NEW u \in Users, MapTransferVA(u)
    PROVE  IInv'
<1> USE TransferAssumption DEF IInv, MapTransferVA, GoTo
<1>1. /\ va[u] \in TransferVAs /\ va[u] = transferVAIndex[u] - 1
      /\ frame[u] \in Frames /\ frame[u] # None
      /\ perThreadTransferVAs[u] \in [TransferVAs -> Frames \cup {None}]
      /\ transferVAIndex[u] \in Int
  BY DEF TypeOK, IndexCounts, TakersApart
<1>2. /\ pc' = [pc EXCEPT ![u] = "fill"] /\ pc[u] = "mapVA"
      /\ \A v \in Users : v # u => /\ perThreadTransferVAs'[v] = perThreadTransferVAs[v]
                                   /\ pc'[v] = pc[v]
      /\ perThreadTransferVAs'[u] = [perThreadTransferVAs[u] EXCEPT ![va[u]] = frame[u]]
      /\ pc'[u] = "fill"
  BY DEF TypeOK
<1>3. TypeOK'
  <2>1. perThreadTransferVAs' \in [Users -> [TransferVAs -> Frames \cup {None}]]
    BY <1>1 DEF TypeOK
  <2>. QED  BY <2>1 DEF TypeOK, disk
<1>4. IndexCounts'
  <2> SUFFICES ASSUME NEW v \in Users
               PROVE  /\ \A i \in TransferVAs : perThreadTransferVAs'[v][i] # None
                             => i < transferVAIndex'[v] - NotYetMapped(v)'
                      /\ pc'[v] \in {"mapVA", "fill"} => va'[v] = transferVAIndex'[v] - 1
    BY DEF IndexCounts
  <2>1. CASE v # u  BY <1>2, <2>1 DEF IndexCounts, NotYetMapped
  <2>2. CASE v = u
    <3>1. \A i \in TransferVAs : perThreadTransferVAs'[u][i] # None => i < transferVAIndex[u]
      <4>1. \A i \in TransferVAs :
                perThreadTransferVAs[u][i] # None => i < transferVAIndex[u] - 1
        BY <1>2 DEF IndexCounts, NotYetMapped
      <4>2. \A i \in TransferVAs : i \in Int  BY DEF TransferVAs
      <4>. QED  BY <1>1, <1>2, <4>1, <4>2
    <3>. QED  BY <1>1, <1>2, <2>2, <3>1 DEF NotYetMapped
  <2>. QED  BY <2>1, <2>2
<1>5. TakersApart'  BY DEF TakersApart, TypeOK
<1>6. FillsItsFrame'  BY <1>1, <1>2 DEF FillsItsFrame, Reached, TypeOK
<1>7. KeepsItsFill'  BY DEF KeepsItsFill, FillReachesFrame, TypeOK
<1>8. BatchMapped' /\ BatchApart'  BY SameBatch, SamePlaces
<1>. QED  BY <1>3, <1>4, <1>5, <1>6, <1>7, <1>8

(* ... or fails, and leaves the address unmapped below the index.          *)
LEMMA MapFailsStep ==
    ASSUME IInv, NEW u \in Users, MapTransferVAFails(u)
    PROVE  IInv'
<1> USE DEF IInv, MapTransferVAFails, GoTo, window
<1>1. TypeOK'  BY DEF TypeOK, disk
<1>2. IndexCounts'
  <2>1. /\ \A v \in Users : transferVAIndex[v] \in Int
        /\ \A i \in TransferVAs : i \in Int
    BY TransferAssumption DEF TypeOK, TransferVAs
  <2>. QED  BY <2>1 DEF IndexCounts, NotYetMapped, TypeOK
<1>3. TakersApart'  BY DEF TakersApart, TypeOK
<1>4. FillsItsFrame'  BY DEF FillsItsFrame, Reached, TypeOK
<1>5. KeepsItsFill'  BY DEF KeepsItsFill, FillReachesFrame, TypeOK
<1>6. BatchMapped' /\ BatchApart'  BY SameBatch, SamePlaces
<1>. QED  BY <1>1, <1>2, <1>3, <1>4, <1>5, <1>6

(* wipePage and swapFromDisk write through the address, into a frame that  *)
(* no other thread has.                                                    *)
LEMMA FillStep ==
    ASSUME IInv, NEW u \in Users, Fill(u)
    PROVE  IInv'
<1> USE DEF IInv, Fill, GoTo, window
<1>1. TypeOK'  BY DEF TypeOK, disk
<1>2. IndexCounts'  BY DEF IndexCounts, NotYetMapped, TypeOK
<1>3. TakersApart'  BY DEF TakersApart, TypeOK
<1>4. FillsItsFrame'  BY DEF FillsItsFrame, Reached, TypeOK
<1>5. KeepsItsFill'
  <2>1. Reached(u) = frame[u] /\ frame[u] \in Frames
    BY DEF FillsItsFrame, TakersApart
  <2>2. \A v \in Users : pc'[v] = "filled" =>
                             v = u \/ (pc[v] = "filled" /\ frame[v] # frame[u])
    BY DEF TakersApart, TypeOK
  <2>. QED  BY <2>1, <2>2 DEF KeepsItsFill, FillReachesFrame, TypeOK
<1>6. BatchMapped' /\ BatchApart'  BY SameBatch, SamePlaces
<1>. QED  BY <1>1, <1>2, <1>3, <1>4, <1>5, <1>6

(* Trim thread and rescue move only frames that are on lists.              *)
LEMMA FrameStep ==
    ASSUME IInv, NEW f \in Frames, Evict(f) \/ Rescue(f)
    PROVE  IInv'
<1>1. /\ UNCHANGED <<window, user, disk, filledBy>> /\ place[f] # "taken"
      /\ \E where \in {"modified", "active"} : Move(f, where)
  BY DEF Evict, Rescue
<1>2. TypeOK'  BY <1>1 DEF IInv, TypeOK, Move, window, user, disk
<1>3. BatchApart'  BY <1>1, MoveKeepsBatch
<1>. QED  BY <1>1, <1>2, <1>3, SameWindows, SameBatch, MoveKeepsTakers DEF IInv

-----------------------------------------------------------------------------
(* A batch is a sequence of different frames of the modified list.         *)
LEMMA BatchesAreSequences ==
    ASSUME NEW batch \in Batches
    PROVE  /\ batch \in Seq(Frames) /\ Len(batch) \in 1 .. MaxWritePages
           /\ \A i \in 1 .. Len(batch) : place[batch[i]] = "modified"
           /\ \A i, j \in 1 .. Len(batch) : batch[i] = batch[j] => i = j
           /\ \A f : f \in Range(batch) <=> \E i \in 1 .. Len(batch) : f = batch[i]
<1>1. PICK n \in 1 .. MaxWritePages : batch \in Injection(1 .. n, Modified)
  BY DEF Batches
<1>2. /\ batch \in [1 .. n -> Modified] /\ n \in Nat
      /\ \A i, j \in 1 .. n : batch[i] = batch[j] => i = j
  BY <1>1, TransferAssumption DEF Injection, IsInjective
<1>3. batch \in Seq(Modified) /\ Len(batch) = n  BY <1>2
<1>4. batch \in Seq(Frames)  BY <1>2 DEF Modified
<1>5. \A i \in 1 .. n : place[batch[i]] = "modified"  BY <1>2 DEF Modified
<1>6. \A f : f \in Range(batch) <=> \E i \in 1 .. n : f = batch[i]
  BY <1>2 DEF Range
<1>. QED  BY <1>2, <1>3, <1>4, <1>5, <1>6

(* The disk thread takes its batch while nothing of it is mapped ...       *)
LEMMA CollectStep ==
    ASSUME IInv, CollectModified
    PROVE  IInv'
<1> USE DEF IInv
<1>1. PICK batch \in Batches :
          /\ swapFrames' = batch
          /\ place' = [f \in Frames |-> IF f \in Range(batch) THEN "writing" ELSE place[f]]
  BY DEF CollectModified
<1>2. /\ batch \in Seq(Frames) /\ Len(batch) \in 1 .. MaxWritePages
      /\ \A i \in 1 .. Len(batch) : place[batch[i]] = "modified"
      /\ \A i, j \in 1 .. Len(batch) : batch[i] = batch[j] => i = j
      /\ \A f : f \in Range(batch) <=> \E i \in 1 .. Len(batch) : f = batch[i]
  BY BatchesAreSequences
<1>3. /\ UNCHANGED <<window, user, writeTransferVA, written, filledBy>>
      /\ diskPC = "wait" /\ diskPC' = "map" /\ written = 0
  BY DEF CollectModified, BatchApart
<1>4. \A f \in Frames : place[f] = "taken" => place'[f] = "taken"
  BY <1>1, <1>2
<1>5. TypeOK'
  <2>1. place' \in [Frames -> {"free", "standby", "taken", "active", "modified", "writing"}]
    BY <1>1 DEF TypeOK
  <2>2. written' \in 0 .. Len(swapFrames')  BY <1>1, <1>2, <1>3
  <2>3. Len(swapFrames') <= MaxWritePages  BY <1>1, <1>2, TransferAssumption
  <2>. QED  BY <1>1, <1>2, <1>3, <2>1, <2>2, <2>3 DEF TypeOK, window, user
<1>6. TakersApart'  BY <1>3, <1>4 DEF TakersApart, user
<1>7. BatchMapped'  BY <1>3 DEF BatchMapped
<1>8. BatchApart'
  <2>1. \A i \in 1 .. Len(batch) : place'[batch[i]] = "writing"
    <3> TAKE i \in 1 .. Len(batch)
    <3>1. batch[i] \in Frames /\ batch[i] \in Range(batch)  BY <1>2
    <3>. QED  BY <1>1, <3>1
  <2>. QED  BY <1>1, <1>2, <1>3, <2>1 DEF BatchApart
<1>. QED  BY <1>3, <1>5, <1>6, <1>7, <1>8, SameWindows

(* ... maps it at its first addresses ...                                  *)
LEMMA MapBatchStep ==
    ASSUME IInv, MapBatch
    PROVE  IInv'
<1> USE DEF IInv, MapBatch
<1>1. /\ DOMAIN writeTransferVA = 0 .. MaxWritePages - 1 /\ Len(swapFrames) \in Nat
      /\ \A i \in 1 .. Len(swapFrames) : swapFrames[i] \in Frames
      /\ Len(swapFrames) <= MaxWritePages /\ MaxWritePages \in Nat
  BY TransferAssumption DEF TypeOK
<1>2. TypeOK'
  <2>1. \A i \in 0 .. MaxWritePages - 1 : i < Len(swapFrames) => swapFrames[i + 1] \in Frames
    BY <1>1
  <2>2. writeTransferVA' \in [0 .. MaxWritePages - 1 -> Frames \cup {None}]
    BY <1>1, <2>1 DEF TypeOK
  <2>. QED  BY <2>2 DEF TypeOK, window, user
<1>3. BatchMapped'
  <2>1. \A i \in 0 .. MaxWritePages - 1 : i >= Len(swapFrames) => writeTransferVA'[i] = None
    BY <1>1 DEF BatchMapped
  <2>2. \A i \in 1 .. Len(swapFrames) :
            /\ i - 1 \in 0 .. MaxWritePages - 1 /\ i - 1 < Len(swapFrames)
            /\ (i - 1) + 1 = i
    BY <1>1
  <2>3. \A i \in 1 .. Len(swapFrames) : writeTransferVA'[i - 1] = swapFrames[i]
    BY <1>1, <2>2
  <2>. QED  BY <1>1, <2>1, <2>3 DEF BatchMapped
<1>4. TakersApart'  BY DEF TakersApart, user
<1>5. BatchApart'  BY DEF BatchApart
<1>. QED  BY <1>2, <1>3, <1>4, <1>5, SameWindows

(* ... writes its pages in order ...                                       *)
LEMMA WritePageStep ==
    ASSUME IInv, WritePage
    PROVE  IInv'
<1> USE DEF IInv
<1> DEFINE f == swapFrames[written + 1]
<1>1. /\ Len(swapFrames) \in Nat /\ written \in Nat /\ written + 1 \in 1 .. Len(swapFrames)
      /\ f \in Frames /\ diskPC = "write"
      /\ \A i \in 1 .. Len(swapFrames) : swapFrames[i] \in Frames
  BY DEF TypeOK, WritePage
<1>2. /\ written' = written + 1
      /\ IF place[f] = "writing" THEN Move(f, "standby") ELSE UNCHANGED place
      /\ UNCHANGED <<window, user, writeTransferVA, diskPC, swapFrames, filledBy>>
  BY DEF WritePage
<1>3. place' = place \/ (place[f] = "writing" /\ place' = [place EXCEPT ![f] = "standby"])
  BY <1>2 DEF Move
<1>4. TypeOK'
  <2>1. place' \in [Frames -> {"free", "standby", "taken", "active", "modified", "writing"}]
    BY <1>1, <1>3 DEF TypeOK
  <2>2. written' \in 0 .. Len(swapFrames)  BY <1>1, <1>2
  <2>. QED  BY <1>2, <2>1, <2>2 DEF TypeOK, window, user
<1>5. TakersApart'  BY <1>1, <1>2, <1>3 DEF TakersApart, user, TypeOK
<1>6. BatchMapped'  BY <1>2 DEF BatchMapped
<1>7. BatchApart'
  <2>1. \A i \in 1 .. Len(swapFrames) : i > written + 1 =>
            /\ swapFrames[i] # f /\ i > written
            /\ place'[swapFrames[i]] = place[swapFrames[i]]
    BY <1>1, <1>3 DEF BatchApart, TypeOK
  <2>. QED  BY <1>1, <1>2, <2>1 DEF BatchApart
<1>. QED  BY <1>2, <1>4, <1>5, <1>6, <1>7, SameWindows

(* ... and unmaps as many addresses as it mapped.                          *)
LEMMA UnmapBatchStep ==
    ASSUME IInv, UnmapBatch
    PROVE  IInv'
<1> USE DEF IInv, UnmapBatch, NumToUnmap
<1>1. /\ DOMAIN writeTransferVA = 0 .. MaxWritePages - 1 /\ Len(swapFrames) \in Nat
  BY DEF TypeOK
<1>2. TypeOK'
  <2>1. writeTransferVA' \in [0 .. MaxWritePages - 1 -> Frames \cup {None}]
    BY <1>1 DEF TypeOK
  <2>2. swapFrames' \in Seq(Frames) /\ Len(swapFrames') = 0 /\ written' = 0  OBVIOUS
  <2>. QED  BY <2>1, <2>2, TransferAssumption DEF TypeOK, window, user
<1>3. BatchMapped'  BY <1>1 DEF BatchMapped
<1>4. TakersApart'  BY DEF TakersApart, user
<1>5. BatchApart'  BY DEF BatchApart
<1>. QED  BY <1>2, <1>3, <1>4, <1>5, SameWindows

(* Every step keeps the invariant.                                         *)
LEMMA IInvNext == IInv /\ [Next]_vars => IInv'
<1> SUFFICES ASSUME IInv, [Next]_vars  PROVE IInv'  OBVIOUS
<1>1. ASSUME NEW u \in Users, NEW f \in Frames, TakeFree(u, f) \/ TakeStandby(u, f)  PROVE IInv'
  BY <1>1, TakeFrameStep
<1>2. ASSUME NEW u \in Users, PutBack(u) \/ MapPage(u)  PROVE IInv'  BY <1>2, GiveStep
<1>3. ASSUME NEW u \in Users, AcquireTransferVA(u)  PROVE IInv'  BY <1>3, AcquireStep
<1>4. ASSUME NEW u \in Users, MapTransferVA(u)  PROVE IInv'  BY <1>4, MapTransferStep
<1>5. ASSUME NEW u \in Users, MapTransferVAFails(u)  PROVE IInv'  BY <1>5, MapFailsStep
<1>6. ASSUME NEW u \in Users, Fill(u)  PROVE IInv'  BY <1>6, FillStep
<1>7. ASSUME NEW f \in Frames, Evict(f) \/ Rescue(f)  PROVE IInv'  BY <1>7, FrameStep
<1>8. CASE CollectModified  BY <1>8, CollectStep
<1>9. CASE MapBatch  BY <1>9, MapBatchStep
<1>10. CASE WritePage  BY <1>10, WritePageStep
<1>11. CASE UnmapBatch  BY <1>11, UnmapBatchStep
<1>12. CASE UNCHANGED vars
  <2>1. TypeOK' /\ TakersApart'
    BY <1>12 DEF vars, window, user, disk, IInv, TypeOK, TakersApart
  <2>. QED  BY <1>12, <2>1, SameWindows, SameBatch, SamePlaces DEF vars, IInv
<1>. QED
  BY <1>1, <1>2, <1>3, <1>4, <1>5, <1>6, <1>7, <1>8, <1>9, <1>10, <1>11, <1>12 DEF Next

(* The invariant holds in every reachable state.                           *)
LEMMA IInvAlways == Spec => []IInv
BY IInvInit, IInvNext, PTL DEF Spec

-----------------------------------------------------------------------------
(***************************************************************************)
(* For any number of addresses, the index of a thread never passes the end *)
(* of its addresses, and whatever is mapped is a frame.                    *)
(***************************************************************************)
THEOREM WindowsTyped == Spec => []TypeOK
<1>1. IInv => TypeOK  BY DEF IInv
<1>. QED  BY <1>1, IInvAlways, PTL

(***************************************************************************)
(* No mapping that is still in use is ever taken away by acquireTransferVA *)
(* or swapToDisk, whichever mappings of swapFromDisk fail.                 *)
(***************************************************************************)
THEOREM MappingsAreFresh == Spec => []AddressesAreFresh
<1>1. ASSUME IInv  PROVE AddressesAreFresh
  <2>1. ASSUME NEW u \in Users, pc[u] = "mapVA"
        PROVE  perThreadTransferVAs[u][va[u]] = None
    <3>1. /\ va[u] \in TransferVAs /\ va[u] \in Int
          /\ va[u] = transferVAIndex[u] - NotYetMapped(u)
          /\ perThreadTransferVAs[u][va[u]] # None
                 => va[u] < transferVAIndex[u] - NotYetMapped(u)
      BY <1>1, <2>1 DEF IInv, TypeOK, IndexCounts, NotYetMapped, TransferVAs
    <3>. QED  BY <3>1
  <2>. QED  BY <1>1, <2>1 DEF IInv, BatchMapped, AddressesAreFresh
<1>. QED  BY <1>1, IInvAlways, PTL

(***************************************************************************)
(* wipePage and swapFromDisk fill the frame their thread has taken,        *)
(* whatever stale mappings there are, and nobody else does.                *)
(***************************************************************************)
THEOREM FillsReachTheirFrames == Spec => []FillReachesFrame
<1>1. IInv => FillReachesFrame  BY DEF IInv, KeepsItsFill
<1>. QED  BY <1>1, IInvAlways, PTL

(***************************************************************************)
(* What swapToDisk copies to a slot is the page that the slot is for,      *)
(* however many threads rescue its frames or take frames meanwhile.        *)
(***************************************************************************)
THEOREM BatchIsCopied == Spec => []BatchReachesItsFrames
<1>1. ASSUME IInv, NEW i \in written + 1 .. Len(swapFrames)
      PROVE  /\ diskPC = "write" => CopyVA(i) = swapFrames[i]
             /\ place[swapFrames[i]] \in {"writing", "active", "modified"}
             /\ \A u \in Users : pc[u] = "fill" => Reached(u) # swapFrames[i]
  <2>1. i \in 1 .. Len(swapFrames) /\ i > written  BY <1>1 DEF IInv, TypeOK
  <2>2. diskPC = "write" => CopyVA(i) = swapFrames[i]
    BY <1>1, <2>1 DEF IInv, BatchMapped, CopyVA
  <2>3. place[swapFrames[i]] \in {"writing", "active", "modified"}
    BY <1>1, <2>1 DEF IInv, BatchApart
  <2>. QED  BY <1>1, <2>2, <2>3 DEF IInv, FillsItsFrame, TakersApart
<1>2. IInv => BatchReachesItsFrames  BY <1>1 DEF BatchReachesItsFrames
<1>. QED  BY <1>2, IInvAlways, PTL
=============================================================================
