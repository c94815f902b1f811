--------------------------- MODULE FrameListProofs ---------------------------
(***************************************************************************)
(* What the list operations keep: the lists stay lists of the same frames, *)
(* and none is linked twice.                                               *)
(***************************************************************************)
EXTENDS FrameLists, SequenceTheorems, TLAPS

(***************************************************************************)
(* The arithmetic of cutting a list of m frames after the first n.         *)
(***************************************************************************)
LEMMA CutProperties ==
    ASSUME NEW m \in Nat, NEW n \in 0 .. m
    PROVE  /\ n + 1 \in Int
           /\ m - (n + 1) + 1 = m - n
           /\ (IF n + 1 <= m THEN m - (n + 1) + 1 ELSE 0) = m - n
           /\ \A i \in 1 .. m - n : n + 1 + i - 1 = n + i
<1>1. n \in Int /\ m - (n + 1) + 1 = m - n  OBVIOUS
<1>2. (IF n + 1 <= m THEN m - (n + 1) + 1 ELSE 0) = m - n  OBVIOUS
<1>3. \A i \in 1 .. m - n : n + 1 + i - 1 = n + i  OBVIOUS
<1>. QED  BY <1>1, <1>2, <1>3

(***************************************************************************)
(* The frames of a list, one by one, after addToFrameList: the new one     *)
(* first and each of the others one further back.                          *)
(***************************************************************************)
LEMMA AddToFrameListElements ==
    ASSUME NEW S, NEW list \in Seq(S), NEW item \in S
    PROVE  LET new == AddToFrameList(list, item) IN
           /\ new \in Seq(S) /\ Len(new) = Len(list) + 1
           /\ \A i \in 1 .. Len(new) : new[i] = IF i = 1 THEN item ELSE list[i - 1]
<1>1. <<item>> \in Seq(S) /\ Len(<<item>>) = 1 /\ <<item>>[1] = item  OBVIOUS
<1>. QED  BY <1>1, ConcatProperties, LenProperties DEF AddToFrameList

(***************************************************************************)
(* addToFrameList links exactly one more frame into the list, and keeps    *)
(* the list free of duplicates if the frame was not in it.                 *)
(***************************************************************************)
LEMMA AddToFrameListProperties ==
    ASSUME NEW S, NEW list \in Seq(S), NEW item \in S
    PROVE  /\ AddToFrameList(list, item) \in Seq(S)
           /\ ToSet(AddToFrameList(list, item)) = ToSet(list) \cup {item}
           /\ IsInjective(list) /\ item \notin ToSet(list)
                  => IsInjective(AddToFrameList(list, item))
<1> DEFINE new == AddToFrameList(list, item)
<1>1. /\ new \in Seq(S) /\ Len(new) = Len(list) + 1
      /\ \A i \in 1 .. Len(new) : new[i] = IF i = 1 THEN item ELSE list[i - 1]
  BY AddToFrameListElements
<1>2. DOMAIN new = 1 .. Len(list) + 1 /\ DOMAIN list = 1 .. Len(list) /\ Len(list) \in Nat
  BY <1>1, LenProperties
<1>3. ToSet(new) = ToSet(list) \cup {item}
  <2>1. ASSUME NEW x \in ToSet(new)  PROVE x \in ToSet(list) \cup {item}
    BY <1>1, <1>2, <2>1 DEF ToSet
  <2>2. ASSUME NEW x \in ToSet(list)  PROVE x \in ToSet(new)
    <3>1. PICK i \in 1 .. Len(list) : x = list[i]  BY <1>2, <2>2 DEF ToSet
    <3>2. i + 1 \in DOMAIN new /\ new[i + 1] = x  BY <1>1, <1>2, <3>1
    <3>. QED  BY <3>2 DEF ToSet
  <2>3. item \in ToSet(new)
    <3>1. 1 \in DOMAIN new /\ new[1] = item  BY <1>1, <1>2
    <3>. QED  BY <3>1 DEF ToSet
  <2>. QED  BY <2>1, <2>2, <2>3
<1>4. ASSUME IsInjective(list), item \notin ToSet(list)  PROVE IsInjective(new)
  <2>1. \A i \in 1 .. Len(list) : list[i] # item  BY <1>2, <1>4 DEF ToSet
  <2>2. ASSUME NEW i \in DOMAIN new, NEW j \in DOMAIN new, new[i] = new[j]  PROVE i = j
    <3>1. CASE i = 1 /\ j = 1  BY <3>1
    <3>2. CASE i # 1 /\ j # 1
      <4>1. i - 1 \in DOMAIN list /\ j - 1 \in DOMAIN list /\ list[i - 1] = list[j - 1]
        BY <1>1, <1>2, <2>2, <3>2
      <4>2. i - 1 = j - 1  BY <1>4, <4>1 DEF IsInjective
      <4>. QED  BY <1>2, <4>2
    <3>3. CASE (i = 1) # (j = 1)
      <4>1. PICK m \in 1 .. Len(list) : list[m] = item  BY <1>1, <1>2, <2>2, <3>3
      <4>. QED  BY <2>1, <4>1
    <3>. QED  BY <3>1, <3>2, <3>3
  <2>. QED  BY <2>2 DEF IsInjective
<1>. QED  BY <1>1, <1>3, <1>4

(***************************************************************************)
(* addToFrameListTail does the same at the other end.                      *)
(***************************************************************************)
LEMMA AddToFrameListTailProperties ==
    ASSUME NEW S, NEW list \in Seq(S), NEW item \in S
    PROVE  /\ AddToFrameListTail(list, item) \in Seq(S)
           /\ ToSet(AddToFrameListTail(list, item)) = ToSet(list) \cup {item}
           /\ IsInjective(list) /\ item \notin ToSet(list)
                  => IsInjective(AddToFrameListTail(list, item))
<1> DEFINE new == AddToFrameListTail(list, item)
<1>1. /\ new \in Seq(S) /\ Len(new) = Len(list) + 1
      /\ \A i \in 1 .. Len(list) : new[i] = list[i]
      /\ new[Len(list) + 1] = item
  BY AppendProperties DEF AddToFrameListTail
<1>2. DOMAIN new = 1 .. Len(list) + 1 /\ DOMAIN list = 1 .. Len(list) /\ Len(list) \in Nat
  BY <1>1, LenProperties
<1>3. ToSet(new) = ToSet(list) \cup {item}
  <2>1. ASSUME NEW x \in ToSet(new)  PROVE x \in ToSet(list) \cup {item}
    BY <1>1, <1>2, <2>1 DEF ToSet
  <2>2. ASSUME NEW x \in ToSet(list)  PROVE x \in ToSet(new)
    <3>1. PICK i \in 1 .. Len(list) : x = list[i]  BY <1>2, <2>2 DEF ToSet
    <3>2. i \in DOMAIN new /\ new[i] = x  BY <1>1, <1>2, <3>1
    <3>. QED  BY <3>2 DEF ToSet
  <2>3. item \in ToSet(new)
    <3>1. Len(list) + 1 \in DOMAIN new  BY <1>2
    <3>. QED  BY <1>1, <3>1 DEF ToSet
  <2>. QED  BY <2>1, <2>2, <2>3
<1>4. ASSUME IsInjective(list), item \notin ToSet(list)  PROVE IsInjective(new)
  <2>1. \A i \in 1 .. Len(list) : list[i] # item  BY <1>2, <1>4 DEF ToSet
  <2>. QED  BY <1>1, <1>2, <1>4, <2>1 DEF IsInjective
<1>. QED  BY <1>1, <1>3, <1>4

(***************************************************************************)
(* What n calls of popFirstFrame leave behind, frame by frame.             *)
(***************************************************************************)
LEMMA AfterPopElements ==
    ASSUME NEW S, NEW list \in Seq(S), NEW n \in 0 .. Len(list)
    PROVE  LET back == AfterPop(list, n) IN
           /\ back \in Seq(S) /\ Len(back) = Len(list) - n
           /\ \A i \in 1 .. Len(list) - n : back[i] = list[n + i]
<1> DEFINE back == AfterPop(list, n)
<1>1. Len(list) \in Nat /\ \A i \in 1 .. Len(list) : list[i] \in S
  BY LenProperties, ElementOfSeq
<1>2. \A i \in n + 1 .. Len(list) : list[i] \in S  BY <1>1
<1>3. /\ n + 1 \in Int /\ Len(list) - (n + 1) + 1 = Len(list) - n
      /\ (IF n + 1 <= Len(list) THEN Len(list) - (n + 1) + 1 ELSE 0) = Len(list) - n
      /\ \A i \in 1 .. Len(list) - n : n + 1 + i - 1 = n + i
  BY <1>1, CutProperties
<1>4. /\ back \in Seq(S)
      /\ Len(back) = IF n + 1 <= Len(list) THEN Len(list) - (n + 1) + 1 ELSE 0
      /\ \A i \in 1 .. Len(list) - (n + 1) + 1 : back[i] = list[n + 1 + i - 1]
  BY <1>1, <1>2, SubSeqProperties DEF AfterPop
<1>5. \A i \in 1 .. Len(list) - n : back[i] = list[n + i]
  <2>1. ASSUME NEW i \in 1 .. Len(list) - n  PROVE back[i] = list[n + i]
    <3>1. i \in 1 .. Len(list) - (n + 1) + 1  BY <1>3
    <3>2. n + 1 + i - 1 = n + i  BY <1>3
    <3>3. back[i] = list[n + 1 + i - 1]  BY <1>4, <3>1
    <3>. QED  BY <3>2, <3>3
  <2>. QED  BY <2>1
<1>6. Len(back) = Len(list) - n  BY <1>3, <1>4
<1>. QED  BY <1>4, <1>5, <1>6

(***************************************************************************)
(* n calls of popFirstFrame split a list in two: what is returned and what *)
(* stays have the frames of the list between them and, in a list without   *)
(* duplicates, none in common.                                             *)
(***************************************************************************)
LEMMA PopProperties ==
    ASSUME NEW S, NEW list \in Seq(S), NEW n \in 0 .. Len(list)
    PROVE  /\ Popped(list, n) \in Seq(S) /\ Len(Popped(list, n)) = n
           /\ AfterPop(list, n) \in Seq(S) /\ Len(AfterPop(list, n)) = Len(list) - n
           /\ \A i \in 1 .. n : Popped(list, n)[i] = list[i]
           /\ ToSet(list) = ToSet(Popped(list, n)) \cup ToSet(AfterPop(list, n))
           /\ IsInjective(list) =>
                  /\ IsInjective(Popped(list, n)) /\ IsInjective(AfterPop(list, n))
                  /\ ToSet(Popped(list, n)) \cap ToSet(AfterPop(list, n)) = {}
<1> DEFINE front == Popped(list, n)
           back == AfterPop(list, n)
<1>1. /\ Len(list) \in Nat /\ DOMAIN list = 1 .. Len(list)
      /\ \A i \in 1 .. Len(list) : list[i] \in S
  BY LenProperties, ElementOfSeq
<1>2. /\ front \in Seq(S) /\ Len(front) = n /\ \A i \in 1 .. n : front[i] = list[i]
  <2>1. \A i \in 1 .. n : list[i] \in S  BY <1>1
  <2>. QED  BY <1>1, <2>1, SubSeqProperties DEF Popped
<1>3. /\ back \in Seq(S) /\ Len(back) = Len(list) - n
      /\ \A i \in 1 .. Len(list) - n : back[i] = list[n + i]
  BY AfterPopElements
<1>4. DOMAIN front = 1 .. n /\ DOMAIN back = 1 .. Len(list) - n
  BY <1>2, <1>3, LenProperties
<1>5. ToSet(list) = ToSet(front) \cup ToSet(back)
  <2>1. ASSUME NEW x \in ToSet(list)  PROVE x \in ToSet(front) \cup ToSet(back)
    <3>1. PICK i \in 1 .. Len(list) : x = list[i]  BY <1>1, <2>1 DEF ToSet
    <3>2. CASE i <= n  BY <1>2, <1>4, <3>1, <3>2 DEF ToSet
    <3>3. CASE i > n
      <4>1. i - n \in DOMAIN back /\ back[i - n] = x  BY <1>1, <1>3, <1>4, <3>1, <3>3
      <4>. QED  BY <4>1 DEF ToSet
    <3>. QED  BY <1>1, <3>1, <3>2, <3>3
  <2>2. ToSet(front) \subseteq ToSet(list)  BY <1>1, <1>2, <1>4 DEF ToSet
  <2>3. ASSUME NEW x \in ToSet(back)  PROVE x \in ToSet(list)
    <3>1. PICK i \in 1 .. Len(list) - n : x = back[i]  BY <1>4, <2>3 DEF ToSet
    <3>2. n + i \in DOMAIN list /\ list[n + i] = x  BY <1>1, <1>3, <3>1
    <3>. QED  BY <3>2 DEF ToSet
  <2>. QED  BY <2>1, <2>2, <2>3
<1>6. ASSUME IsInjective(list)
      PROVE  IsInjective(front) /\ IsInjective(back) /\ ToSet(front) \cap ToSet(back) = {}
  <2>1. IsInjective(front)  BY <1>1, <1>2, <1>4, <1>6 DEF IsInjective
  <2>2. IsInjective(back)
    <3>1. ASSUME NEW i \in DOMAIN back, NEW j \in DOMAIN back, back[i] = back[j]  PROVE i = j
      <4>1. /\ n + i \in DOMAIN list /\ n + j \in DOMAIN list
            /\ list[n + i] = list[n + j] /\ i \in Int /\ j \in Int
        BY <1>1, <1>3, <1>4, <3>1
      <4>2. n + i = n + j  BY <1>6, <4>1 DEF IsInjective
      <4>. QED  BY <4>1, <4>2
    <3>. QED  BY <3>1 DEF IsInjective
  <2>3. ASSUME NEW i \in 1 .. n, NEW j \in 1 .. Len(list) - n  PROVE front[i] # back[j]
    <3>1. /\ front[i] = list[i] /\ back[j] = list[n + j]
          /\ i \in DOMAIN list /\ n + j \in DOMAIN list /\ i # n + j
      BY <1>1, <1>2, <1>3
    <3>. QED  BY <1>6, <3>1 DEF IsInjective
  <2>. QED  BY <1>4, <2>1, <2>2, <2>3 DEF ToSet
<1>. QED  BY <1>2, <1>3, <1>5, <1>6

(***************************************************************************)
(* One call of popFirstFrame on a list that is not empty.                  *)
(***************************************************************************)
LEMMA PopFirstProperties ==
    ASSUME NEW S, NEW list \in Seq(S), list # <<>>
    PROVE  /\ list[1] \in S /\ list[1] \in ToSet(list)
           /\ AfterPop(list, 1) \in Seq(S) /\ Len(AfterPop(list, 1)) = Len(list) - 1
           /\ Len(list) \in Nat /\ Len(list) >= 1
           /\ ToSet(list) = ToSet(AfterPop(list, 1)) \cup {list[1]}
           /\ IsInjective(list) => /\ IsInjective(AfterPop(list, 1))
                                  /\ list[1] \notin ToSet(AfterPop(list, 1))
<1>1. Len(list) \in Nat /\ Len(list) >= 1 /\ list[1] \in S
  BY EmptySeq, LenProperties, ElementOfSeq
<1>2. PICK n \in 0 .. Len(list) : n = 1  BY <1>1
<1>3. /\ Popped(list, n) \in Seq(S) /\ Len(Popped(list, n)) = n
      /\ AfterPop(list, n) \in Seq(S) /\ Len(AfterPop(list, n)) = Len(list) - n
      /\ \A i \in 1 .. n : Popped(list, n)[i] = list[i]
      /\ ToSet(list) = ToSet(Popped(list, n)) \cup ToSet(AfterPop(list, n))
      /\ IsInjective(list) =>
             /\ IsInjective(AfterPop(list, n))
             /\ ToSet(Popped(list, n)) \cap ToSet(AfterPop(list, n)) = {}
  BY PopProperties
<1>4. ToSet(Popped(list, n)) = {list[1]}
  <2>1. DOMAIN Popped(list, n) = {1} /\ Popped(list, n)[1] = list[1]
    BY <1>2, <1>3, LenProperties
  <2>. QED  BY <2>1 DEF ToSet
<1>. QED  BY <1>1, <1>2, <1>3, <1>4

(***************************************************************************)
(* removeFromFrameList takes the frame out of its place and closes up.     *)
(***************************************************************************)
LEMMA RemoveFromFrameListElements ==
    ASSUME NEW S, NEW list \in Seq(S), NEW item, Contains(list, item)
    PROVE  \E k \in 1 .. Len(list) :
               /\ list[k] = item
               /\ RemoveFromFrameList(list, item) \in Seq(S)
               /\ Len(RemoveFromFrameList(list, item)) = Len(list) - 1
               /\ \A i \in 1 .. Len(list) - 1 :
                      RemoveFromFrameList(list, item)[i]
                          = IF i < k THEN list[i] ELSE list[i + 1]
<1> DEFINE new == RemoveFromFrameList(list, item)
<1>1. /\ Len(list) \in Nat /\ DOMAIN list = 1 .. Len(list)
      /\ \A i \in 1 .. Len(list) : list[i] \in S
  BY LenProperties, ElementOfSeq
<1> DEFINE k == Position(list, item)
           front == SubSeq(list, 1, k - 1)
           back == SubSeq(list, k + 1, Len(list))
<1>2. k \in 1 .. Len(list) /\ list[k] = item  BY DEF Contains, Position
<1> HIDE DEF k
<1>3. /\ front \in Seq(S) /\ Len(front) = k - 1
      /\ \A i \in 1 .. k - 1 : front[i] = list[i]
  <2>1. k - 1 \in Int /\ \A i \in 1 .. k - 1 : list[i] \in S  BY <1>1, <1>2
  <2>2. /\ front \in Seq(S) /\ Len(front) = IF 1 <= k - 1 THEN (k - 1) - 1 + 1 ELSE 0
        /\ \A i \in 1 .. (k - 1) - 1 + 1 : front[i] = list[1 + i - 1]
    BY <2>1, SubSeqProperties
  <2>. QED  BY <1>1, <1>2, <2>2
<1>4. /\ back \in Seq(S) /\ Len(back) = Len(list) - k
      /\ \A i \in 1 .. Len(list) - k : back[i] = list[k + i]
  <2>1. \A i \in k + 1 .. Len(list) : list[i] \in S  BY <1>1, <1>2
  <2>2. /\ k + 1 \in Int /\ Len(list) - (k + 1) + 1 = Len(list) - k
        /\ (IF k + 1 <= Len(list) THEN Len(list) - (k + 1) + 1 ELSE 0) = Len(list) - k
        /\ \A i \in 1 .. Len(list) - k : k + 1 + i - 1 = k + i
    <3>1. k \in 0 .. Len(list)  BY <1>1, <1>2
    <3>. QED  BY <1>1, <3>1, CutProperties
  <2>3. /\ back \in Seq(S)
        /\ Len(back) = IF k + 1 <= Len(list) THEN Len(list) - (k + 1) + 1 ELSE 0
        /\ \A i \in 1 .. Len(list) - (k + 1) + 1 : back[i] = list[k + 1 + i - 1]
    BY <1>1, <2>1, <2>2, SubSeqProperties
  <2>4. \A i \in 1 .. Len(list) - k : back[i] = list[k + i]
    <3>1. ASSUME NEW i \in 1 .. Len(list) - k  PROVE back[i] = list[k + i]
      <4>1. i \in 1 .. Len(list) - (k + 1) + 1  BY <2>2
      <4>2. k + 1 + i - 1 = k + i  BY <2>2
      <4>3. back[i] = list[k + 1 + i - 1]  BY <2>3, <4>1
      <4>. QED  BY <4>2, <4>3
    <3>. QED  BY <3>1
  <2>5. Len(back) = Len(list) - k  BY <2>2, <2>3
  <2>. QED  BY <2>3, <2>4, <2>5
<1>5. new = front \o back  BY DEF RemoveFromFrameList, RemoveAt, k
<1>6. /\ new \in Seq(S) /\ Len(new) = Len(list) - 1
      /\ \A i \in 1 .. Len(list) - 1 : new[i] = IF i < k THEN list[i] ELSE list[i + 1]
  <2>1. /\ new \in Seq(S) /\ Len(new) = Len(front) + Len(back)
        /\ \A i \in 1 .. Len(front) + Len(back) :
              new[i] = IF i <= Len(front) THEN front[i] ELSE back[i - Len(front)]
    BY <1>3, <1>4, <1>5, ConcatProperties
  <2>2. Len(front) + Len(back) = Len(list) - 1
    <3>1. k \in Int /\ Len(list) \in Int  BY <1>1, <1>2
    <3>2. (k - 1) + (Len(list) - k) = Len(list) - 1  BY <3>1
    <3>. QED  BY <1>3, <1>4, <3>2
  <2>3. ASSUME NEW i \in 1 .. Len(list) - 1
        PROVE  new[i] = IF i < k THEN list[i] ELSE list[i + 1]
    <3>1. k \in Int /\ i \in Int /\ Len(list) \in Int  BY <1>1, <1>2
    <3>2. new[i] = IF i <= k - 1 THEN front[i] ELSE back[i - (k - 1)]  BY <1>3, <2>1, <2>2
    <3>3. CASE i < k
      <4>1. i <= k - 1 /\ i \in 1 .. k - 1  BY <3>1, <3>3
      <4>. QED  BY <1>3, <3>2, <3>3, <4>1
    <3>4. CASE ~(i < k)
      <4>1. /\ ~(i <= k - 1) /\ i - (k - 1) \in 1 .. Len(list) - k
            /\ k + (i - (k - 1)) = i + 1
        BY <1>2, <3>1, <3>4
      <4>. QED  BY <1>4, <3>2, <3>4, <4>1
    <3>. QED  BY <3>3, <3>4
  <2>. QED  BY <2>1, <2>2, <2>3
<1>. QED  BY <1>2, <1>6

(***************************************************************************)
(* removeFromFrameList unlinks the frame it is given and no other.         *)
(***************************************************************************)
LEMMA RemoveFromFrameListProperties ==
    ASSUME NEW S, NEW list \in Seq(S), NEW item
    PROVE  /\ RemoveFromFrameList(list, item) \in Seq(S)
           /\ IsInjective(list) =>
                  /\ IsInjective(RemoveFromFrameList(list, item))
                  /\ ToSet(RemoveFromFrameList(list, item)) = ToSet(list) \ {item}
<1> DEFINE new == RemoveFromFrameList(list, item)
<1>1. /\ Len(list) \in Nat /\ DOMAIN list = 1 .. Len(list)
      /\ \A i \in 1 .. Len(list) : list[i] \in S
  BY LenProperties, ElementOfSeq
<1>2. CASE ~Contains(list, item)
  <2>1. new = list  BY <1>2 DEF RemoveFromFrameList
  <2>2. item \notin ToSet(list)  BY <1>1, <1>2 DEF Contains, ToSet
  <2>. QED  BY <2>1, <2>2
<1>3. CASE Contains(list, item)
  <2>1. PICK k \in 1 .. Len(list) :
            /\ list[k] = item /\ new \in Seq(S) /\ Len(new) = Len(list) - 1
            /\ \A i \in 1 .. Len(list) - 1 : new[i] = IF i < k THEN list[i] ELSE list[i + 1]
    BY <1>3, RemoveFromFrameListElements, Z3T(60)
  <2>2. DOMAIN new = 1 .. Len(list) - 1  BY <2>1, LenProperties
  <2>3. ASSUME IsInjective(list)  PROVE IsInjective(new)
    <3>1. ASSUME NEW i \in DOMAIN new, NEW j \in DOMAIN new, new[i] = new[j]  PROVE i = j
      <4> DEFINE old(x) == IF x < k THEN x ELSE x + 1
      <4>1. /\ old(i) \in DOMAIN list /\ old(j) \in DOMAIN list
            /\ list[old(i)] = new[i] /\ list[old(j)] = new[j]
        BY <1>1, <2>1, <2>2
      <4>2. old(i) = old(j)  BY <2>3, <3>1, <4>1 DEF IsInjective
      <4>. QED  BY <1>1, <2>1, <2>2, <4>2
    <3>. QED  BY <3>1 DEF IsInjective
  <2>4. ASSUME IsInjective(list)  PROVE ToSet(new) = ToSet(list) \ {item}
    <3>1. ASSUME NEW x \in ToSet(new)  PROVE x \in ToSet(list) /\ x # item
      <4>1. PICK i \in 1 .. Len(list) - 1 : x = new[i]  BY <2>2, <3>1 DEF ToSet
      <4>2. PICK j \in 1 .. Len(list) : x = list[j] /\ j # k
        BY <1>1, <2>1, <4>1
      <4>. QED  BY <1>1, <2>1, <2>4, <4>2 DEF ToSet, IsInjective
    <3>2. ASSUME NEW x \in ToSet(list), x # item  PROVE x \in ToSet(new)
      <4>1. PICK j \in 1 .. Len(list) : x = list[j]  BY <1>1, <3>2 DEF ToSet
      <4>2. j # k  BY <2>1, <3>2, <4>1
      <4>3. CASE j < k
        <5>1. j \in DOMAIN new /\ new[j] = x  BY <1>1, <2>1, <2>2, <4>1, <4>3
        <5>. QED  BY <5>1 DEF ToSet
      <4>4. CASE j > k
        <5>1. j - 1 \in DOMAIN new /\ new[j - 1] = x  BY <1>1, <2>1, <2>2, <4>1, <4>4
        <5>. QED  BY <5>1 DEF ToSet
      <4>. QED  BY <1>1, <2>1, <4>1, <4>2, <4>3, <4>4
    <3>. QED  BY <3>1, <3>2
  <2>. QED  BY <2>1, <2>3, <2>4
<1>. QED  BY <1>2, <1>3
=============================================================================
