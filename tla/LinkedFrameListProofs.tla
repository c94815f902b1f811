----------------------- MODULE LinkedFrameListProofs -----------------------
(***************************************************************************)
(* The links of the frame lists are right: LinksRepresent and the lemmas   *)
(* it rests on.  First what each list function does to the links of one    *)
(* list, then the step from one state to the next; then the length fields  *)
(* (LengthsCount), the walk of the validation (ListsValidate), and that    *)
(* the lists, read by their links, are the queues of FrameQueues           *)
(* (LinksAreQueues).                                                       *)
(***************************************************************************)
EXTENDS LinkedFrameListProperties, FrameListProofs, FiniteSetTheorems,
        WellFoundedInduction

-----------------------------------------------------------------------------
(* One list.                                                               *)

(* Two sets of links that agree on the frames other than f and those of s. *)
Elsewhere(s, f, next, prev, next2, prev2) ==
    \A g \in Frames : g \notin ToSet(s) /\ g # f => next2[g] = next[g] /\ prev2[g] = prev[g]

(***************************************************************************)
(* The links of a list stay right when only other frames' links change.    *)
(***************************************************************************)
LEMMA OtherLinksChange ==
    ASSUME NEW l, NEW s \in Seq(Frames), NEW next, NEW prev, NEW head, NEW tail,
           NEW next2, NEW prev2,
           LinkedAs(l, s, next, prev, head, tail),
           \A g \in ToSet(s) : next2[g] = next[g] /\ prev2[g] = prev[g]
    PROVE  LinkedAs(l, s, next2, prev2, head, tail)
<1>1. \A i \in 1 .. Len(s) : s[i] \in ToSet(s)  BY LenProperties DEF ToSet
<1>. QED  BY <1>1 DEF LinkedAs

(***************************************************************************)
(* Only the empty list has no head.                                        *)
(***************************************************************************)
LEMMA HeadProperties ==
    ASSUME NEW s \in Seq(Frames)
    PROVE  /\ Len(s) \in Nat /\ DOMAIN s = 1 .. Len(s)
           /\ \A i \in 1 .. Len(s) : s[i] \in Frames /\ s[i] # None /\ s[i] \in ToSet(s)
           /\ s = <<>> <=> Len(s) = 0
           /\ HeadIn(s) = None <=> s = <<>>
<1>1. Len(s) \in Nat /\ DOMAIN s = 1 .. Len(s) /\ (s = <<>> <=> Len(s) = 0)
  BY LenProperties, EmptySeq
<1>2. \A i \in 1 .. Len(s) : s[i] \in Frames /\ s[i] # None /\ s[i] \in ToSet(s)
  BY <1>1, ListAssumption, ElementOfSeq DEF ToSet
<1>3. HeadIn(s) = None <=> s = <<>>
  BY <1>1, <1>2 DEF HeadIn
<1>. QED  BY <1>1, <1>2, <1>3

(***************************************************************************)
(* In a list without duplicates a frame has one position.                  *)
(***************************************************************************)
LEMMA OnePosition ==
    ASSUME NEW s \in Seq(Frames), IsInjective(s),
           NEW i \in 1 .. Len(s), NEW j \in 1 .. Len(s), i # j
    PROVE  s[i] # s[j]
<1>1. i \in DOMAIN s /\ j \in DOMAIN s  BY LenProperties
<1>. QED  BY <1>1 DEF IsInjective

(***************************************************************************)
(* addToFrameList puts a frame in front, links and all.                    *)
(***************************************************************************)
LEMMA AddLinks ==
    ASSUME NEW l \in PageoutLists, NEW s \in Seq(Frames), IsInjective(s),
           NEW f \in Frames, f \notin ToSet(s),
           NEW next \in [Frames -> Frames \cup {None}],
           NEW prev \in [Frames -> Frames \cup {None}], NEW head, NEW tail,
           LinkedAs(l, s, next, prev, head, tail)
    PROVE  /\ LinkedAs(l, AddToFrameList(s, f), [next EXCEPT ![f] = head],
                    SetLink([prev EXCEPT ![f] = None], head, f), f,
                    IF tail = None THEN f ELSE tail)
           /\ Elsewhere(s, f, next, prev, [next EXCEPT ![f] = head],
                    SetLink([prev EXCEPT ![f] = None], head, f))
<1> DEFINE new == AddToFrameList(s, f)
           next2 == [next EXCEPT ![f] = head]
           prev2 == SetLink([prev EXCEPT ![f] = None], head, f)
<1>1. /\ new \in Seq(Frames) /\ Len(new) = Len(s) + 1
      /\ \A i \in 1 .. Len(new) : new[i] = IF i = 1 THEN f ELSE s[i - 1]
  BY AddToFrameListElements
<1>2. /\ Len(s) \in Nat /\ DOMAIN s = 1 .. Len(s)
      /\ \A i \in 1 .. Len(s) : s[i] \in Frames /\ s[i] # None /\ s[i] \in ToSet(s)
      /\ s = <<>> <=> Len(s) = 0
  BY HeadProperties
<1>3. new # <<>> /\ l # "free"  BY <1>1, <1>2, HeadProperties DEF PageoutLists
<1>4. head = (IF s = <<>> THEN None ELSE s[1]) /\ tail = (IF s = <<>> THEN None ELSE s[Len(s)])
  BY <1>3 DEF LinkedAs, HeadIn, TailIn
<1>5. f = HeadIn(new) /\ (IF tail = None THEN f ELSE tail) = TailIn(l, new)
  BY <1>1, <1>2, <1>3, <1>4 DEF HeadIn, TailIn
<1>6. \A g \in Frames : next2[g] = IF g = f THEN head ELSE next[g]
  OBVIOUS
<1>7. \A g \in Frames : prev2[g] = IF g = head THEN f ELSE IF g = f THEN None ELSE prev[g]
  BY ListAssumption DEF SetLink
<1>. HIDE DEF new, next2, prev2
<1>8. \A i \in 1 .. Len(s) : next[s[i]] = NextIn(s, i) /\ prev[s[i]] = PrevIn(l, s, i)
  BY DEF LinkedAs
<1>9. ASSUME NEW i \in 1 .. Len(new)
      PROVE  next2[new[i]] = NextIn(new, i) /\ prev2[new[i]] = PrevIn(l, new, i)
  <2>1. CASE i = 1
    <3>1. new[i] = f /\ f # head  BY <1>1, <1>2, <1>4, <2>1, ListAssumption
    <3>2. next2[f] = NextIn(new, 1)  BY <1>1, <1>2, <1>4, <1>6 DEF NextIn
    <3>3. prev2[f] = PrevIn(l, new, 1)  BY <1>7, <3>1 DEF PrevIn
    <3>. QED  BY <2>1, <3>1, <3>2, <3>3
  <2>2. CASE i # 1
    <3> DEFINE j == i - 1
    <3>1. j \in 1 .. Len(s) /\ new[i] = s[j] /\ s[j] # f /\ s[j] \in Frames
      BY <1>1, <1>2, <2>2
    <3>2. next2[s[j]] = NextIn(new, i)
      <4>1. next2[s[j]] = IF j = Len(s) THEN None ELSE s[j + 1]
        BY <1>6, <1>8, <3>1 DEF NextIn
      <4>2. i # Len(new) => new[i + 1] = s[j + 1]  BY <1>1, <1>2, <2>2
      <4>. QED  BY <1>1, <1>2, <2>2, <4>1, <4>2 DEF NextIn
    <3>3. prev2[s[j]] = PrevIn(l, new, i)
      <4>1. CASE j = 1  BY <1>1, <1>2, <1>3, <1>4, <1>7, <2>2, <3>1, <4>1 DEF PrevIn
      <4>2. CASE j # 1
        <5>1. s # <<>> /\ head = s[1] /\ 1 \in DOMAIN s /\ j \in DOMAIN s
          BY <1>2, <1>4, <3>1
        <5>2. s[j] # head  BY <4>2, <5>1 DEF IsInjective
        <5>3. prev2[s[j]] = s[j - 1]  BY <1>3, <1>7, <1>8, <3>1, <4>2, <5>2 DEF PrevIn
        <5>. QED  BY <1>1, <1>2, <1>3, <2>2, <3>1, <4>2, <5>3 DEF PrevIn
      <4>. QED  BY <4>1, <4>2
    <3>. QED  BY <3>1, <3>2, <3>3
  <2>. QED  BY <2>1, <2>2
<1>10. \A g \in Frames : g \notin ToSet(s) /\ g # f =>
           next2[g] = next[g] /\ prev2[g] = prev[g]
  BY <1>2, <1>4, <1>6, <1>7, ListAssumption
<1>. QED  BY <1>5, <1>9, <1>10 DEF LinkedAs, Elsewhere, new, next2, prev2

(***************************************************************************)
(* initListsAndPFNs puts a frame with no links in front of the free list.  *)
(***************************************************************************)
LEMMA AddFreeLinks ==
    ASSUME NEW s \in Seq(Frames), IsInjective(s),
           NEW f \in Frames, f \notin ToSet(s),
           NEW next \in [Frames -> Frames \cup {None}],
           NEW prev \in [Frames -> Frames \cup {None}], prev[f] = None,
           NEW head, NEW tail, LinkedAs("free", s, next, prev, head, tail)
    PROVE  LinkedAs("free", AddToFrameList(s, f), [next EXCEPT ![f] = head], prev, f, tail)
<1> DEFINE new == AddToFrameList(s, f)
           next2 == [next EXCEPT ![f] = head]
<1>1. /\ new \in Seq(Frames) /\ Len(new) = Len(s) + 1
      /\ \A i \in 1 .. Len(new) : new[i] = IF i = 1 THEN f ELSE s[i - 1]
  BY AddToFrameListElements
<1>2. /\ Len(s) \in Nat
      /\ \A i \in 1 .. Len(s) : s[i] \in Frames /\ s[i] \in ToSet(s)
      /\ s = <<>> <=> Len(s) = 0
  BY HeadProperties
<1>3. new # <<>>  BY <1>1, <1>2, HeadProperties
<1>4. head = (IF s = <<>> THEN None ELSE s[1]) /\ tail = None
  BY DEF LinkedAs, HeadIn, TailIn
<1>5. f = HeadIn(new) /\ tail = TailIn("free", new)
  BY <1>1, <1>2, <1>3, <1>4 DEF HeadIn, TailIn
<1>6. \A g \in Frames : next2[g] = IF g = f THEN head ELSE next[g]
  OBVIOUS
<1>. HIDE DEF new, next2
<1>7. \A i \in 1 .. Len(s) : next[s[i]] = NextIn(s, i) /\ prev[s[i]] = None
  BY DEF LinkedAs, PrevIn
<1>8. ASSUME NEW i \in 1 .. Len(new)
      PROVE  next2[new[i]] = NextIn(new, i) /\ prev[new[i]] = PrevIn("free", new, i)
  <2>1. CASE i = 1
    <3>1. new[i] = f  BY <1>1, <2>1
    <3>. QED  BY <1>1, <1>2, <1>4, <1>6, <2>1, <3>1 DEF NextIn, PrevIn
  <2>2. CASE i # 1
    <3>1. /\ i - 1 \in 1 .. Len(s) /\ new[i] = s[i - 1]
          /\ s[i - 1] # f /\ s[i - 1] \in Frames
      BY <1>1, <1>2, <2>2
    <3>2. next2[new[i]] = IF i - 1 = Len(s) THEN None ELSE s[i - 1 + 1]
      BY <1>6, <1>7, <3>1 DEF NextIn
    <3>3. i # Len(new) => new[i + 1] = s[i - 1 + 1]  BY <1>1, <1>2, <2>2
    <3>. QED  BY <1>1, <1>2, <1>7, <2>2, <3>1, <3>2, <3>3 DEF NextIn, PrevIn
  <2>. QED  BY <2>1, <2>2
<1>. QED  BY <1>5, <1>8 DEF LinkedAs, new, next2

(***************************************************************************)
(* addToFrameListTail puts a frame at the end, links and all.              *)
(***************************************************************************)
LEMMA AddTailLinks ==
    ASSUME NEW s \in Seq(Frames), IsInjective(s),
           NEW f \in Frames, f \notin ToSet(s),
           NEW next \in [Frames -> Frames \cup {None}],
           NEW prev \in [Frames -> Frames \cup {None}], NEW head, NEW tail,
           LinkedAs("active", s, next, prev, head, tail)
    PROVE  /\ LinkedAs("active", AddToFrameListTail(s, f),
                    SetLink([next EXCEPT ![f] = None], tail, f), [prev EXCEPT ![f] = tail],
                    IF tail = None THEN f ELSE head, f)
           /\ Elsewhere(s, f, next, prev, SetLink([next EXCEPT ![f] = None], tail, f),
                    [prev EXCEPT ![f] = tail])
<1> DEFINE new == AddToFrameListTail(s, f)
           n == Len(s)
           next2 == SetLink([next EXCEPT ![f] = None], tail, f)
           prev2 == [prev EXCEPT ![f] = tail]
<1>1. /\ new \in Seq(Frames) /\ Len(new) = n + 1
      /\ \A i \in 1 .. n : new[i] = s[i]
      /\ new[n + 1] = f
  BY AppendProperties DEF AddToFrameListTail
<1>2. /\ n \in Nat
      /\ \A i \in 1 .. n : s[i] \in Frames /\ s[i] # None /\ s[i] \in ToSet(s)
      /\ s = <<>> <=> n = 0
  BY HeadProperties
<1>3. new # <<>>  BY <1>1, <1>2, HeadProperties
<1>4. head = (IF s = <<>> THEN None ELSE s[1]) /\ tail = (IF s = <<>> THEN None ELSE s[n])
  BY DEF LinkedAs, HeadIn, TailIn
<1>5. (IF tail = None THEN f ELSE head) = HeadIn(new) /\ f = TailIn("active", new)
  BY <1>1, <1>2, <1>3, <1>4 DEF HeadIn, TailIn
<1>6. \A g \in Frames : next2[g] = IF g = tail THEN f ELSE IF g = f THEN None ELSE next[g]
  BY ListAssumption DEF SetLink
<1>7. \A g \in Frames : prev2[g] = IF g = f THEN tail ELSE prev[g]
  OBVIOUS
<1>8. \A i \in 1 .. n : next[s[i]] = NextIn(s, i) /\ prev[s[i]] = PrevIn("active", s, i)
  BY DEF LinkedAs
<1>9. \A i \in 1 .. n : s[i] = tail <=> i = n
  <2>1. \A i \in 1 .. n : i # n => s[i] # s[n]  BY <1>2, OnePosition
  <2>. QED  BY <1>2, <1>4, <2>1
<1>. HIDE DEF new, next2, prev2, n
<1>10. ASSUME NEW i \in 1 .. Len(new)
       PROVE  next2[new[i]] = NextIn(new, i) /\ prev2[new[i]] = PrevIn("active", new, i)
  <2>1. CASE i = n + 1
    <3>1. new[i] = f /\ f # tail  BY <1>1, <1>2, <1>4, <2>1, ListAssumption
    <3>2. next2[f] = NextIn(new, i)  BY <1>1, <1>6, <2>1, <3>1 DEF NextIn
    <3>3. prev2[f] = PrevIn("active", new, i)
      <4>1. i # 1 => new[i - 1] = s[n] /\ s # <<>>  BY <1>1, <1>2, <2>1
      <4>2. i = 1 => s = <<>>  BY <1>1, <1>2, <2>1
      <4>. QED  BY <1>4, <1>7, <4>1, <4>2 DEF PrevIn
    <3>. QED  BY <3>1, <3>2, <3>3
  <2>2. CASE i # n + 1
    <3>1. i \in 1 .. n /\ new[i] = s[i] /\ s[i] # f /\ s[i] \in Frames
      BY <1>1, <1>2, <2>2
    <3>2. next2[s[i]] = NextIn(new, i)
      <4>1. i = n => next2[s[i]] = f /\ new[i + 1] = f  BY <1>1, <1>6, <1>9, <3>1
      <4>2. i # n => next2[s[i]] = s[i + 1] /\ new[i + 1] = s[i + 1]
        <5>1. i # n => next[s[i]] = s[i + 1]  BY <1>8, <3>1 DEF NextIn, n
        <5>. QED  BY <1>1, <1>2, <1>6, <1>9, <3>1, <5>1
      <4>. QED  BY <1>1, <1>2, <3>1, <4>1, <4>2 DEF NextIn
    <3>3. prev2[s[i]] = PrevIn("active", new, i)
      <4>1. prev2[s[i]] = PrevIn("active", s, i)  BY <1>7, <1>8, <3>1
      <4>2. i # 1 => new[i - 1] = s[i - 1]  BY <1>1, <1>2, <3>1
      <4>. QED  BY <4>1, <4>2 DEF PrevIn
    <3>. QED  BY <3>1, <3>2, <3>3
  <2>. QED  BY <2>1, <2>2
<1>11. \A g \in Frames : g \notin ToSet(s) /\ g # f =>
           next2[g] = next[g] /\ prev2[g] = prev[g]
  <2>1. tail = None \/ tail \in ToSet(s)  BY <1>2, <1>4
  <2>. QED  BY <1>6, <1>7, <2>1, ListAssumption
<1>. QED  BY <1>5, <1>10, <1>11 DEF LinkedAs, Elsewhere, new, next2, prev2

(***************************************************************************)
(* popFirstFrame takes the head out of any list, the free list included,   *)
(* and leaves it without links.                                            *)
(***************************************************************************)
LEMMA PopLinks ==
    ASSUME NEW l \in ListNames, NEW s \in Seq(Frames), IsInjective(s), s # <<>>,
           NEW next \in [Frames -> Frames \cup {None}],
           NEW prev \in [Frames -> Frames \cup {None}], NEW head, NEW tail,
           LinkedAs(l, s, next, prev, head, tail)
    PROVE  LET f == head
               g == next[f]
               next2 == [next EXCEPT ![f] = None]
               prev2 == [SetLink(prev, g, None) EXCEPT ![f] = None]
           IN  /\ f = s[1] /\ f \in Frames
               /\ LinkedAs(l, AfterPop(s, 1), next2, prev2, g, IF g = None THEN None ELSE tail)
               /\ next2[f] = None /\ prev2[f] = None
               /\ Elsewhere(s, f, next, prev, next2, prev2)
<1> DEFINE new == AfterPop(s, 1)
           n == Len(s)
           f == head
           g == next[f]
           next2 == [next EXCEPT ![f] = None]
           prev2 == [SetLink(prev, g, None) EXCEPT ![f] = None]
<1>1. /\ n \in Nat /\ n >= 1
      /\ \A i \in 1 .. n : s[i] \in Frames /\ s[i] # None /\ s[i] \in ToSet(s)
  BY HeadProperties
<1>2. /\ new \in Seq(Frames) /\ Len(new) = n - 1
      /\ \A i \in 1 .. n - 1 : new[i] = s[1 + i]
  <2>1. PICK m \in 0 .. Len(s) : m = 1  BY <1>1
  <2>2. /\ AfterPop(s, m) \in Seq(Frames) /\ Len(AfterPop(s, m)) = Len(s) - m
        /\ \A i \in 1 .. Len(s) - m : AfterPop(s, m)[i] = s[m + i]
    BY AfterPopElements
  <2>. QED  BY <2>1, <2>2
<1>3. f = s[1] /\ f \in Frames /\ tail = (IF l = "free" THEN None ELSE s[n])
  BY <1>1 DEF LinkedAs, HeadIn, TailIn
<1>4. \A i \in 1 .. n : next[s[i]] = NextIn(s, i) /\ prev[s[i]] = PrevIn(l, s, i)
  BY DEF LinkedAs
<1>5. g = IF n = 1 THEN None ELSE s[2]
  <2>1. 1 \in 1 .. n  BY <1>1
  <2>2. g = NextIn(s, 1)  BY <1>3, <1>4, <2>1
  <2>3. NextIn(s, 1) = IF n = 1 THEN None ELSE s[2]  BY DEF NextIn
  <2>. QED  BY <2>2, <2>3
<1>6. \A h \in Frames : next2[h] = IF h = f THEN None ELSE next[h]
  OBVIOUS
<1>7. \A h \in Frames : prev2[h] = IF h = f \/ h = g THEN None ELSE prev[h]
  BY ListAssumption DEF SetLink
<1>8. \A i, j \in 1 .. n : i # j => s[i] # s[j]
  BY OnePosition
<1>. HIDE DEF new, next2, prev2, g, n, f
<1>9. new = <<>> <=> n = 1  BY <1>1, <1>2, HeadProperties
<1>10. g = HeadIn(new) /\ (IF g = None THEN None ELSE tail) = TailIn(l, new)
  <2>1. CASE n = 1  BY <1>5, <1>9, <2>1 DEF HeadIn, TailIn
  <2>2. CASE n # 1
    <3>1. new[1] = s[2] /\ new[n - 1] = s[n] /\ g = s[2] /\ g # None
      BY <1>1, <1>2, <1>5, <2>2
    <3>. QED  BY <1>1, <1>2, <1>3, <1>9, <2>2, <3>1 DEF HeadIn, TailIn
  <2>. QED  BY <2>1, <2>2
<1>11. ASSUME NEW i \in 1 .. Len(new)
       PROVE  next2[new[i]] = NextIn(new, i) /\ prev2[new[i]] = PrevIn(l, new, i)
  <2>1. i + 1 \in 1 .. n /\ new[i] = s[i + 1] /\ s[i + 1] \in Frames /\ s[i + 1] # f
    <3>1. i + 1 \in 1 .. n /\ 1 \in 1 .. n /\ i + 1 # 1  BY <1>1, <1>2
    <3>. QED  BY <1>1, <1>2, <1>3, <1>8, <3>1
  <2>2. next2[new[i]] = NextIn(new, i)
    <3>1. next2[new[i]] = IF i + 1 = n THEN None ELSE s[i + 1 + 1]
      BY <1>4, <1>6, <2>1 DEF NextIn, n
    <3>2. i # Len(new) => new[i + 1] = s[i + 1 + 1]  BY <1>1, <1>2, <2>1
    <3>. QED  BY <1>1, <1>2, <2>1, <3>1, <3>2 DEF NextIn
  <2>3. prev2[new[i]] = PrevIn(l, new, i)
    <3>1. CASE i = 1
      <4>1. s[i + 1] = g  BY <1>1, <1>2, <1>5, <2>1, <3>1
      <4>. QED  BY <1>7, <2>1, <3>1, <4>1 DEF PrevIn
    <3>2. CASE i # 1
      <4>1. i + 1 # 2 /\ 2 \in 1 .. n  BY <1>1, <1>2, <3>2
      <4>2. s[i + 1] # g  BY <1>5, <1>8, <2>1, <4>1
      <4>3. prev2[new[i]] = PrevIn(l, s, i + 1)  BY <1>4, <1>7, <2>1, <4>2
      <4>4. new[i - 1] = s[i + 1 - 1]  BY <1>1, <1>2, <2>1, <3>2
      <4>. QED  BY <2>1, <3>2, <4>3, <4>4 DEF PrevIn
    <3>. QED  BY <3>1, <3>2
  <2>. QED  BY <2>2, <2>3
<1>12. next2[f] = None /\ prev2[f] = None  BY <1>3, <1>6, <1>7
<1>13. \A h \in Frames : h \notin ToSet(s) => next2[h] = next[h] /\ prev2[h] = prev[h]
  <2>1. f \in ToSet(s) /\ (g = None \/ g \in ToSet(s))  BY <1>1, <1>3, <1>5
  <2>. QED  BY <1>6, <1>7, <2>1, ListAssumption
<1>. QED  BY <1>3, <1>10, <1>11, <1>12, <1>13 DEF LinkedAs, Elsewhere, new, next2, prev2, g, f

(***************************************************************************)
(* removeFromFrameList takes a frame out of its place in the modified or   *)
(* standby list and leaves it without links.                               *)
(***************************************************************************)
LEMMA RemoveLinks ==
    ASSUME NEW l \in PageoutLists, NEW s \in Seq(Frames), IsInjective(s),
           NEW f \in ToSet(s),
           NEW next \in [Frames -> Frames \cup {None}],
           NEW prev \in [Frames -> Frames \cup {None}], NEW head, NEW tail,
           LinkedAs(l, s, next, prev, head, tail)
    PROVE  LET before == prev[f]
               after == next[f]
               next2 == [SetLink(next, before, after) EXCEPT ![f] = None]
               prev2 == [SetLink(prev, after, before) EXCEPT ![f] = None]
               head2 == IF before = None /\ head = f THEN after ELSE head
               tail2 == IF after = None /\ tail = f THEN before ELSE tail
           IN  /\ LinkedAs(l, RemoveFromFrameList(s, f), next2, prev2, head2,
                           IF head2 = None THEN None ELSE tail2)
               /\ next2[f] = None /\ prev2[f] = None
               /\ Elsewhere(s, f, next, prev, next2, prev2)
<1> DEFINE new == RemoveFromFrameList(s, f)
           n == Len(s)
           before == prev[f]
           after == next[f]
           next2 == [SetLink(next, before, after) EXCEPT ![f] = None]
           prev2 == [SetLink(prev, after, before) EXCEPT ![f] = None]
           head2 == IF before = None /\ head = f THEN after ELSE head
           tail2 == IF after = None /\ tail = f THEN before ELSE tail
<1>1. /\ n \in Nat /\ DOMAIN s = 1 .. n
      /\ \A i \in 1 .. n : s[i] \in Frames /\ s[i] # None /\ s[i] \in ToSet(s)
      /\ s = <<>> <=> n = 0
  BY HeadProperties
<1>2. PICK k \in 1 .. n :
          /\ s[k] = f /\ new \in Seq(Frames) /\ Len(new) = n - 1
          /\ \A i \in 1 .. n - 1 : new[i] = IF i < k THEN s[i] ELSE s[i + 1]
  <2>1. Contains(s, f)  BY <1>1 DEF ToSet, Contains
  <2>. QED  BY <2>1, RemoveFromFrameListElements
<1>3. f \in Frames /\ head = s[1] /\ tail = s[n]
  BY <1>1, <1>2 DEF LinkedAs, HeadIn, TailIn, PageoutLists
<1>4. \A i \in 1 .. n : /\ next[s[i]] = (IF i = n THEN None ELSE s[i + 1])
                        /\ prev[s[i]] = (IF i = 1 THEN None ELSE s[i - 1])
  BY DEF LinkedAs, NextIn, PrevIn, PageoutLists
<1>5. \A i, j \in 1 .. n : i # j => s[i] # s[j]
  BY OnePosition
<1>6. /\ before = (IF k = 1 THEN None ELSE s[k - 1])
      /\ after = (IF k = n THEN None ELSE s[k + 1])
  BY <1>2, <1>4
<1>. HIDE DEF new, n, before, after, next2, prev2, head2, tail2
<1>7. /\ before \in Frames \cup {None} /\ after \in Frames \cup {None}
      /\ before # f /\ after # f
  <2>1. k # 1 => k - 1 \in 1 .. n /\ k - 1 # k  BY <1>1
  <2>2. k # n => k + 1 \in 1 .. n /\ k + 1 # k  BY <1>1
  <2>. QED  BY <1>1, <1>2, <1>3, <1>5, <1>6, <2>1, <2>2, ListAssumption
<1>8. \A h \in Frames : next2[h] = IF h = f THEN None ELSE IF h = before THEN after ELSE next[h]
  BY <1>7, ListAssumption DEF SetLink, next2
<1>9. \A h \in Frames : prev2[h] = IF h = f THEN None ELSE IF h = after THEN before ELSE prev[h]
  BY <1>7, ListAssumption DEF SetLink, prev2
<1>10. new = <<>> <=> n = 1  BY <1>1, <1>2, HeadProperties
<1>11. head2 = HeadIn(new)
  <2>1. CASE k = 1
    <3>1. head2 = after  BY <1>2, <1>3, <1>6, <2>1 DEF head2
    <3>2. n # 1 => new[1] = s[2]  BY <1>1, <1>2, <2>1
    <3>. QED  BY <1>1, <1>6, <1>10, <2>1, <3>1, <3>2 DEF HeadIn
  <2>2. CASE k # 1
    <3>1. before # None  BY <1>1, <1>6, <2>2
    <3>2. n # 1 /\ new[1] = s[1]  BY <1>1, <1>2, <2>2
    <3>. QED  BY <1>3, <1>10, <3>1, <3>2 DEF HeadIn, head2
  <2>. QED  BY <2>1, <2>2
<1>12. (IF head2 = None THEN None ELSE tail2) = TailIn(l, new)
  <2>1. CASE n = 1  BY <1>10, <1>11, <2>1 DEF HeadIn, TailIn
  <2>2. CASE n # 1
    <3>1. head2 # None
      <4>1. new[1] \in Frames  BY <1>1, <1>2, <2>2
      <4>. QED  BY <1>10, <1>11, <2>2, <4>1, ListAssumption DEF HeadIn
    <3>2. tail2 = new[n - 1]
      <4>1. CASE k = n
        <5>1. tail2 = before  BY <1>2, <1>3, <1>6, <4>1 DEF tail2
        <5>. QED  BY <1>1, <1>2, <1>6, <2>2, <4>1, <5>1
      <4>2. CASE k # n
        <5>1. after # None  BY <1>1, <1>6, <4>2
        <5>2. tail2 = s[n]  BY <1>3, <5>1 DEF tail2
        <5>. QED  BY <1>1, <1>2, <2>2, <4>2, <5>2
      <4>. QED  BY <4>1, <4>2
    <3>. QED  BY <1>2, <1>10, <2>2, <3>1, <3>2 DEF TailIn, PageoutLists
  <2>. QED  BY <2>1, <2>2
<1>13. ASSUME NEW i \in 1 .. Len(new)
       PROVE  next2[new[i]] = NextIn(new, i) /\ prev2[new[i]] = PrevIn(l, new, i)
  <2>1. i \in 1 .. n - 1 /\ n - 1 = Len(new)  BY <1>2
  <2>2. CASE i < k
    <3>1. new[i] = s[i] /\ i \in 1 .. n /\ s[i] \in Frames /\ s[i] # f
      BY <1>1, <1>2, <1>5, <2>1, <2>2
    <3>2. next2[s[i]] = IF i = n - 1 THEN None ELSE new[i + 1]
      <4>1. CASE i = k - 1
        <5>1. next2[s[i]] = after  BY <1>6, <1>8, <3>1, <4>1
        <5>. QED  BY <1>1, <1>2, <1>6, <2>1, <4>1, <5>1
      <4>2. CASE i # k - 1
        <5>1. s[i] # before
          <6>1. k # 1 /\ k - 1 \in 1 .. n  BY <1>1, <2>1, <2>2
          <6>. QED  BY <1>5, <1>6, <3>1, <4>2, <6>1
        <5>2. next2[s[i]] = s[i + 1]  BY <1>1, <1>4, <1>8, <2>1, <3>1, <5>1
        <5>. QED  BY <1>1, <1>2, <2>1, <2>2, <4>2, <5>2
      <4>. QED  BY <4>1, <4>2
    <3>3. prev2[s[i]] = IF i = 1 THEN None ELSE new[i - 1]
      <4>1. s[i] # after
        <5>1. k # n => k + 1 \in 1 .. n /\ k + 1 # i  BY <1>1, <2>2
        <5>. QED  BY <1>1, <1>5, <1>6, <3>1, <5>1
      <4>2. prev2[s[i]] = IF i = 1 THEN None ELSE s[i - 1]  BY <1>4, <1>9, <3>1, <4>1
      <4>. QED  BY <1>1, <1>2, <2>1, <2>2, <4>2
    <3>. QED  BY <2>1, <3>1, <3>2, <3>3 DEF NextIn, PrevIn, PageoutLists
  <2>3. CASE i >= k
    <3>1. new[i] = s[i + 1] /\ i + 1 \in 1 .. n /\ s[i + 1] \in Frames /\ s[i + 1] # f
      BY <1>1, <1>2, <1>5, <2>1, <2>3
    <3>2. next2[s[i + 1]] = IF i = n - 1 THEN None ELSE new[i + 1]
      <4>1. s[i + 1] # before
        <5>1. k # 1 => k - 1 \in 1 .. n /\ k - 1 # i + 1  BY <1>1, <2>3
        <5>. QED  BY <1>1, <1>5, <1>6, <3>1, <5>1
      <4>2. next2[s[i + 1]] = IF i + 1 = n THEN None ELSE s[i + 1 + 1]
        BY <1>4, <1>8, <3>1, <4>1
      <4>. QED  BY <1>1, <1>2, <2>1, <2>3, <4>2
    <3>3. prev2[s[i + 1]] = IF i = 1 THEN None ELSE new[i - 1]
      <4>1. CASE i = k
        <5>1. prev2[s[i + 1]] = before  BY <1>1, <1>6, <1>9, <2>1, <3>1, <4>1
        <5>. QED  BY <1>1, <1>2, <1>6, <2>1, <4>1, <5>1
      <4>2. CASE i # k
        <5>1. s[i + 1] # after
          <6>1. k # n => k + 1 \in 1 .. n /\ k + 1 # i + 1  BY <1>1, <4>2
          <6>. QED  BY <1>1, <1>5, <1>6, <3>1, <6>1
        <5>2. prev2[s[i + 1]] = s[i + 1 - 1]  BY <1>1, <1>4, <1>9, <2>1, <3>1, <5>1
        <5>. QED  BY <1>1, <1>2, <2>1, <2>3, <4>2, <5>2
      <4>. QED  BY <4>1, <4>2
    <3>. QED  BY <2>1, <3>1, <3>2, <3>3 DEF NextIn, PrevIn, PageoutLists
  <2>. QED  BY <1>1, <2>1, <2>2, <2>3
<1>14. next2[f] = None /\ prev2[f] = None  BY <1>3, <1>8, <1>9
<1>15. \A h \in Frames : h \notin ToSet(s) => next2[h] = next[h] /\ prev2[h] = prev[h]
  <2>1. before \in ToSet(s) \cup {None} /\ after \in ToSet(s) \cup {None}
    BY <1>1, <1>6
  <2>. QED  BY <1>8, <1>9, <2>1, ListAssumption
<1>. QED  BY <1>11, <1>12, <1>13, <1>14, <1>15
          DEF LinkedAs, Elsewhere, new, next2, prev2, head2, tail2, before, after

-----------------------------------------------------------------------------
(* All lists.                                                              *)

(***************************************************************************)
(* While the free list is built, the other lists are empty and it holds    *)
(* only frames that have had their turn.                                   *)
(***************************************************************************)
Building ==
    linked < Len(PhysicalPageNumbers) =>
        /\ \A l \in ListNames \ {"free"} : contents[l] = <<>>
        /\ \A i \in linked + 1 .. Len(PhysicalPageNumbers) :
               PhysicalPageNumbers[i] \notin ToSet(contents["free"])

IInv == TypeOK /\ Represents /\ FlagsSayWhere /\ Building

(***************************************************************************)
(* A call that puts one frame into one list or takes it out, and changes   *)
(* no other frame's links, keeps all lists right if it keeps that one      *)
(* right.                                                                  *)
(***************************************************************************)
LEMMA OneListChanges ==
    ASSUME TypeOK, Represents, NEW l \in ListNames, NEW f \in Frames, NEW t \in Seq(Frames),
           contents' = [contents EXCEPT ![l] = t],
           IsInjective(t),
           Loose(f) \/ f \in ToSet(contents[l]),
           \/ ToSet(t) = ToSet(contents[l]) \cup {f}
           \/ ToSet(t) = ToSet(contents[l]) \ {f} /\ Unlinked(f)',
           \A m \in ListNames : m # l =>
               headFrame'[m] = headFrame[m] /\ tailFrame'[m] = tailFrame[m],
           LinkedAs(l, t, nextPFN', prevPFN', headFrame'[l], tailFrame'[l]),
           Elsewhere(contents[l], f, nextPFN, prevPFN, nextPFN', prevPFN')
    PROVE  Represents'
<1>1. contents \in [ListNames -> Seq(Frames)]  BY DEF TypeOK
<1>2. contents'[l] = t /\ \A m \in ListNames : m # l => contents'[m] = contents[m]
  BY <1>1
<1>3. /\ \A m \in ListNames : IsInjective(contents[m])
      /\ \A m, k \in ListNames : m # k => ToSet(contents[m]) \cap ToSet(contents[k]) = {}
  BY DEF Represents, ListsApart
<1>4. \A m \in ListNames : m # l => f \notin ToSet(contents[m])
  BY <1>3 DEF Loose
<1>5. ToSet(t) \subseteq ToSet(contents[l]) \cup {f} /\ ToSet(contents[l]) \ {f} \subseteq ToSet(t)
  OBVIOUS
<1>6. ListsApart'
  <2>1. \A m \in ListNames : IsInjective(contents'[m])
    BY <1>2, <1>3
  <2>2. \A m \in ListNames : m # l => ToSet(contents'[m]) \cap ToSet(t) = {}
    BY <1>2, <1>3, <1>4, <1>5
  <2>3. ASSUME NEW m \in ListNames, NEW k \in ListNames, m # k
        PROVE  ToSet(contents'[m]) \cap ToSet(contents'[k]) = {}
    <3>1. CASE m = l  BY <1>2, <2>2, <2>3, <3>1
    <3>2. CASE k = l  BY <1>2, <2>2, <2>3, <3>2
    <3>3. CASE m # l /\ k # l  BY <1>2, <1>3, <2>3, <3>3
    <3>. QED  BY <3>1, <3>2, <3>3
  <2>. QED  BY <2>1, <2>3 DEF ListsApart
<1>7. ListsLinked'
  <2>1. Linked(l)'  BY <1>2 DEF Linked
  <2>2. ASSUME NEW m \in ListNames, m # l  PROVE Linked(m)'
    <3>1. contents[m] \in Seq(Frames) /\ contents'[m] = contents[m]  BY <1>1, <1>2, <2>2
    <3>2. LinkedAs(m, contents[m], nextPFN, prevPFN, headFrame[m], tailFrame[m])
      BY DEF Represents, ListsLinked, Linked
    <3>3. \A g \in ToSet(contents[m]) : g \in Frames /\ g \notin ToSet(contents[l]) /\ g # f
      <4>1. ToSet(contents[m]) \subseteq Frames  BY <3>1, LenProperties, ElementOfSeq DEF ToSet
      <4>. QED  BY <1>3, <1>4, <2>2, <4>1
    <3>4. LinkedAs(m, contents[m], nextPFN', prevPFN', headFrame[m], tailFrame[m])
      BY <3>1, <3>2, <3>3, OtherLinksChange DEF Elsewhere
    <3>5. headFrame'[m] = headFrame[m] /\ tailFrame'[m] = tailFrame[m]  BY <2>2
    <3>. QED  BY <3>1, <3>4, <3>5 DEF Linked
  <2>. QED  BY <2>1, <2>2 DEF ListsLinked
<1>8. ASSUME NEW g \in Frames, Loose(g)'  PROVE Unlinked(g)'
  <2>1. g \notin ToSet(t) /\ \A m \in ListNames : m # l => g \notin ToSet(contents[m])
    BY <1>2, <1>8 DEF Loose
  <2>2. CASE g = f
    <3>1. ToSet(t) # ToSet(contents[l]) \cup {f}  BY <2>1, <2>2
    <3>. QED  BY <2>2, <3>1
  <2>3. CASE g # f
    <3>1. g \notin ToSet(contents[l])  BY <1>5, <2>1, <2>3
    <3>2. Loose(g)  BY <2>1, <3>1 DEF Loose
    <3>3. Unlinked(g)  BY <3>2 DEF Represents
    <3>. QED  BY <2>3, <3>1, <3>3 DEF Unlinked, Elsewhere
  <2>. QED  BY <2>2, <2>3
<1>. QED  BY <1>6, <1>7, <1>8 DEF Represents

(***************************************************************************)
(* What the invariant says of one list.                                    *)
(***************************************************************************)
LEMMA ListFacts ==
    ASSUME TypeOK, Represents, NEW l \in ListNames
    PROVE  /\ contents[l] \in Seq(Frames) /\ IsInjective(contents[l])
           /\ LinkedAs(l, contents[l], nextPFN, prevPFN, headFrame[l], tailFrame[l])
           /\ nextPFN \in [Frames -> Frames \cup {None}]
           /\ prevPFN \in [Frames -> Frames \cup {None}]
           /\ headFrame[l] \in Frames \cup {None} /\ tailFrame[l] \in Frames \cup {None}
           /\ ToSet(contents[l]) \subseteq Frames
<1>1. contents[l] \in Seq(Frames)  BY DEF TypeOK
<1>2. ToSet(contents[l]) \subseteq Frames  BY <1>1, LenProperties, ElementOfSeq DEF ToSet
<1>. QED  BY <1>1, <1>2 DEF TypeOK, Represents, ListsLinked, ListsApart, Linked

(***************************************************************************)
(* The next frame of physical_page_numbers goes to the free list.          *)
(***************************************************************************)
LEMMA LinkFreeStep ==
    ASSUME IInv, LinkFree
    PROVE  IInv'
<1> DEFINE f == PhysicalPageNumbers[linked + 1]
           s == contents["free"]
           t == AddToFrameList(s, f)
<1>1. TypeOK /\ Represents /\ FlagsSayWhere /\ Building  BY DEF IInv
<1>2. /\ linked \in Nat /\ linked < Len(PhysicalPageNumbers)
      /\ Len(PhysicalPageNumbers) \in Nat /\ linked + 1 \in 1 .. Len(PhysicalPageNumbers)
      /\ DOMAIN PhysicalPageNumbers = 1 .. Len(PhysicalPageNumbers)
  BY <1>1, ListAssumption, LenProperties DEF TypeOK, LinkFree
<1>3. f \in Frames  BY <1>2 DEF Frames
<1>4. "free" \in ListNames  BY DEF ListNames
<1>5. /\ s \in Seq(Frames) /\ IsInjective(s)
      /\ LinkedAs("free", s, nextPFN, prevPFN, headFrame["free"], tailFrame["free"])
      /\ nextPFN \in [Frames -> Frames \cup {None}] /\ prevPFN \in [Frames -> Frames \cup {None}]
      /\ headFrame["free"] \in Frames \cup {None}
  BY <1>1, <1>4, ListFacts
<1>6. Loose(f)
  <2>1. \A l \in ListNames : l # "free" => contents[l] = <<>>  BY <1>1, <1>2 DEF Building
  <2>2. f \notin ToSet(s)  BY <1>1, <1>2 DEF Building
  <2>3. ToSet(<<>>) = {}  BY DEF ToSet
  <2>. QED  BY <2>1, <2>2, <2>3 DEF Loose
<1>7. prevPFN[f] = None  BY <1>1, <1>3, <1>6 DEF Represents, Unlinked
<1>8. /\ f \notin ToSet(s)
      /\ \A l \in ListNames : f \notin ToSet(contents[l])
  BY <1>4, <1>6 DEF Loose
<1>. HIDE DEF f, s
<1>9. t \in Seq(Frames) /\ ToSet(t) = ToSet(s) \cup {f} /\ IsInjective(t)
  BY <1>3, <1>5, <1>8, AddToFrameListProperties
<1>10. /\ nextPFN' = [nextPFN EXCEPT ![f] = headFrame["free"]] /\ prevPFN' = prevPFN
       /\ headFrame' = [headFrame EXCEPT !["free"] = f] /\ tailFrame' = tailFrame
       /\ contents' = [contents EXCEPT !["free"] = t]
       /\ isOnModifiedList' = [isOnModifiedList EXCEPT ![f] = FALSE]
       /\ isOnStandbyList' = isOnStandbyList /\ linked' = linked + 1
       /\ length' = [length EXCEPT !["free"] = (@ + 1) % LengthModulus]
       /\ absentRemovals' = absentRemovals
  BY DEF LinkFree, Longer, f, s
<1>11. LinkedAs("free", t, nextPFN', prevPFN', f, tailFrame["free"])
  BY <1>3, <1>5, <1>7, <1>8, <1>10, AddFreeLinks
<1>. HIDE DEF t
<1>12. TypeOK'
  <2>1. \A n \in 0 .. LengthModulus - 1 : (n + 1) % LengthModulus \in 0 .. LengthModulus - 1
    BY ListAssumption
  <2>2. length' \in [ListNames -> 0 .. LengthModulus - 1]
    BY <1>1, <1>4, <1>10, <2>1 DEF TypeOK
  <2>3. contents' \in [ListNames -> Seq(Frames)]  BY <1>1, <1>9, <1>10 DEF TypeOK
  <2>4. linked' \in 0 .. Len(PhysicalPageNumbers)  BY <1>2, <1>10
  <2>5. /\ nextPFN' \in [Frames -> Frames \cup {None}]
        /\ headFrame' \in [ListNames -> Frames \cup {None}]
        /\ isOnModifiedList' \in [Frames -> BOOLEAN]
    BY <1>1, <1>3, <1>5, <1>10 DEF TypeOK
  <2>. QED  BY <1>1, <1>10, <2>2, <2>3, <2>4, <2>5 DEF TypeOK
<1>13. Represents'
  <2>1. headFrame'["free"] = f /\ tailFrame'["free"] = tailFrame["free"]
    BY <1>1, <1>4, <1>10 DEF TypeOK
  <2>2. LinkedAs("free", t, nextPFN', prevPFN', headFrame'["free"], tailFrame'["free"])
    BY <1>11, <2>1
  <2>3. \A m \in ListNames : m # "free" =>
            headFrame'[m] = headFrame[m] /\ tailFrame'[m] = tailFrame[m]
    BY <1>1, <1>10 DEF TypeOK
  <2>4. Elsewhere(contents["free"], f, nextPFN, prevPFN, nextPFN', prevPFN')
    BY <1>5, <1>10 DEF Elsewhere
  <2>. QED
    BY <1>1, <1>3, <1>4, <1>6, <1>9, <1>10, <2>2, <2>3, <2>4, OneListChanges DEF s
<1>14. FlagsSayWhere'
  <2>1. contents'["modified"] = contents["modified"] /\ contents'["standby"] = contents["standby"]
    BY <1>1, <1>10 DEF TypeOK, ListNames
  <2>2. ~isOnModifiedList[f]  BY <1>1, <1>3, <1>8 DEF FlagsSayWhere, ListNames
  <2>. QED  BY <1>1, <1>3, <1>10, <2>1, <2>2 DEF FlagsSayWhere, TypeOK
<1>15. Building'
  <2>1. contents'["free"] = t /\ \A m \in ListNames : m # "free" => contents'[m] = contents[m]
    BY <1>1, <1>4, <1>10 DEF TypeOK
  <2>2. ASSUME NEW i \in linked + 2 .. Len(PhysicalPageNumbers)
        PROVE  PhysicalPageNumbers[i] \notin ToSet(t)
    <3>1. i \in linked + 1 .. Len(PhysicalPageNumbers) /\ i # linked + 1
          /\ i \in 1 .. Len(PhysicalPageNumbers)
      BY <1>2
    <3>2. PhysicalPageNumbers[i] \notin ToSet(s)  BY <1>1, <1>2, <3>1 DEF Building, s
    <3>3. PhysicalPageNumbers[i] # f  BY <1>2, <3>1, ListAssumption DEF IsInjective, f
    <3>. QED  BY <1>9, <3>2, <3>3
  <2>3. linked' + 1 = linked + 2  BY <1>2, <1>10
  <2>. QED  BY <1>1, <1>2, <2>1, <2>2, <2>3 DEF Building
<1>. QED  BY <1>12, <1>13, <1>14, <1>15 DEF IInv

(***************************************************************************)
(* The end of a run empties everything.                                    *)
(***************************************************************************)
LEMMA EmptyLists ==
    ASSUME NEW next, NEW prev, NEW l
    PROVE  LinkedAs(l, <<>>, next, prev, None, None) /\ ToSet(<<>>) = {} /\ IsInjective(<<>>)
<1>1. Len(<<>>) = 0 /\ DOMAIN <<>> = {}  OBVIOUS
<1>2. IsInjective(<<>>) /\ ToSet(<<>>) = {}  BY <1>1 DEF IsInjective, ToSet
<1>3. HeadIn(<<>>) = None /\ TailIn(l, <<>>) = None  BY DEF HeadIn, TailIn
<1>. QED  BY <1>1, <1>2, <1>3 DEF LinkedAs

(***************************************************************************)
(* The length of a list stays a ULONG64, and flags stay flags.             *)
(***************************************************************************)
LEMMA FieldsTyped ==
    ASSUME TypeOK, NEW l \in ListNames, NEW f \in Frames
    PROVE  /\ Longer(l) \/ Shorter(l) => length' \in [ListNames -> 0 .. LengthModulus - 1]
           /\ FlagOn(l, f) \/ FlagOff(l, f) =>
                  /\ isOnModifiedList' \in [Frames -> BOOLEAN]
                  /\ isOnStandbyList' \in [Frames -> BOOLEAN]
<1>1. \A n \in 0 .. LengthModulus - 1 :
          /\ (n + 1) % LengthModulus \in 0 .. LengthModulus - 1
          /\ (n - 1) % LengthModulus \in 0 .. LengthModulus - 1
  BY ListAssumption
<1>2. Longer(l) \/ Shorter(l) => length' \in [ListNames -> 0 .. LengthModulus - 1]
  <2>1. length[l] \in 0 .. LengthModulus - 1 /\ length \in [ListNames -> 0 .. LengthModulus - 1]
    BY DEF TypeOK
  <2>2. CASE Longer(l)
    <3>1. (length[l] + 1) % LengthModulus \in 0 .. LengthModulus - 1  BY <1>1, <2>1
    <3>. QED  BY <2>1, <2>2, <3>1 DEF Longer
  <2>3. CASE Shorter(l)
    <3>1. (length[l] - 1) % LengthModulus \in 0 .. LengthModulus - 1  BY <1>1, <2>1
    <3>. QED  BY <2>1, <2>3, <3>1 DEF Shorter
  <2>. QED  BY <2>2, <2>3
<1>3. FlagOn(l, f) \/ FlagOff(l, f) =>
          isOnModifiedList' \in [Frames -> BOOLEAN] /\ isOnStandbyList' \in [Frames -> BOOLEAN]
  BY DEF TypeOK, FlagOn, FlagOff, flags
<1>. QED  BY <1>2, <1>3

(***************************************************************************)
(* addToFrameList keeps the invariant.                                     *)
(***************************************************************************)
LEMMA AddHeadStep ==
    ASSUME IInv, NEW l \in PageoutLists, NEW f \in Frames, AddHead(l, f)
    PROVE  IInv'
<1> DEFINE s == contents[l]
           t == AddToFrameList(s, f)
<1>1. TypeOK /\ Represents /\ FlagsSayWhere  BY DEF IInv
<1>2. l \in ListNames  BY DEF ListNames, PageoutLists
<1>3. /\ s \in Seq(Frames) /\ IsInjective(s)
      /\ LinkedAs(l, s, nextPFN, prevPFN, headFrame[l], tailFrame[l])
      /\ nextPFN \in [Frames -> Frames \cup {None}] /\ prevPFN \in [Frames -> Frames \cup {None}]
      /\ headFrame[l] \in Frames \cup {None} /\ tailFrame[l] \in Frames \cup {None}
  BY <1>1, <1>2, ListFacts
<1>4. Loose(f) /\ \A m \in ListNames : f \notin ToSet(contents[m])
  BY DEF AddHead, Loose
<1>5. f \notin ToSet(s)  BY <1>2, <1>4
<1>6. /\ nextPFN' = [nextPFN EXCEPT ![f] = headFrame[l]]
      /\ prevPFN' = SetLink([prevPFN EXCEPT ![f] = None], headFrame[l], f)
      /\ headFrame' = [headFrame EXCEPT ![l] = f]
      /\ tailFrame' = [tailFrame EXCEPT ![l] = IF tailFrame[l] = None THEN f ELSE tailFrame[l]]
      /\ contents' = [contents EXCEPT ![l] = t]
      /\ Longer(l) /\ FlagOn(l, f)
      /\ linked' = linked /\ absentRemovals' = absentRemovals /\ Built
  BY DEF AddHead, TailAfterAdd
<1>. HIDE DEF s
<1>7. t \in Seq(Frames) /\ ToSet(t) = ToSet(s) \cup {f} /\ IsInjective(t)
  BY <1>3, <1>5, AddToFrameListProperties
<1>8. /\ LinkedAs(l, t, nextPFN', prevPFN', f,
                  IF tailFrame[l] = None THEN f ELSE tailFrame[l])
      /\ Elsewhere(s, f, nextPFN, prevPFN, nextPFN', prevPFN')
  <2>1. /\ LinkedAs(l, t, [nextPFN EXCEPT ![f] = headFrame[l]],
                  SetLink([prevPFN EXCEPT ![f] = None], headFrame[l], f), f,
                  IF tailFrame[l] = None THEN f ELSE tailFrame[l])
        /\ Elsewhere(s, f, nextPFN, prevPFN, [nextPFN EXCEPT ![f] = headFrame[l]],
                  SetLink([prevPFN EXCEPT ![f] = None], headFrame[l], f))
    BY <1>3, <1>5, AddLinks, Zenon
  <2>. QED  BY <2>1, <1>6
<1>. HIDE DEF t
<1>9. prevPFN' \in [Frames -> Frames \cup {None}]
  BY <1>3, <1>6 DEF SetLink
<1>10. TypeOK'
  <2>1. contents' \in [ListNames -> Seq(Frames)]  BY <1>1, <1>6, <1>7 DEF TypeOK
  <2>2. /\ nextPFN' \in [Frames -> Frames \cup {None}]
        /\ headFrame' \in [ListNames -> Frames \cup {None}]
        /\ tailFrame' \in [ListNames -> Frames \cup {None}]
    BY <1>1, <1>3, <1>6 DEF TypeOK
  <2>. QED  BY <1>1, <1>2, <1>6, <1>9, <2>1, <2>2, FieldsTyped DEF TypeOK
<1>11. Represents'
  <2>1. /\ headFrame'[l] = f
        /\ tailFrame'[l] = (IF tailFrame[l] = None THEN f ELSE tailFrame[l])
        /\ \A m \in ListNames : m # l =>
               headFrame'[m] = headFrame[m] /\ tailFrame'[m] = tailFrame[m]
    BY <1>1, <1>2, <1>6 DEF TypeOK
  <2>2. LinkedAs(l, t, nextPFN', prevPFN', headFrame'[l], tailFrame'[l])
    BY <1>8, <2>1
  <2>. QED
    BY <1>1, <1>2, <1>4, <1>6, <1>7, <1>8, <2>1, <2>2, OneListChanges DEF s
<1>12. FlagsSayWhere'
  <2>1. \A m \in ListNames : ToSet(contents'[m]) =
            IF m = l THEN ToSet(contents[m]) \cup {f} ELSE ToSet(contents[m])
    BY <1>1, <1>2, <1>6, <1>7 DEF TypeOK, s
  <2>2. /\ isOnModifiedList' = [isOnModifiedList EXCEPT ![f] = l = "modified"]
        /\ isOnStandbyList' = [isOnStandbyList EXCEPT ![f] = l = "standby"]
    BY <1>6 DEF FlagOn
  <2>3. \A g \in Frames : g # f =>
            isOnModifiedList'[g] = isOnModifiedList[g] /\ isOnStandbyList'[g] = isOnStandbyList[g]
    BY <1>1, <2>2 DEF TypeOK
  <2>4. /\ isOnModifiedList'[f] <=> l = "modified"
        /\ isOnStandbyList'[f] <=> l = "standby"
    BY <1>1, <2>2 DEF TypeOK
  <2>5. "modified" \in ListNames /\ "standby" \in ListNames  BY DEF ListNames
  <2>6. ASSUME NEW g \in Frames
        PROVE  /\ isOnModifiedList'[g] <=> g \in ToSet(contents'["modified"])
               /\ isOnStandbyList'[g] <=> g \in ToSet(contents'["standby"])
    <3>1. CASE g = f  BY <1>4, <2>1, <2>4, <2>5, <3>1
    <3>2. CASE g # f  BY <1>1, <2>1, <2>3, <2>5, <3>2 DEF FlagsSayWhere
    <3>. QED  BY <3>1, <3>2
  <2>. QED  BY <2>6 DEF FlagsSayWhere
<1>13. Building'
  BY <1>6, ListAssumption, LenProperties DEF Building, Built
<1>. QED  BY <1>10, <1>11, <1>12, <1>13 DEF IInv

(***************************************************************************)
(* addToFrameListTail keeps the invariant.                                 *)
(***************************************************************************)
LEMMA AddTailStep ==
    ASSUME IInv, NEW f \in Frames, AddTail(f)
    PROVE  IInv'
<1> DEFINE s == contents["active"]
           t == AddToFrameListTail(s, f)
           last == tailFrame["active"]
<1>1. TypeOK /\ Represents /\ FlagsSayWhere  BY DEF IInv
<1>2. "active" \in ListNames  BY DEF ListNames
<1>3. /\ s \in Seq(Frames) /\ IsInjective(s)
      /\ LinkedAs("active", s, nextPFN, prevPFN, headFrame["active"], last)
      /\ nextPFN \in [Frames -> Frames \cup {None}] /\ prevPFN \in [Frames -> Frames \cup {None}]
      /\ headFrame["active"] \in Frames \cup {None} /\ last \in Frames \cup {None}
  BY <1>1, <1>2, ListFacts
<1>4. Loose(f) /\ \A m \in ListNames : f \notin ToSet(contents[m])
  BY DEF AddTail, Loose
<1>5. f \notin ToSet(s)  BY <1>2, <1>4
<1>6. /\ nextPFN' = SetLink([nextPFN EXCEPT ![f] = None], last, f)
      /\ prevPFN' = [prevPFN EXCEPT ![f] = last]
      /\ headFrame' = [headFrame EXCEPT !["active"] = IF last = None THEN f ELSE @]
      /\ tailFrame' = [tailFrame EXCEPT !["active"] = f]
      /\ contents' = [contents EXCEPT !["active"] = t]
      /\ Longer("active") /\ FlagOn("active", f)
      /\ linked' = linked /\ absentRemovals' = absentRemovals /\ Built
  BY DEF AddTail
<1>. HIDE DEF s, last
<1>7. t \in Seq(Frames) /\ ToSet(t) = ToSet(s) \cup {f} /\ IsInjective(t)
  BY <1>3, <1>5, AddToFrameListTailProperties
<1>8. /\ LinkedAs("active", t, nextPFN', prevPFN', IF last = None THEN f ELSE headFrame["active"], f)
      /\ Elsewhere(s, f, nextPFN, prevPFN, nextPFN', prevPFN')
  <2>1. /\ LinkedAs("active", t, SetLink([nextPFN EXCEPT ![f] = None], last, f),
                  [prevPFN EXCEPT ![f] = last], IF last = None THEN f ELSE headFrame["active"], f)
        /\ Elsewhere(s, f, nextPFN, prevPFN, SetLink([nextPFN EXCEPT ![f] = None], last, f),
                  [prevPFN EXCEPT ![f] = last])
    BY <1>3, <1>5, AddTailLinks, Zenon
  <2>. QED  BY <2>1, <1>6
<1>. HIDE DEF t
<1>9. nextPFN' \in [Frames -> Frames \cup {None}]
  BY <1>3, <1>6 DEF SetLink
<1>10. TypeOK'
  <2>1. contents' \in [ListNames -> Seq(Frames)]  BY <1>1, <1>6, <1>7 DEF TypeOK
  <2>2. /\ prevPFN' \in [Frames -> Frames \cup {None}]
        /\ headFrame' \in [ListNames -> Frames \cup {None}]
        /\ tailFrame' \in [ListNames -> Frames \cup {None}]
    BY <1>1, <1>3, <1>6 DEF TypeOK
  <2>. QED  BY <1>1, <1>2, <1>6, <1>9, <2>1, <2>2, FieldsTyped DEF TypeOK
<1>11. Represents'
  <2>1. /\ headFrame'["active"] = (IF last = None THEN f ELSE headFrame["active"])
        /\ tailFrame'["active"] = f
        /\ \A m \in ListNames : m # "active" =>
               headFrame'[m] = headFrame[m] /\ tailFrame'[m] = tailFrame[m]
    BY <1>1, <1>2, <1>6 DEF TypeOK
  <2>2. LinkedAs("active", t, nextPFN', prevPFN', headFrame'["active"], tailFrame'["active"])
    BY <1>8, <2>1
  <2>. QED
    BY <1>1, <1>2, <1>4, <1>6, <1>7, <1>8, <2>1, <2>2, OneListChanges DEF s
<1>12. FlagsSayWhere'
  <2>1. contents'["modified"] = contents["modified"] /\ contents'["standby"] = contents["standby"]
    BY <1>1, <1>6 DEF TypeOK, ListNames
  <2>2. UNCHANGED flags  BY <1>6 DEF FlagOn, PageoutLists
  <2>. QED  BY <1>1, <2>1, <2>2 DEF FlagsSayWhere, flags
<1>13. Building'
  BY <1>6, ListAssumption, LenProperties DEF Building, Built
<1>. QED  BY <1>10, <1>11, <1>12, <1>13 DEF IInv

(***************************************************************************)
(* Taking a frame off its list takes its flag as well.                     *)
(***************************************************************************)
LEMMA FlagOffFlags ==
    ASSUME TypeOK, Represents, FlagsSayWhere, NEW l \in ListNames, NEW f \in ToSet(contents[l]),
           f \in Frames, FlagOff(l, f),
           \A m \in ListNames : ToSet(contents'[m]) =
               IF m = l THEN ToSet(contents[m]) \ {f} ELSE ToSet(contents[m])
    PROVE  FlagsSayWhere'
<1>1. /\ isOnModifiedList' = [isOnModifiedList EXCEPT ![f] = @ /\ l # "modified"]
      /\ isOnStandbyList' = [isOnStandbyList EXCEPT ![f] = @ /\ l # "standby"]
  BY DEF FlagOff
<1>2. \A g \in Frames : g # f =>
          isOnModifiedList'[g] = isOnModifiedList[g] /\ isOnStandbyList'[g] = isOnStandbyList[g]
  BY <1>1 DEF TypeOK
<1>3. /\ isOnModifiedList'[f] <=> isOnModifiedList[f] /\ l # "modified"
      /\ isOnStandbyList'[f] <=> isOnStandbyList[f] /\ l # "standby"
  BY <1>1 DEF TypeOK
<1>4. "modified" \in ListNames /\ "standby" \in ListNames  BY DEF ListNames
<1>5. \A m \in ListNames : m # l => f \notin ToSet(contents[m])
  BY DEF Represents, ListsApart
<1>6. ASSUME NEW g \in Frames
      PROVE  /\ isOnModifiedList'[g] <=> g \in ToSet(contents'["modified"])
             /\ isOnStandbyList'[g] <=> g \in ToSet(contents'["standby"])
  <2>1. CASE g = f
    <3>1. /\ g \in ToSet(contents'["modified"]) <=> g \in ToSet(contents["modified"]) /\ l # "modified"
          /\ g \in ToSet(contents'["standby"]) <=> g \in ToSet(contents["standby"]) /\ l # "standby"
      BY <1>4, <1>5, <2>1
    <3>2. /\ isOnModifiedList[g] <=> g \in ToSet(contents["modified"])
          /\ isOnStandbyList[g] <=> g \in ToSet(contents["standby"])
      BY DEF FlagsSayWhere
    <3>. QED  BY <1>3, <2>1, <3>1, <3>2
  <2>2. CASE g # f
    BY <1>2, <1>4, <2>2 DEF FlagsSayWhere
  <2>. QED  BY <2>1, <2>2
<1>. QED  BY <1>6 DEF FlagsSayWhere

(***************************************************************************)
(* popFirstFrame keeps the invariant.                                      *)
(***************************************************************************)
LEMMA PopFirstStep ==
    ASSUME IInv, NEW l \in ListNames, PopFirst(l)
    PROVE  IInv'
<1> DEFINE s == contents[l]
           t == AfterPop(s, 1)
           f == headFrame[l]
           g == nextPFN[f]
<1>1. TypeOK /\ Represents /\ FlagsSayWhere  BY DEF IInv
<1>2. /\ s \in Seq(Frames) /\ IsInjective(s)
      /\ LinkedAs(l, s, nextPFN, prevPFN, f, tailFrame[l])
      /\ nextPFN \in [Frames -> Frames \cup {None}] /\ prevPFN \in [Frames -> Frames \cup {None}]
      /\ tailFrame[l] \in Frames \cup {None}
  BY <1>1, ListFacts
<1>3. s # <<>>
  <2>1. f # None /\ f = HeadIn(s)  BY <1>2 DEF PopFirst, LinkedAs
  <2>. QED  BY <1>2, <2>1, HeadProperties
<1>4. /\ nextPFN' = [nextPFN EXCEPT ![f] = None]
      /\ prevPFN' = [SetLink(prevPFN, g, None) EXCEPT ![f] = None]
      /\ headFrame' = [headFrame EXCEPT ![l] = g]
      /\ tailFrame' = [tailFrame EXCEPT ![l] = IF g = None THEN None ELSE tailFrame[l]]
      /\ contents' = [contents EXCEPT ![l] = t]
      /\ Shorter(l) /\ FlagOff(l, f)
      /\ linked' = linked /\ absentRemovals' = absentRemovals /\ Built
  BY DEF PopFirst
<1>. HIDE DEF s, f
<1>5. /\ f = s[1] /\ f \in Frames
      /\ LinkedAs(l, t, nextPFN', prevPFN', g, IF g = None THEN None ELSE tailFrame[l])
      /\ nextPFN'[f] = None /\ prevPFN'[f] = None
      /\ Elsewhere(s, f, nextPFN, prevPFN, nextPFN', prevPFN')
  <2> DEFINE next2 == [nextPFN EXCEPT ![f] = None]
             prev2 == [SetLink(prevPFN, g, None) EXCEPT ![f] = None]
  <2>1. /\ f = s[1] /\ f \in Frames
        /\ LinkedAs(l, t, next2, prev2, g, IF g = None THEN None ELSE tailFrame[l])
        /\ next2[f] = None /\ prev2[f] = None
        /\ Elsewhere(s, f, nextPFN, prevPFN, next2, prev2)
    BY <1>2, <1>3, PopLinks, Zenon
  <2>. HIDE DEF next2, prev2, t, g
  <2>2. nextPFN' = next2 /\ prevPFN' = prev2  BY <1>4 DEF next2, prev2, g
  <2>. QED  BY <2>1, <2>2
<1>6. /\ f \in ToSet(s) /\ t \in Seq(Frames) /\ IsInjective(t)
      /\ ToSet(t) = ToSet(s) \ {f}
  <2>1. /\ s[1] \in ToSet(s) /\ t \in Seq(Frames) /\ IsInjective(t)
        /\ ToSet(s) = ToSet(t) \cup {s[1]} /\ s[1] \notin ToSet(t)
    BY <1>2, <1>3, PopFirstProperties
  <2>. QED  BY <1>5, <2>1
<1>. HIDE DEF t
<1>7. g \in Frames \cup {None}  BY <1>2, <1>5
<1>. HIDE DEF g
<1>8. TypeOK'
  <2>1. contents' \in [ListNames -> Seq(Frames)]  BY <1>1, <1>4, <1>6 DEF TypeOK
  <2>2. /\ nextPFN' \in [Frames -> Frames \cup {None}]
        /\ headFrame' \in [ListNames -> Frames \cup {None}]
        /\ tailFrame' \in [ListNames -> Frames \cup {None}]
    BY <1>1, <1>2, <1>4, <1>7 DEF TypeOK
  <2>3. prevPFN' \in [Frames -> Frames \cup {None}]
    BY <1>2, <1>4 DEF SetLink
  <2>. QED  BY <1>1, <1>4, <1>5, <2>1, <2>2, <2>3, FieldsTyped DEF TypeOK
<1>9. Represents'
  <2>1. /\ headFrame'[l] = g
        /\ tailFrame'[l] = (IF g = None THEN None ELSE tailFrame[l])
        /\ \A m \in ListNames : m # l =>
               headFrame'[m] = headFrame[m] /\ tailFrame'[m] = tailFrame[m]
    BY <1>1, <1>4 DEF TypeOK
  <2>2. LinkedAs(l, t, nextPFN', prevPFN', headFrame'[l], tailFrame'[l])
    BY <1>5, <2>1
  <2>3. PICK h \in Frames : h = f  BY <1>5
  <2>4. Unlinked(h)'  BY <1>5, <2>3 DEF Unlinked
  <2>5. ToSet(t) = ToSet(contents[l]) \ {h} /\ h \in ToSet(contents[l])
    BY <1>6, <2>3 DEF s
  <2>6. Elsewhere(contents[l], h, nextPFN, prevPFN, nextPFN', prevPFN')
    BY <1>5, <2>3 DEF s
  <2>. QED
    BY <1>1, <1>4, <1>6, <2>1, <2>2, <2>4, <2>5, <2>6, OneListChanges
<1>10. FlagsSayWhere'
  <2>1. \A m \in ListNames : ToSet(contents'[m]) =
            IF m = l THEN ToSet(contents[m]) \ {f} ELSE ToSet(contents[m])
    BY <1>1, <1>4, <1>6 DEF TypeOK, s
  <2>. QED  BY <1>1, <1>4, <1>5, <1>6, <2>1, FlagOffFlags DEF s
<1>11. Building'
  BY <1>4, ListAssumption, LenProperties DEF Building, Built
<1>. QED  BY <1>8, <1>9, <1>10, <1>11 DEF IInv

(***************************************************************************)
(* removeFromFrameList keeps the invariant when the frame is in the list.  *)
(***************************************************************************)
LEMMA RemoveListedStep ==
    ASSUME IInv, NEW l \in PageoutLists, NEW f \in Frames, RemoveListed(l, f)
    PROVE  IInv'
<1> DEFINE s == contents[l]
           t == RemoveFromFrameList(s, f)
           before == prevPFN[f]
           after == nextPFN[f]
           next2 == [SetLink(nextPFN, before, after) EXCEPT ![f] = None]
           prev2 == [SetLink(prevPFN, after, before) EXCEPT ![f] = None]
           head2 == IF before = None /\ headFrame[l] = f THEN after ELSE headFrame[l]
           tail2 == IF after = None /\ tailFrame[l] = f THEN before ELSE tailFrame[l]
<1>1. TypeOK /\ Represents /\ FlagsSayWhere  BY DEF IInv
<1>2. l \in ListNames  BY DEF ListNames, PageoutLists
<1>3. /\ s \in Seq(Frames) /\ IsInjective(s)
      /\ LinkedAs(l, s, nextPFN, prevPFN, headFrame[l], tailFrame[l])
      /\ nextPFN \in [Frames -> Frames \cup {None}] /\ prevPFN \in [Frames -> Frames \cup {None}]
      /\ headFrame[l] \in Frames \cup {None} /\ tailFrame[l] \in Frames \cup {None}
  BY <1>1, <1>2, ListFacts
<1>4. f \in ToSet(s)  BY DEF RemoveListed
<1>5. /\ nextPFN' = next2 /\ prevPFN' = prev2
      /\ headFrame' = [headFrame EXCEPT ![l] = head2]
      /\ tailFrame' = [tailFrame EXCEPT ![l] = IF head2 = None THEN None ELSE tail2]
      /\ contents' = [contents EXCEPT ![l] = t]
      /\ Shorter(l) /\ FlagOff(l, f)
      /\ linked' = linked /\ absentRemovals' = absentRemovals /\ Built
  BY DEF RemoveListed, Unlink
<1>6. /\ LinkedAs(l, t, next2, prev2, head2, IF head2 = None THEN None ELSE tail2)
      /\ next2[f] = None /\ prev2[f] = None
      /\ Elsewhere(s, f, nextPFN, prevPFN, next2, prev2)
  BY <1>3, <1>4, RemoveLinks, Zenon
<1>7. t \in Seq(Frames) /\ IsInjective(t) /\ ToSet(t) = ToSet(s) \ {f}
  BY <1>3, RemoveFromFrameListProperties
<1>8. /\ head2 \in Frames \cup {None} /\ tail2 \in Frames \cup {None}
      /\ next2 \in [Frames -> Frames \cup {None}] /\ prev2 \in [Frames -> Frames \cup {None}]
  BY <1>3 DEF SetLink
<1>. HIDE DEF t, head2, tail2, next2, prev2
<1>9. TypeOK'
  <2>1. contents' \in [ListNames -> Seq(Frames)]  BY <1>1, <1>5, <1>7 DEF TypeOK
  <2>2. /\ headFrame' \in [ListNames -> Frames \cup {None}]
        /\ tailFrame' \in [ListNames -> Frames \cup {None}]
    BY <1>1, <1>5, <1>8 DEF TypeOK
  <2>. QED  BY <1>1, <1>2, <1>5, <1>8, <2>1, <2>2, FieldsTyped DEF TypeOK
<1>10. Represents'
  <2>1. /\ headFrame'[l] = head2
        /\ tailFrame'[l] = (IF head2 = None THEN None ELSE tail2)
        /\ \A m \in ListNames : m # l =>
               headFrame'[m] = headFrame[m] /\ tailFrame'[m] = tailFrame[m]
    BY <1>1, <1>2, <1>5 DEF TypeOK
  <2>2. LinkedAs(l, t, nextPFN', prevPFN', headFrame'[l], tailFrame'[l])
    BY <1>5, <1>6, <2>1
  <2>3. Unlinked(f)'  BY <1>5, <1>6 DEF Unlinked
  <2>4. Elsewhere(contents[l], f, nextPFN, prevPFN, nextPFN', prevPFN')
    BY <1>5, <1>6
  <2>. QED
    BY <1>1, <1>2, <1>4, <1>5, <1>7, <2>1, <2>2, <2>3, <2>4, OneListChanges
<1>11. FlagsSayWhere'
  <2>1. \A m \in ListNames : ToSet(contents'[m]) =
            IF m = l THEN ToSet(contents[m]) \ {f} ELSE ToSet(contents[m])
    BY <1>1, <1>2, <1>5, <1>7 DEF TypeOK
  <2>. QED  BY <1>1, <1>2, <1>4, <1>5, <2>1, FlagOffFlags
<1>12. Building'
  BY <1>5, ListAssumption, LenProperties DEF Building, Built
<1>. QED  BY <1>9, <1>10, <1>11, <1>12 DEF IInv

(***************************************************************************)
(* removeFromFrameList of a frame that is in no list leaves the links of   *)
(* every frame and the ends of every list alone: the frame has no links,   *)
(* and no list starts or ends with it.                                     *)
(***************************************************************************)
LEMMA RemoveAbsentStep ==
    ASSUME IInv, NEW l \in PageoutLists, NEW f \in Frames, RemoveAbsent(l, f)
    PROVE  IInv'
<1>1. TypeOK /\ Represents /\ FlagsSayWhere  BY DEF IInv
<1>2. l \in ListNames  BY DEF ListNames, PageoutLists
<1>3. /\ contents[l] \in Seq(Frames)
      /\ LinkedAs(l, contents[l], nextPFN, prevPFN, headFrame[l], tailFrame[l])
      /\ nextPFN \in [Frames -> Frames \cup {None}] /\ prevPFN \in [Frames -> Frames \cup {None}]
  BY <1>1, <1>2, ListFacts
<1>4. /\ Loose(f) /\ f \notin ToSet(contents[l])
      /\ nextPFN[f] = None /\ prevPFN[f] = None
  BY <1>1, <1>2 DEF RemoveAbsent, Loose, Represents, Unlinked
<1>5. headFrame[l] # f /\ tailFrame[l] # f /\ (headFrame[l] = None => tailFrame[l] = None)
  <2>1. /\ \A i \in 1 .. Len(contents[l]) : contents[l][i] \in ToSet(contents[l])
        /\ Len(contents[l]) \in Nat /\ (contents[l] = <<>> <=> Len(contents[l]) = 0)
        /\ (HeadIn(contents[l]) = None <=> contents[l] = <<>>)
    BY <1>3, HeadProperties
  <2>. QED  BY <1>3, <1>4, <2>1, ListAssumption DEF LinkedAs, HeadIn, TailIn
<1>6. RemoveFromFrameList(contents[l], f) = contents[l]
  <2>1. ~Contains(contents[l], f)  BY <1>3, <1>4, LenProperties DEF Contains, ToSet
  <2>. QED  BY <2>1 DEF RemoveFromFrameList
<1>7. /\ nextPFN' = [nextPFN EXCEPT ![f] = None] /\ prevPFN' = [prevPFN EXCEPT ![f] = None]
      /\ headFrame' = [headFrame EXCEPT ![l] = headFrame[l]]
      /\ tailFrame' = [tailFrame EXCEPT ![l] = IF headFrame[l] = None THEN None ELSE tailFrame[l]]
      /\ contents' = [contents EXCEPT ![l] = contents[l]]
      /\ Shorter(l) /\ FlagOff(l, f)
  BY <1>4, <1>5, <1>6 DEF RemoveAbsent, Unlink, SetLink
<1>8. UNCHANGED <<nextPFN, prevPFN, headFrame, tailFrame, contents>>
  <2>1. nextPFN' = nextPFN /\ prevPFN' = prevPFN  BY <1>3, <1>4, <1>7
  <2>2. headFrame' = headFrame /\ contents' = contents  BY <1>1, <1>7 DEF TypeOK
  <2>3. tailFrame' = tailFrame  BY <1>1, <1>5, <1>7 DEF TypeOK
  <2>. QED  BY <2>1, <2>2, <2>3
<1>9. UNCHANGED flags
  <2>1. ~isOnModifiedList[f] /\ ~isOnStandbyList[f]
    BY <1>1, <1>4 DEF FlagsSayWhere, Loose, ListNames
  <2>2. /\ isOnModifiedList' = [isOnModifiedList EXCEPT ![f] = @ /\ l # "modified"]
        /\ isOnStandbyList' = [isOnStandbyList EXCEPT ![f] = @ /\ l # "standby"]
    BY <1>7 DEF FlagOff
  <2>. QED  BY <1>1, <2>1, <2>2 DEF TypeOK, flags
<1>10. linked' = linked /\ absentRemovals' \in [ListNames -> 0 .. MaxAbsentRemovals]
  <2>1. /\ linked' = linked /\ absentRemovals[l] < MaxAbsentRemovals
        /\ absentRemovals' = [absentRemovals EXCEPT ![l] = @ + 1]
        /\ absentRemovals \in [ListNames -> 0 .. MaxAbsentRemovals]
    BY <1>1 DEF RemoveAbsent, TypeOK
  <2>2. absentRemovals[l] + 1 \in 0 .. MaxAbsentRemovals  BY <1>2, <2>1, ListAssumption
  <2>. QED  BY <2>1, <2>2
<1>11. length' \in [ListNames -> 0 .. LengthModulus - 1]  BY <1>1, <1>2, <1>7, FieldsTyped
<1>12. TypeOK'  BY <1>1, <1>8, <1>9, <1>10, <1>11 DEF TypeOK, flags
<1>13. Represents' /\ FlagsSayWhere'
  BY <1>1, <1>8, <1>9
     DEF Represents, ListsLinked, Linked, ListsApart, Loose, Unlinked, FlagsSayWhere, flags
<1>14. Building'  BY <1>8, <1>10 DEF Building, IInv
<1>. QED  BY <1>12, <1>13, <1>14 DEF IInv

(***************************************************************************)
(* A new run starts with empty lists, as the first one does.               *)
(***************************************************************************)
LEMMA InitIInv == Init => IInv
<1>. SUFFICES ASSUME Init  PROVE IInv
  OBVIOUS
<1>. USE DEF Init
<1>1. \A l \in ListNames : contents[l] = <<>> /\ headFrame[l] = None /\ tailFrame[l] = None
  OBVIOUS
<1>2. ToSet(<<>>) = {} /\ IsInjective(<<>>)
  <2>1. "free" \in ListNames  BY DEF ListNames
  <2>. QED  BY <2>1, EmptyLists, Zenon
<1>3. "modified" \in ListNames /\ "standby" \in ListNames /\ "free" \in ListNames  BY DEF ListNames
<1>4. TypeOK
  <2>1. /\ nextPFN \in [Frames -> Frames \cup {None}] /\ prevPFN \in [Frames -> Frames \cup {None}]
        /\ isOnModifiedList \in [Frames -> BOOLEAN] /\ isOnStandbyList \in [Frames -> BOOLEAN]
    BY DEF NoFrame, NoFlag
  <2>2. /\ LengthModulus \in Nat /\ LengthModulus > 0
        /\ Len(PhysicalPageNumbers) \in Nat
    BY ListAssumption, LenProperties
  <2>3. <<>> \in Seq(Frames)  OBVIOUS
  <2>. QED  BY <2>1, <2>2, <2>3, ListAssumption DEF TypeOK
<1>5. Represents
  <2>1. \A l \in ListNames : Linked(l)  BY <1>1, EmptyLists DEF Linked
  <2>. QED
    BY <1>1, <1>2, <2>1 DEF Represents, ListsLinked, ListsApart, Unlinked, NoFrame
<1>6. FlagsSayWhere  BY <1>1, <1>2, <1>3 DEF FlagsSayWhere, NoFlag
<1>7. Building  BY <1>1, <1>2, <1>3 DEF Building
<1>. QED  BY <1>4, <1>5, <1>6, <1>7 DEF IInv

(***************************************************************************)
(* The end of a run leads back to the beginning.                           *)
(***************************************************************************)
LEMMA ResetStep ==
    ASSUME ResetFrameListsForNewRun
    PROVE  IInv'
<1>1. Init'
  BY DEF ResetFrameListsForNewRun, HeadsAfterReset, Init
<1>2. Init' => IInv'  BY InitIInv, PTL
<1>. QED  BY <1>1, <1>2

(***************************************************************************)
(* Every list call keeps the invariant.                                    *)
(***************************************************************************)
LEMMA NextIInv ==
    ASSUME IInv, [Next]_vars
    PROVE  IInv'
<1>1. CASE LinkFree  BY <1>1, LinkFreeStep
<1>2. CASE ResetFrameListsForNewRun  BY <1>2, ResetStep
<1>3. CASE \E f \in Frames : AddTail(f)  BY <1>3, AddTailStep
<1>4. CASE \E l \in ListNames : PopFirst(l)  BY <1>4, PopFirstStep
<1>5. CASE \E l \in PageoutLists, f \in Frames :
               AddHead(l, f) \/ RemoveListed(l, f) \/ RemoveAbsent(l, f)
  <2>. PICK l \in PageoutLists, f \in Frames :
           AddHead(l, f) \/ RemoveListed(l, f) \/ RemoveAbsent(l, f)
    BY <1>5
  <2>1. CASE AddHead(l, f)  BY <2>1, AddHeadStep
  <2>2. CASE RemoveListed(l, f)  BY <2>2, RemoveListedStep
  <2>3. CASE RemoveAbsent(l, f)  BY <2>3, RemoveAbsentStep
  <2>. QED  BY <2>1, <2>2, <2>3
<1>6. CASE UNCHANGED vars
  BY <1>6 DEF vars, links, flags, heads, IInv, TypeOK, Represents, ListsLinked, Linked,
              ListsApart, Loose, Unlinked, FlagsSayWhere, Building
<1>. QED  BY <1>1, <1>2, <1>3, <1>4, <1>5, <1>6 DEF Next

(***************************************************************************)
(* All calls of the list functions together, in any order, keep the        *)
(* invariant.                                                              *)
(***************************************************************************)
LEMMA IInvAlways == Spec => []IInv
<1>1. Init => IInv  BY InitIInv
<1>2. IInv /\ [Next]_vars => IInv'  BY NextIInv
<1>. QED  BY <1>1, <1>2, PTL DEF Spec

(***************************************************************************)
(* For any number of frames and any order of calls, the links and ends of  *)
(* a list are frames or NULL, its length is a ULONG64, and what was put    *)
(* into it is a sequence of frames.                                        *)
(***************************************************************************)
THEOREM LinksTyped == Spec => []TypeOK
<1>1. IInv => TypeOK  BY DEF IInv
<1>. QED  BY <1>1, IInvAlways, PTL

(***************************************************************************)
(* For any number of frames and any order of calls, the links are the      *)
(* sequences: no list loses a frame, repeats one or runs into another, and *)
(* the head and the tail are those of the sequence.                        *)
(***************************************************************************)
THEOREM LinksRepresent == Spec => []Represents
<1>1. IInv => Represents  BY DEF IInv
<1>. QED  BY <1>1, IInvAlways, PTL

(***************************************************************************)
(* For any number of frames and any order of calls, isOnModifiedList and   *)
(* isOnStandbyList say on which list a frame is.                           *)
(***************************************************************************)
THEOREM FlagsAreRight == Spec => []FlagsSayWhere
<1>1. IInv => FlagsSayWhere  BY DEF IInv
<1>. QED  BY <1>1, IInvAlways, PTL

-----------------------------------------------------------------------------
(* The length fields.                                                      *)

(* Counting up and down with a ULONG64.                                    *)
LEMMA RemainderUnique ==
    ASSUME NEW m \in Nat \ {0}, NEW q \in Int, NEW r \in 0 .. m - 1
    PROVE  (m * q + r) % m = r
OBVIOUS

(***************************************************************************)
(* Every number is a multiple of the modulus and its remainder.            *)
(***************************************************************************)
LEMMA RemainderProperties ==
    ASSUME NEW m \in Nat \ {0}, NEW x \in Int
    PROVE  /\ x % m \in 0 .. m - 1
           /\ \E q \in Int : x = m * q + (x % m)
<1>1. x \div m \in Int /\ x % m \in 0 .. m - 1 /\ x = m * (x \div m) + (x % m)  OBVIOUS
<1>. QED  BY <1>1

(***************************************************************************)
(* One more than a count is counted with one more than what is left of it  *)
(* by the wrap, and one less with one less.                                *)
(***************************************************************************)
LEMMA CountUp ==
    ASSUME NEW m \in Nat \ {0}, NEW x \in Int
    PROVE  ((x % m) + 1) % m = (x + 1) % m
<1> DEFINE r == x % m
<1>1. PICK q \in Int : x = m * q + r  BY RemainderProperties
<1>2. r \in 0 .. m - 1  BY RemainderProperties
<1>. HIDE DEF r
<1>3. CASE r < m - 1
  <2>1. r + 1 \in 0 .. m - 1 /\ x + 1 = m * q + (r + 1)  BY <1>1, <1>2, <1>3
  <2>2. (x + 1) % m = r + 1  BY <2>1, RemainderUnique
  <2>. QED  BY <2>1, <2>2 DEF r
<1>4. CASE r = m - 1
  <2>1. q + 1 \in Int /\ 0 \in 0 .. m - 1 /\ x + 1 = m * (q + 1) + 0 /\ r + 1 = m * 1 + 0
    BY <1>1, <1>2, <1>4
  <2>2. (x + 1) % m = 0 /\ (r + 1) % m = 0  BY <2>1, RemainderUnique
  <2>. QED  BY <2>2 DEF r
<1>. QED  BY <1>2, <1>3, <1>4

(***************************************************************************)
(* The same for one less: taking a frame off a list.                       *)
(***************************************************************************)
LEMMA CountDown ==
    ASSUME NEW m \in Nat \ {0}, NEW x \in Int
    PROVE  ((x % m) - 1) % m = (x - 1) % m
<1> DEFINE r == x % m
<1>1. PICK q \in Int : x = m * q + r  BY RemainderProperties
<1>2. r \in 0 .. m - 1  BY RemainderProperties
<1>. HIDE DEF r
<1>3. CASE r > 0
  <2>1. r - 1 \in 0 .. m - 1 /\ x - 1 = m * q + (r - 1)  BY <1>1, <1>2, <1>3
  <2>2. (x - 1) % m = r - 1  BY <2>1, RemainderUnique
  <2>. QED  BY <2>1, <2>2 DEF r
<1>4. CASE r = 0
  <2>1. /\ q - 1 \in Int /\ -1 \in Int /\ m - 1 \in 0 .. m - 1
        /\ x - 1 = m * (q - 1) + (m - 1) /\ r - 1 = m * (-1) + (m - 1)
    BY <1>1, <1>2, <1>4
  <2>2. (x - 1) % m = m - 1 /\ (r - 1) % m = m - 1  BY <2>1, RemainderUnique
  <2>. QED  BY <2>2 DEF r
<1>. QED  BY <1>2, <1>3, <1>4

(* The count of a list as it should be.                                    *)
Listed(l) == Len(contents[l]) - absentRemovals[l]

(* A call that changes one length and one list by one keeps all of them.   *)
LEMMA LengthStep ==
    ASSUME TypeOK, TypeOK', LengthCounts, NEW l \in ListNames,
           \/ Longer(l) /\ Listed(l)' = Listed(l) + 1
           \/ Shorter(l) /\ Listed(l)' = Listed(l) - 1,
           \A m \in ListNames : m # l => Listed(m)' = Listed(m)
    PROVE  LengthCounts'
<1>1. LengthModulus \in Nat \ {0} /\ \A m \in ListNames : Listed(m) \in Int
  <2>1. \A m \in ListNames : Len(contents[m]) \in Nat /\ absentRemovals[m] \in Nat
    BY ListAssumption, LenProperties DEF TypeOK
  <2>. QED  BY <2>1, ListAssumption, LenProperties DEF Listed
<1>2. \A m \in ListNames : length[m] = Listed(m) % LengthModulus
  BY DEF LengthCounts, Listed
<1>3. length'[l] = Listed(l)' % LengthModulus
  <2>1. CASE Longer(l)  /\ Listed(l)' = Listed(l) + 1
    <3>1. length'[l] = (length[l] + 1) % LengthModulus  BY <2>1 DEF Longer, TypeOK
    <3>. QED  BY <1>1, <1>2, <2>1, <3>1, CountUp
  <2>2. CASE Shorter(l) /\ Listed(l)' = Listed(l) - 1
    <3>1. length'[l] = (length[l] - 1) % LengthModulus  BY <2>2 DEF Shorter, TypeOK
    <3>. QED  BY <1>1, <1>2, <2>2, <3>1, CountDown
  <2>. QED  BY <2>1, <2>2
<1>4. \A m \in ListNames : m # l => length'[m] = length[m]
  BY DEF Longer, Shorter, TypeOK
<1>5. \A m \in ListNames : length'[m] = Listed(m)' % LengthModulus
  BY <1>2, <1>3, <1>4
<1>. QED  BY <1>5 DEF LengthCounts, Listed

(* Each call that changes a list changes its length with it.               *)
LEMMA LengthNext ==
    ASSUME IInv, IInv', LengthCounts, [Next]_vars
    PROVE  LengthCounts'
<1>1. TypeOK /\ TypeOK' /\ Represents  BY DEF IInv
<1>2. /\ \A l \in ListNames : contents[l] \in Seq(Frames) /\ Len(contents[l]) \in Nat
      /\ contents \in [ListNames -> Seq(Frames)]
      /\ \A l \in ListNames : absentRemovals[l] \in Nat
  BY <1>1, ListAssumption, LenProperties DEF TypeOK
<1>3. PageoutLists \subseteq ListNames /\ "free" \in ListNames /\ "active" \in ListNames
  BY DEF PageoutLists, ListNames
<1>4. ASSUME NEW l \in ListNames, NEW t, contents' = [contents EXCEPT ![l] = t],
             absentRemovals' = absentRemovals, NEW d \in {-1, 1}, Len(t) = Len(contents[l]) + d
      PROVE  /\ Listed(l)' = Listed(l) + d
             /\ \A m \in ListNames : m # l => Listed(m)' = Listed(m)
  <2>1. contents'[l] = t /\ \A m \in ListNames : m # l => contents'[m] = contents[m]
    BY <1>2, <1>4
  <2>2. Listed(l)' = Len(contents[l]) + d - absentRemovals[l]
    <3>1. Len(contents'[l]) = Len(contents[l]) + d  BY <1>4, <2>1
    <3>2. Listed(l)' = Len(contents'[l]) - absentRemovals[l]  BY <1>4 DEF Listed
    <3>. QED  BY <1>2, <3>1, <3>2
  <2>3. Listed(l)' = Listed(l) + d  BY <1>2, <2>2 DEF Listed
  <2>. QED  BY <1>4, <2>1, <2>3 DEF Listed
<1>5. CASE LinkFree
  <2> DEFINE f == PhysicalPageNumbers[linked + 1]
             t == AddToFrameList(contents["free"], f)
  <2>1. f \in Frames
    BY <1>1, <1>5, ListAssumption, LenProperties DEF LinkFree, TypeOK, Frames
  <2>2. Len(t) = Len(contents["free"]) + 1  BY <1>2, <1>3, <2>1, AddToFrameListElements
  <2>3. /\ contents' = [contents EXCEPT !["free"] = t] /\ absentRemovals' = absentRemovals
        /\ Longer("free")
    BY <1>5 DEF LinkFree
  <2>. HIDE DEF f, t
  <2>4. /\ Listed("free")' = Listed("free") + 1
        /\ \A m \in ListNames : m # "free" => Listed(m)' = Listed(m)
    BY <1>3, <1>4, <2>2, <2>3
  <2>. QED  BY <1>1, <1>3, <2>3, <2>4, LengthStep
<1>6. CASE ResetFrameListsForNewRun
  <2>1. \A l \in ListNames :
            length'[l] = 0 /\ contents'[l] = <<>> /\ absentRemovals'[l] = 0
    BY <1>6 DEF ResetFrameListsForNewRun, HeadsAfterReset
  <2>2. 0 % LengthModulus = 0 /\ Len(<<>>) = 0  BY ListAssumption, LenProperties
  <2>. QED  BY <2>1, <2>2 DEF LengthCounts
<1>7. ASSUME NEW f \in Frames, AddTail(f)  PROVE LengthCounts'
  <2> DEFINE t == AddToFrameListTail(contents["active"], f)
  <2>1. Len(t) = Len(contents["active"]) + 1
    BY <1>2, <1>3, AppendProperties DEF AddToFrameListTail
  <2>2. /\ contents' = [contents EXCEPT !["active"] = t] /\ absentRemovals' = absentRemovals
        /\ Longer("active")
    BY <1>7 DEF AddTail
  <2>. HIDE DEF t
  <2>3. /\ Listed("active")' = Listed("active") + 1
        /\ \A m \in ListNames : m # "active" => Listed(m)' = Listed(m)
    BY <1>3, <1>4, <2>1, <2>2
  <2>. QED  BY <1>1, <1>3, <2>2, <2>3, LengthStep
<1>8. ASSUME NEW l \in ListNames, PopFirst(l)  PROVE LengthCounts'
  <2> DEFINE t == AfterPop(contents[l], 1)
  <2>1. contents[l] # <<>>
    <3>1. headFrame[l] # None /\ headFrame[l] = HeadIn(contents[l])
      BY <1>1, <1>8, ListFacts DEF PopFirst, LinkedAs
    <3>. QED  BY <1>2, <3>1, HeadProperties
  <2>2. Len(t) = Len(contents[l]) - 1  BY <1>2, <2>1, PopFirstProperties
  <2>3. /\ contents' = [contents EXCEPT ![l] = t] /\ absentRemovals' = absentRemovals
        /\ Shorter(l)
    BY <1>8 DEF PopFirst
  <2>. HIDE DEF t
  <2>4. Listed(l)' = Listed(l) - 1 /\ \A m \in ListNames : m # l => Listed(m)' = Listed(m)
    BY <1>2, <1>4, <2>2, <2>3 DEF Listed
  <2>. QED  BY <1>1, <2>3, <2>4, LengthStep
<1>9. ASSUME NEW l \in PageoutLists, NEW f \in Frames, AddHead(l, f)  PROVE LengthCounts'
  <2> DEFINE t == AddToFrameList(contents[l], f)
  <2>0. l \in ListNames  BY <1>3
  <2>1. Len(t) = Len(contents[l]) + 1  BY <1>2, <2>0, AddToFrameListElements
  <2>2. /\ contents' = [contents EXCEPT ![l] = t] /\ absentRemovals' = absentRemovals
        /\ Longer(l)
    BY <1>9 DEF AddHead
  <2>. HIDE DEF t
  <2>3. Listed(l)' = Listed(l) + 1 /\ \A m \in ListNames : m # l => Listed(m)' = Listed(m)
    BY <1>2, <1>4, <2>0, <2>1, <2>2 DEF Listed
  <2>. QED  BY <1>1, <2>0, <2>2, <2>3, LengthStep
<1>10. ASSUME NEW l \in PageoutLists, NEW f \in Frames, RemoveListed(l, f)  PROVE LengthCounts'
  <2> DEFINE t == RemoveFromFrameList(contents[l], f)
  <2>0. l \in ListNames  BY <1>3
  <2>1. Contains(contents[l], f)
    BY <1>2, <1>10, <2>0, LenProperties DEF RemoveListed, Contains, ToSet
  <2>2. Len(t) = Len(contents[l]) - 1  BY <1>2, <2>0, <2>1, RemoveFromFrameListElements
  <2>3. /\ contents' = [contents EXCEPT ![l] = t] /\ absentRemovals' = absentRemovals
        /\ Shorter(l)
    BY <1>10 DEF RemoveListed, Unlink
  <2>. HIDE DEF t
  <2>4. Listed(l)' = Listed(l) - 1 /\ \A m \in ListNames : m # l => Listed(m)' = Listed(m)
    BY <1>2, <1>4, <2>0, <2>2, <2>3 DEF Listed
  <2>. QED  BY <1>1, <2>0, <2>3, <2>4, LengthStep
<1>11. ASSUME NEW l \in PageoutLists, NEW f \in Frames, RemoveAbsent(l, f)  PROVE LengthCounts'
  <2>0. l \in ListNames  BY <1>3
  <2>1. f \notin ToSet(contents[l])  BY <1>11, <2>0 DEF RemoveAbsent, Loose
  <2>2. RemoveFromFrameList(contents[l], f) = contents[l]
    <3>1. ~Contains(contents[l], f)
      BY <1>2, <2>0, <2>1, LenProperties DEF Contains, ToSet
    <3>. QED  BY <3>1 DEF RemoveFromFrameList
  <2>3. contents' = contents /\ Shorter(l)
    BY <1>2, <1>11, <2>0, <2>2 DEF RemoveAbsent, Unlink
  <2>4. /\ absentRemovals'[l] = absentRemovals[l] + 1
        /\ \A m \in ListNames : m # l => absentRemovals'[m] = absentRemovals[m]
    BY <1>1, <1>11, <2>0 DEF RemoveAbsent, TypeOK
  <2>5. Listed(l)' = Listed(l) - 1 /\ \A m \in ListNames : m # l => Listed(m)' = Listed(m)
    BY <1>2, <2>0, <2>3, <2>4 DEF Listed
  <2>. QED  BY <1>1, <2>0, <2>3, <2>5, LengthStep
<1>12. CASE UNCHANGED vars  BY <1>12 DEF vars, heads, LengthCounts
<1>. QED  BY <1>5, <1>6, <1>7, <1>8, <1>9, <1>10, <1>11, <1>12 DEF Next

(***************************************************************************)
(* For any number of frames, any modulus and any order of calls, length is *)
(* the number of frames linked less the removals of absent frames, wrapped *)
(* as a ULONG64 is: no list function forgets to count, or counts twice.    *)
(***************************************************************************)
THEOREM LengthsCount == Spec => []LengthCounts
<1>1. Init => LengthCounts
  <2>1. 0 % LengthModulus = 0 /\ Len(<<>>) = 0 /\ 0 - 0 = 0  BY ListAssumption, LenProperties
  <2>. QED  BY <2>1 DEF Init, LengthCounts
<1>2. IInv /\ LengthCounts /\ [Next]_vars => IInv' /\ LengthCounts'  BY NextIInv, LengthNext
<1>. QED  BY <1>1, <1>2, InitIInv, PTL DEF Spec

-----------------------------------------------------------------------------
(* Following the links.                                                    *)

(* The least of some natural numbers, on which inductions rest here.       *)
LEMMA LeastElement ==
    ASSUME NEW S \in SUBSET Nat, S # {}
    PROVE  \E m \in S : \A k \in S : m <= k
<1>1. IsWellFoundedOn(OpToRel(<, Nat), Nat)  BY NatLessThanWellFounded
<1>2. PICK m \in S : \A k \in S : ~(<<k, m>> \in OpToRel(<, Nat))
  <2>. HIDE DEF IsWellFoundedOn
  <2>. QED  BY <1>1, WFMin, Zenon
<1>3. \A k \in S : k < m => <<k, m>> \in OpToRel(<, Nat)  BY DEF OpToRel
<1>4. \A k \in S : k \in Nat /\ m \in Nat /\ ~(k < m)  BY <1>2, <1>3
<1>5. \A k \in S : m <= k  BY <1>4
<1>. QED  BY <1>5

(* The places of a list of n frames.                                       *)
LEMMA PlacesOf ==
    ASSUME NEW n \in Nat
    PROVE  IsFiniteSet(1 .. n) /\ Cardinality(1 .. n) = n
<1>1. 1 \in Int /\ n \in Int /\ (IF 1 > n THEN 0 ELSE n - 1 + 1) = n  OBVIOUS
<1>. QED  BY <1>1, FS_Interval

(* A count below the modulus is not wrapped.                               *)
LEMMA SmallRemainder ==
    ASSUME NEW m \in Nat \ {0}, NEW r \in 0 .. m - 1
    PROVE  r % m = r
OBVIOUS

(* A list has as many places as frames at most.                            *)
LEMMA PlacesCounted ==
    ASSUME NEW s \in Seq(Frames), IsInjective(s)
    PROVE  /\ IsFiniteSet(Frames) /\ Cardinality(Frames) \in Nat
           /\ Cardinality(Frames) = Len(PhysicalPageNumbers)
           /\ Len(s) \in 0 .. Cardinality(Frames)
<1> DEFINE n == Len(PhysicalPageNumbers)
<1>1. n \in Nat /\ DOMAIN PhysicalPageNumbers = 1 .. n
  BY ListAssumption, LenProperties
<1>2. PhysicalPageNumbers \in Bijection(1 .. n, Frames)
  <2>1. PhysicalPageNumbers \in [1 .. n -> Frames]
    BY <1>1, ListAssumption, LenProperties DEF Frames
  <2>. QED  BY <1>1, <2>1, ListAssumption DEF Bijection, Injection, Surjection, Frames, IsInjective
<1>3. IsFiniteSet(1 .. n) /\ Cardinality(1 .. n) = n  BY <1>1, PlacesOf
<1>4. IsFiniteSet(Frames) /\ Cardinality(Frames) = n
  <2>1. ExistsBijection(1 .. n, Frames)  BY <1>2 DEF ExistsBijection
  <2>. QED  BY <1>3, <2>1, FS_Bijection
<1>5. /\ Len(s) \in Nat /\ DOMAIN s = 1 .. Len(s) /\ s \in [1 .. Len(s) -> Frames]
  BY LenProperties
<1>6. s \in Injection(1 .. Len(s), Frames)  BY <1>5 DEF Injection, IsInjective
<1>7. Cardinality(1 .. Len(s)) = Len(s)  BY <1>5, PlacesOf
<1>8. Cardinality(1 .. Len(s)) <= Cardinality(Frames)  BY <1>4, <1>6, FS_Injection
<1>. QED  BY <1>1, <1>4, <1>5, <1>7, <1>8

(***************************************************************************)
(* A walk along the links visits the frames of the list in their order and *)
(* then stops: the links say it for each frame, and no walk can leave the  *)
(* list for a first time.                                                  *)
(***************************************************************************)
LEMMA WalkVisits ==
    ASSUME TypeOK, Represents, NEW l \in ListNames
    PROVE  /\ DOMAIN Walk(l) = 1 .. Cardinality(Frames) + 1
           /\ \A i \in 1 .. Cardinality(Frames) + 1 :
                  Walk(l)[i] = IF i <= Len(contents[l]) THEN contents[l][i] ELSE None
<1> DEFINE s == contents[l]
           D == 1 .. Cardinality(Frames) + 1
           Follow(at) == [i \in D |-> IF i = 1 THEN headFrame[l]
                                      ELSE IF at[i - 1] = None THEN None ELSE nextPFN[at[i - 1]]]
           visits == [i \in D |-> IF i <= Len(s) THEN s[i] ELSE None]
<1>1. /\ s \in Seq(Frames) /\ IsInjective(s)
      /\ LinkedAs(l, s, nextPFN, prevPFN, headFrame[l], tailFrame[l])
  BY ListFacts
<1>2. Cardinality(Frames) \in Nat  BY <1>1, PlacesCounted
<1>3. /\ Len(s) \in Nat
      /\ \A i \in 1 .. Len(s) : s[i] # None /\ nextPFN[s[i]] = IF i = Len(s) THEN None ELSE s[i + 1]
      /\ headFrame[l] = IF 1 <= Len(s) THEN s[1] ELSE None
  BY <1>1, HeadProperties DEF LinkedAs, HeadIn, NextIn
<1>. HIDE DEF s
<1>4. visits = Follow(visits)
  <2>1. ASSUME NEW i \in D  PROVE visits[i] = Follow(visits)[i]
    <3>1. CASE i = 1  BY <1>2, <1>3, <3>1
    <3>2. CASE i # 1
      <4>1. i - 1 \in D /\ i - 1 \in Nat /\ i - 1 >= 1 /\ i \in Nat  BY <1>2, <3>2
      <4>2. CASE i <= Len(s)  BY <1>3, <3>2, <4>1, <4>2
      <4>3. CASE i - 1 = Len(s)  BY <1>3, <3>2, <4>1, <4>3
      <4>4. CASE i - 1 > Len(s)  BY <1>3, <3>2, <4>1, <4>4
      <4>. QED  BY <1>3, <4>1, <4>2, <4>3, <4>4
    <3>. QED  BY <3>1, <3>2
  <2>. QED  BY <2>1
<1>5. Walk(l) = CHOOSE at : at = Follow(at)  BY DEF Walk
<1>. HIDE DEF visits
<1>6. Walk(l) = Follow(Walk(l))
  <2>. HIDE DEF Follow
  <2>. QED  BY <1>4, <1>5
<1>7. DOMAIN Walk(l) = D
  <2>1. DOMAIN Follow(Walk(l)) = D  OBVIOUS
  <2>. QED  BY <1>6, <2>1
<1>8. \A i \in D : Walk(l)[i] = visits[i]
  <2> DEFINE Wrong == {i \in D : Walk(l)[i] # visits[i]}
  <2>1. SUFFICES ASSUME Wrong # {}  PROVE FALSE
    OBVIOUS
  <2>2. PICK m \in Wrong : \A k \in Wrong : m <= k
    <3>1. Wrong \in SUBSET Nat  BY <1>2
    <3>. HIDE DEF Wrong
    <3>. QED  BY <2>1, <3>1, LeastElement
  <2>3. Follow(Walk(l))[m] # Follow(visits)[m]  BY <1>4, <1>6, <2>2
  <2>4. m \in D /\ m # 1  BY <2>2, <2>3
  <2>5. m - 1 \in D /\ m - 1 \notin Wrong
    BY <1>2, <2>2, <2>4
  <2>6. Walk(l)[m - 1] = visits[m - 1]  BY <2>5
  <2>. QED  BY <2>3, <2>4, <2>6
<1>. QED  BY <1>7, <1>8 DEF visits, s

(* What validateFrameList and listContains meet is the list.               *)
LEMMA ChainIsContents ==
    ASSUME TypeOK, Represents, NEW l \in ListNames
    PROVE  /\ Chain(l) = contents[l]
           /\ Cardinality(Visits(l)) = Len(contents[l])
<1> DEFINE s == contents[l]
           n == Cardinality(Frames)
<1>1. s \in Seq(Frames) /\ IsInjective(s)  BY ListFacts
<1>2. n \in Nat /\ Len(s) \in 0 .. n  BY <1>1, PlacesCounted
<1>3. \A i \in 1 .. Len(s) : s[i] # None  BY <1>1, HeadProperties
<1>4. Visits(l) = 1 .. Len(s)
  <2>1. Visits(l) = {i \in 1 .. n + 1 : (IF i <= Len(s) THEN s[i] ELSE None) # None}
    BY WalkVisits DEF Visits
  <2>. HIDE DEF s, n
  <2>. QED  BY <1>2, <1>3, <2>1
<1>5. Cardinality(Visits(l)) = Len(s)  BY <1>2, <1>4, PlacesOf
<1>6. Chain(l) = [i \in 1 .. Len(s) |-> s[i]]
  <2>1. ASSUME NEW i \in 1 .. Len(s)  PROVE Walk(l)[i] = s[i]
    <3>1. i \in 1 .. n + 1 /\ i <= Len(s)  BY <1>2
    <3>. QED  BY <3>1, WalkVisits
  <2>. QED  BY <1>5, <2>1 DEF Chain
<1>7. s = [i \in 1 .. Len(s) |-> s[i]]  BY <1>1, LenProperties
<1>. QED  BY <1>5, <1>6, <1>7

(***************************************************************************)
(* validateFrameList finds each list right from which no absent frame was  *)
(* removed, after any calls and for any number of frames: following the    *)
(* links meets each of its frames once and no other, as many as length.    *)
(***************************************************************************)
THEOREM ListsValidate == Spec => []ValidationPasses
<1>1. IInv /\ LengthCounts => ValidationPasses
  <2>1. SUFFICES ASSUME IInv, LengthCounts, NEW l \in ListNames, absentRemovals[l] = 0
                 PROVE  ValidateFrameList(l)
    BY DEF ValidationPasses
  <2>2. /\ contents[l] \in Seq(Frames) /\ IsInjective(contents[l])
        /\ Chain(l) = contents[l] /\ Cardinality(Visits(l)) = Len(contents[l])
    BY <2>1, ListFacts, ChainIsContents DEF IInv
  <2>3. Len(contents[l]) \in 0 .. LengthModulus - 1 /\ LengthModulus \in Nat \ {0}
    BY <2>2, PlacesCounted, ListAssumption, LenProperties
  <2>4. length[l] = Len(contents[l]) % LengthModulus
    <3>1. Len(contents[l]) - 0 = Len(contents[l])  BY <2>3
    <3>. QED  BY <2>1, <3>1 DEF LengthCounts
  <2>5. length[l] = Len(contents[l])  BY <2>3, <2>4, SmallRemainder
  <2>. QED  BY <2>2, <2>5 DEF ValidateFrameList
<1>. QED  BY <1>1, IInvAlways, LengthsCount, PTL

-----------------------------------------------------------------------------
(* The links do what FrameQueues says.                                     *)

(* Read by their links the lists are the sequences, and so are the         *)
(* operations of FrameQueues on them.                                      *)
LEMMA ChainsAreContents == IInv => chains = contents
<1>1. SUFFICES ASSUME IInv  PROVE chains = contents
  OBVIOUS
<1>2. contents \in [ListNames -> Seq(Frames)]  BY <1>1 DEF IInv, TypeOK
<1>3. \A l \in ListNames : Chain(l) = contents[l]  BY <1>1, ChainIsContents DEF IInv
<1>. QED  BY <1>2, <1>3 DEF chains

(* FrameQueues has the same operations.                                    *)
LEMMA QueueOperations ==
    /\ \A list : FQ!ToSet(list) = ToSet(list) /\ FQ!IsInjective(list) = IsInjective(list)
    /\ \A list, n : FQ!AfterPop(list, n) = AfterPop(list, n)
    /\ \A list, f : FQ!AddToFrameList(list, f) = AddToFrameList(list, f)
    /\ \A list, f : FQ!AddToFrameListTail(list, f) = AddToFrameListTail(list, f)
    /\ \A list, f : FQ!RemoveFromFrameList(list, f) = RemoveFromFrameList(list, f)
<1>1. \A list : FQ!ToSet(list) = ToSet(list)  BY DEF FQ!ToSet, ToSet
<1>2. \A list : FQ!IsInjective(list) = IsInjective(list)
  BY DEF FQ!IsInjective, IsInjective
<1>3. \A list, n : FQ!AfterPop(list, n) = AfterPop(list, n)
  BY DEF FQ!AfterPop, AfterPop
<1>4. \A list, f : FQ!AddToFrameList(list, f) = AddToFrameList(list, f)
  BY DEF FQ!AddToFrameList, AddToFrameList
<1>5. \A list, f : FQ!AddToFrameListTail(list, f) = AddToFrameListTail(list, f)
  BY DEF FQ!AddToFrameListTail, AddToFrameListTail
<1>6. \A list, f : FQ!RemoveFromFrameList(list, f) = RemoveFromFrameList(list, f)
  BY DEF FQ!RemoveFromFrameList, RemoveFromFrameList, FQ!Contains, Contains, FQ!RemoveAt, RemoveAt,
     FQ!Position, Position
<1>. QED  BY <1>1, <1>2, <1>3, <1>4, <1>5, <1>6

(***************************************************************************)
(* FrameQueues has the same lists, and when the links show what the lists  *)
(* hold, the same frames are on none.                                      *)
(***************************************************************************)
LEMMA QueueNames ==
    /\ FQ!ListNames = ListNames /\ FQ!PageoutLists = PageoutLists
    /\ chains = contents => \A f : FQ!Loose(f) <=> Loose(f)
BY QueueOperations
   DEF FQ!ListNames, FQ!PageoutLists, FQ!Loose, ListNames, PageoutLists, Loose

(* Each call is the step of FrameQueues of the same name.                  *)
LEMMA CallIsQueueStep ==
    ASSUME IInv, chains = contents, chains' = contents', [Next]_vars
    PROVE  [FQ!Next]_(FQ!vars)
<1>1. TypeOK /\ Represents /\ Building  BY DEF IInv
<1>2. \A l \in ListNames : contents[l] \in Seq(Frames) /\ Len(contents[l]) \in Nat
  BY <1>1, LenProperties DEF TypeOK
<1>3. PageoutLists \subseteq ListNames /\ "free" \in ListNames /\ "active" \in ListNames
  BY DEF PageoutLists, ListNames
<1>4. ASSUME LinkFree  PROVE FQ!ListCall
  <2> DEFINE f == PhysicalPageNumbers[linked + 1]
  <2>1. /\ linked \in Nat /\ linked < Len(PhysicalPageNumbers)
        /\ linked + 1 \in 1 .. Len(PhysicalPageNumbers)
    BY <1>1, <1>4, ListAssumption, LenProperties DEF LinkFree, TypeOK
  <2>2. /\ f \in Frames
        /\ \A l \in ListNames \ {"free"} : contents[l] = <<>>
        /\ f \notin ToSet(contents["free"])
    BY <1>1, <2>1 DEF Building, Frames
  <2>3. ToSet(<<>>) = {}  BY DEF ToSet
  <2>4. Loose(f)  BY <2>2, <2>3 DEF Loose
  <2>5. contents' = [contents EXCEPT !["free"] = AddToFrameList(@, f)]
    BY <1>4 DEF LinkFree
  <2>. HIDE DEF f
  <2>6. FQ!Build(f)
    BY <2>2, <2>4, <2>5, QueueNames, QueueOperations DEF FQ!Build
  <2>. QED  BY <2>2, <2>6 DEF FQ!ListCall
<1>5. ASSUME ResetFrameListsForNewRun  PROVE FQ!Discard
  <2>1. \A l \in ListNames : absentRemovals'[l] = 0  BY <1>5 DEF ResetFrameListsForNewRun
  <2>2. chains' = [l \in FQ!ListNames |-> <<>>]
    BY <1>5, QueueNames DEF ResetFrameListsForNewRun
  <2>. QED  BY <2>1, <2>2 DEF FQ!Discard
<1>6. ASSUME NEW f \in Frames, AddTail(f)  PROVE FQ!ListCall
  <2>1. FQ!AddTail(f)
    BY <1>6, QueueNames, QueueOperations DEF FQ!AddTail, AddTail
  <2>. QED  BY <2>1 DEF FQ!ListCall
<1>7. ASSUME NEW l \in ListNames, PopFirst(l)  PROVE FQ!ListCall
  <2>1. contents[l] # <<>>
    <3>1. headFrame[l] # None /\ headFrame[l] = HeadIn(contents[l])
      BY <1>1, <1>7, ListFacts DEF PopFirst, LinkedAs
    <3>. QED  BY <1>2, <3>1, HeadProperties
  <2>2. 1 <= Len(contents[l]) /\ 1 \in 1 .. Len(contents[l])
    BY <1>2, <2>1, PopFirstProperties
  <2>3. FQ!Pop(l, 1)
    BY <1>7, <2>2, QueueOperations DEF FQ!Pop, PopFirst
  <2>. QED  BY <2>2, <2>3, QueueNames DEF FQ!ListCall
<1>8. ASSUME NEW l \in PageoutLists, NEW f \in Frames, AddHead(l, f)  PROVE FQ!ListCall
  <2>1. FQ!AddHead(l, f)
    BY <1>8, QueueNames, QueueOperations DEF FQ!AddHead, AddHead
  <2>. QED  BY <2>1, QueueNames DEF FQ!ListCall
<1>9. ASSUME NEW l \in PageoutLists, NEW f \in Frames, RemoveListed(l, f)  PROVE FQ!ListCall
  <2>1. FQ!RemoveListed(l, f)
    BY <1>9, QueueOperations DEF FQ!RemoveListed, RemoveListed, Unlink
  <2>. QED  BY <2>1, QueueNames DEF FQ!ListCall
<1>10. ASSUME NEW l \in PageoutLists, NEW f \in Frames, RemoveAbsent(l, f)
       PROVE  FQ!UnlinkAbsent(l, f)
  <2>1. l \in ListNames /\ f \notin ToSet(contents[l])
    BY <1>3, <1>10 DEF RemoveAbsent, Loose
  <2>2. RemoveFromFrameList(contents[l], f) = contents[l]
    <3>1. ~Contains(contents[l], f)
      BY <1>2, <2>1, LenProperties DEF Contains, ToSet
    <3>. QED  BY <3>1 DEF RemoveFromFrameList
  <2>3. contents' = contents
    BY <1>1, <1>10, <2>1, <2>2 DEF RemoveAbsent, Unlink, TypeOK
  <2>4. absentRemovals'[l] # 0
    BY <1>1, <1>10, <2>1, ListAssumption DEF RemoveAbsent, TypeOK
  <2>5. f \notin FQ!ToSet(chains[l])  BY <2>1, QueueOperations
  <2>. QED  BY <2>1, <2>3, <2>4, <2>5 DEF FQ!UnlinkAbsent
<1>11. FQ!ListCall /\ UNCHANGED absentRemovals => FQ!Next  BY DEF FQ!Next
<1>12. CASE LinkFree \/ \E f \in Frames : AddTail(f)
  BY <1>4, <1>6, <1>11, <1>12 DEF LinkFree, AddTail
<1>13. CASE \E l \in ListNames : PopFirst(l)
  BY <1>7, <1>11, <1>13 DEF PopFirst
<1>14. CASE \E l \in PageoutLists, f \in Frames : AddHead(l, f) \/ RemoveListed(l, f)
  BY <1>8, <1>9, <1>11, <1>14 DEF AddHead, RemoveListed
<1>15. CASE ResetFrameListsForNewRun  BY <1>5, <1>15 DEF FQ!Next
<1>16. CASE \E l \in PageoutLists, f \in Frames : RemoveAbsent(l, f)
  BY <1>10, <1>16, QueueNames DEF FQ!Next
<1>17. CASE UNCHANGED vars  BY <1>17 DEF vars, FQ!vars
<1>. QED  BY <1>12, <1>13, <1>14, <1>15, <1>16, <1>17 DEF Next

(***************************************************************************)
(* The list functions of utilities.c, read by nothing but the links they   *)
(* leave in memory, are the queues of FrameQueues, for any number of       *)
(* frames: the head they pop is the one the sequence has, the frame they   *)
(* unlink is gone and the order of the others is kept.  Unlinking a frame  *)
(* that is in no list leaves them all as they are.                         *)
(***************************************************************************)
THEOREM LinksAreQueues == Spec => ImplementsFrameQueues
<1>1. Init => FQ!Init
  <2>1. SUFFICES ASSUME Init  PROVE FQ!Init
    OBVIOUS
  <2>2. chains = contents  BY <2>1, InitIInv, ChainsAreContents
  <2>3. "free" \in ListNames /\ \A l \in ListNames : contents[l] = <<>>
    BY <2>1 DEF Init, ListNames
  <2>4. <<>> \in Seq(Frames) /\ IsInjective(<<>>)  BY <2>3, EmptyLists
  <2>5. contents = [l \in ListNames |-> IF l = "free" THEN contents["free"] ELSE <<>>]
    BY <2>1, <2>3 DEF Init
  <2>6. \A l \in ListNames : absentRemovals[l] = 0  BY <2>1 DEF Init
  <2>. QED  BY <2>2, <2>3, <2>4, <2>5, <2>6, QueueNames, QueueOperations DEF FQ!Init
<1>2. IInv /\ [Next]_vars => IInv'  BY NextIInv
<1>3. IInv /\ chains = contents /\ (chains = contents)' /\ [Next]_vars
          => [FQ!Next]_(FQ!vars)
  BY CallIsQueueStep
<1>. QED  BY <1>1, <1>2, <1>3, InitIInv, ChainsAreContents, PTL
          DEF Spec, ImplementsFrameQueues, FQ!Spec
=============================================================================
