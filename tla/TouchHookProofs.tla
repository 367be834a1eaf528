--------------------------- MODULE TouchHookProofs ---------------------------
(***************************************************************************)
(* Theorems about the input hook, for any number of fingers, slots and     *)
(* positions, and about the pipes and loopers beside it.                   *)
(***************************************************************************)
EXTENDS MCTouchHook, NumberFacts, SequenceTheorems

-----------------------------------------------------------------------------
(* Lists of places in order.                                               *)

\* Between the places counted up to i - 1 and up to i there is at most i.
LEMMA CountStep ==
  ASSUME NEW n \in Nat, NEW S \in SUBSET (1 .. n), NEW i \in Nat
  PROVE  /\ IsFiniteSet(S) /\ Cardinality(S) \in Nat
         /\ IsFiniteSet(S \cap (1 .. i)) /\ Cardinality(S \cap (1 .. i)) \in Nat
         /\ Cardinality(S \cap (1 .. i)) <= Cardinality(S)
         /\ i \notin S /\ i > 0 => S \cap (1 .. i) = S \cap (1 .. (i - 1))
         /\ i \in S => Cardinality(S \cap (1 .. i)) = Cardinality(S \cap (1 .. (i - 1))) + 1
<1>1. IsFiniteSet(1 .. n)
  BY FS_Interval
<1>2. IsFiniteSet(S) /\ Cardinality(S) \in Nat
  BY <1>1, FS_Subset, FS_CardinalityType
<1>3. /\ IsFiniteSet(S \cap (1 .. i)) /\ Cardinality(S \cap (1 .. i)) \in Nat
      /\ Cardinality(S \cap (1 .. i)) <= Cardinality(S)
  BY <1>2, FS_Subset, FS_CardinalityType
<1>4. IsFiniteSet(S \cap (1 .. (i - 1)))
  BY <1>2, FS_Subset
<1>5. ASSUME i \in S
      PROVE  Cardinality(S \cap (1 .. i)) = Cardinality(S \cap (1 .. (i - 1))) + 1
  <2>1. S \cap (1 .. i) = (S \cap (1 .. (i - 1))) \cup {i} /\ i \notin S \cap (1 .. (i - 1))
    BY <1>5
  <2> QED BY <1>4, <2>1, FS_AddElement
<1>6. i \notin S /\ i > 0 => S \cap (1 .. i) = S \cap (1 .. (i - 1))
  OBVIOUS
<1> QED BY <1>2, <1>3, <1>5, <1>6

\* Each place has its own number among the places.
LEMMA CountIsNumber ==
  ASSUME NEW n \in Nat, NEW S \in SUBSET (1 .. n)
  PROVE  /\ \A i \in S : Cardinality(S \cap (1 .. i)) \in 1 .. Cardinality(S)
         /\ \A i, j \in S : i < j => Cardinality(S \cap (1 .. i)) < Cardinality(S \cap (1 .. j))
<1>1. ASSUME NEW i \in S PROVE Cardinality(S \cap (1 .. i)) \in 1 .. Cardinality(S)
  <2>1. i \in Nat /\ i - 1 \in Nat
    OBVIOUS
  <2>2. Cardinality(S \cap (1 .. (i - 1))) \in Nat
    BY <2>1, CountStep
  <2>3. /\ Cardinality(S \cap (1 .. i)) \in Nat /\ Cardinality(S) \in Nat
        /\ Cardinality(S \cap (1 .. i)) <= Cardinality(S)
        /\ Cardinality(S \cap (1 .. i)) = Cardinality(S \cap (1 .. (i - 1))) + 1
    BY <2>1, CountStep
  <2> QED BY <2>2, <2>3
<1>2. ASSUME NEW i \in S, NEW j \in S, i < j
      PROVE  Cardinality(S \cap (1 .. i)) < Cardinality(S \cap (1 .. j))
  <2>1. i \in Nat /\ j \in Nat /\ j - 1 \in Nat
    OBVIOUS
  <2>2. S \cap (1 .. i) \subseteq S \cap (1 .. (j - 1))
    BY <1>2
  <2>3. IsFiniteSet(S \cap (1 .. (j - 1)))
    BY <2>1, CountStep
  <2>4. Cardinality(S \cap (1 .. i)) <= Cardinality(S \cap (1 .. (j - 1)))
    BY <2>2, <2>3, FS_Subset
  <2>5. /\ Cardinality(S \cap (1 .. j)) = Cardinality(S \cap (1 .. (j - 1))) + 1
        /\ Cardinality(S \cap (1 .. (j - 1))) \in Nat
        /\ Cardinality(S \cap (1 .. i)) \in Nat
    BY <2>1, CountStep
  <2> QED BY <2>4, <2>5
<1> QED BY <1>1, <1>2

\* Every number up to their count is the number of a place: the first place up
\* to which there are so many.
LEMMA NumberHasPlace ==
  ASSUME NEW n \in Nat, NEW S \in SUBSET (1 .. n), NEW k \in 1 .. Cardinality(S)
  PROVE  \E i \in S : Cardinality(S \cap (1 .. i)) = k
<1> DEFINE Reach == {i \in Nat : Cardinality(S \cap (1 .. i)) >= k}
<1>1. n \in Reach
  <2>1. S \cap (1 .. n) = S
    OBVIOUS
  <2> QED BY <2>1, CountStep
<1>2. PICK m \in Reach : \A y \in Reach : m <= y
  <2>1. Min(Reach) \in Reach /\ \A y \in Reach : Min(Reach) <= y
    BY <1>1, MinIsLeast
  <2> QED BY <2>1
<1>3. m \in Nat /\ Cardinality(S \cap (1 .. m)) >= k /\ k \in Nat /\ k >= 1
  BY <1>2, CountStep
<1>4. m # 0
  <2>1. S \cap (1 .. 0) = {}
    OBVIOUS
  <2>2. Cardinality(S \cap (1 .. 0)) = 0
    BY <2>1, FS_EmptySet
  <2> QED BY <1>3, <2>2
<1>5. m - 1 \in Nat /\ Cardinality(S \cap (1 .. (m - 1))) \in Nat
  <2>1. m - 1 \in Nat
    BY <1>3, <1>4
  <2> QED BY <2>1, CountStep
<1>6. ~ (Cardinality(S \cap (1 .. (m - 1))) >= k)
  <2>1. m - 1 \notin Reach
    <3> HIDE DEF Reach
    <3> QED BY <1>2, <1>3
  <2> QED BY <1>5, <2>1
<1>7. m \in S
  <2> SUFFICES ASSUME m \notin S PROVE FALSE
    OBVIOUS
  <2>1. S \cap (1 .. m) = S \cap (1 .. (m - 1))
    BY <1>3, <1>4, CountStep
  <2> QED BY <1>3, <1>6, <2>1
<1>8. Cardinality(S \cap (1 .. m)) = Cardinality(S \cap (1 .. (m - 1))) + 1
  BY <1>3, <1>7, CountStep
<1>9. Cardinality(S \cap (1 .. m)) = k
  <2> HIDE DEF Reach
  <2> QED BY <1>3, <1>5, <1>6, <1>8
<1> QED BY <1>7, <1>9

\* InOrder lists the places of a set, each once, in their order.
LEMMA InOrderLists ==
  ASSUME NEW n \in Nat, NEW S \in SUBSET (1 .. n)
  PROVE  /\ InOrder(S) \in [1 .. Cardinality(S) -> S] /\ Cardinality(S) \in Nat
         /\ \A k \in 1 .. Cardinality(S) : Cardinality(S \cap (1 .. InOrder(S)[k])) = k
         /\ \A i \in S : \E k \in 1 .. Cardinality(S) : InOrder(S)[k] = i
<1>1. \A k \in 1 .. Cardinality(S) :
        InOrder(S)[k] \in S /\ Cardinality(S \cap (1 .. InOrder(S)[k])) = k
  <2> TAKE k \in 1 .. Cardinality(S)
  <2>1. \E i \in S : Cardinality(S \cap (1 .. i)) = k
    BY NumberHasPlace
  <2>2. InOrder(S)[k] = CHOOSE i \in S : Cardinality(S \cap (1 .. i)) = k
    BY DEF InOrder
  <2> QED BY <2>1, <2>2
<1>2. ASSUME NEW i \in S PROVE \E k \in 1 .. Cardinality(S) : InOrder(S)[k] = i
  <2> DEFINE k == Cardinality(S \cap (1 .. i))
  <2>1. k \in 1 .. Cardinality(S)
    BY CountIsNumber
  <2>2. InOrder(S)[k] \in S /\ Cardinality(S \cap (1 .. InOrder(S)[k])) = k
    BY <1>1, <2>1
  <2>3. ~ (InOrder(S)[k] < i) /\ ~ (i < InOrder(S)[k])
    <3>1. ASSUME NEW a \in S, NEW b \in S, a < b,
                 Cardinality(S \cap (1 .. a)) = Cardinality(S \cap (1 .. b))
          PROVE  FALSE
      <4>1. Cardinality(S \cap (1 .. a)) < Cardinality(S \cap (1 .. b))
        BY <3>1, CountIsNumber
      <4>2. a \in Nat /\ Cardinality(S \cap (1 .. a)) \in Nat
        <5>1. a \in Nat
          OBVIOUS
        <5> QED BY <5>1, CountStep
      <4> QED BY <3>1, <4>1, <4>2
    <3> HIDE DEF k
    <3> QED BY <2>2, <3>1 DEF k
  <2>4. InOrder(S)[k] = i
    <3> HIDE DEF k
    <3>1. InOrder(S)[k] \in 1 .. n /\ i \in 1 .. n
      BY <2>2
    <3> QED BY <2>3, <3>1
  <2> QED BY <2>1, <2>4
<1>3. Cardinality(S) \in Nat
  BY CountStep
<1>4. InOrder(S) = [k \in 1 .. Cardinality(S) |-> InOrder(S)[k]]
  <2> DEFINE At(k) == CHOOSE i \in S : Cardinality(S \cap (1 .. i)) = k
  <2>1. InOrder(S) = [k \in 1 .. Cardinality(S) |-> At(k)]
    BY DEF InOrder
  <2> HIDE DEF At
  <2> QED BY <2>1
<1>5. InOrder(S) \in [1 .. Cardinality(S) -> S]
  BY <1>1, <1>4
<1> QED BY <1>1, <1>2, <1>3, <1>5

-----------------------------------------------------------------------------
(* The list of a frame.                                                    *)

Fingers == [id : Ids, x : Int]
Reports == [id : Ids, x : Int, prev : Int, phase : {"began", "moved", "stationary", "ended"}]

\* What nx_input_hook_update_multi is called with: no finger twice, and no more
\* than s_touches has room for.
ListOK(list) ==
  /\ list \in Seq(Fingers) /\ Len(list) <= MaxTouches
  /\ \A i, j \in DOMAIN list : list[i].id = list[j].id => i = j

\* A function from 1 to n is a list of n.
LEMMA FunctionIsList ==
  ASSUME NEW T, NEW n \in Nat, NEW f \in [1 .. n -> T]
  PROVE  f \in Seq(T) /\ Len(f) = n /\ DOMAIN f = 1 .. n
<1>1. [1 .. n -> T] \in {[1 .. m -> T] : m \in Nat}
  OBVIOUS
<1>2. f \in UNION {[1 .. m -> T] : m \in Nat}
  BY <1>1, Zenon
<1>3. f \in Seq(T)
  BY <1>2, SeqDef, Zenon
<1>4. DOMAIN f = 1 .. n /\ DOMAIN f = 1 .. Len(f) /\ Len(f) \in Nat
  BY <1>3, LenProperties
<1>5. \A m \in Nat : 1 .. m = 1 .. n => m = n
  <2> TAKE m \in Nat
  <2> HAVE 1 .. m = 1 .. n
  <2>1. m > 0 => m \in 1 .. n
    OBVIOUS
  <2>2. n > 0 => n \in 1 .. m
    OBVIOUS
  <2> QED BY <2>1, <2>2
<1> QED BY <1>3, <1>4, <1>5

\* Cut keeps the first MaxTouches of a list.
LEMMA CutKeeps ==
  ASSUME NEW T, NEW s \in Seq(T)
  PROVE  /\ Cut(s) \in Seq(T) /\ Len(Cut(s)) <= MaxTouches /\ Len(Cut(s)) <= Len(s)
         /\ \A i \in DOMAIN Cut(s) : i \in DOMAIN s /\ Cut(s)[i] = s[i]
         /\ Len(s) <= MaxTouches => Cut(s) = s
<1> DEFINE n == Smaller(Len(s), MaxTouches)
<1>1. /\ n \in Nat /\ n <= Len(s) /\ n <= MaxTouches /\ Len(s) \in Nat
      /\ Len(s) <= MaxTouches => n = Len(s)
  BY TouchAssumption DEF TouchAssumption, Smaller
<1>2. Cut(s) = SubSeq(s, 1, n)
  BY DEF Cut
<1> HIDE DEF n
<1>3. \A i \in 1 .. n : s[i] \in T
  BY <1>1
<1>4. /\ SubSeq(s, 1, n) \in Seq(T) /\ Len(SubSeq(s, 1, n)) = IF 1 <= n THEN n - 1 + 1 ELSE 0
      /\ \A i \in 1 .. (n - 1 + 1) : SubSeq(s, 1, n)[i] = s[1 + i - 1]
  BY <1>1, <1>3, SubSeqProperties
<1>5. Len(Cut(s)) = n /\ DOMAIN Cut(s) = 1 .. n /\ DOMAIN s = 1 .. Len(s)
  BY <1>1, <1>2, <1>4
<1>6. ASSUME NEW i \in DOMAIN Cut(s) PROVE i \in DOMAIN s /\ Cut(s)[i] = s[i]
  <2>1. i \in 1 .. n
    BY <1>5
  <2>2. i \in 1 .. (n - 1 + 1) /\ 1 + i - 1 = i /\ i \in 1 .. Len(s)
    BY <1>1, <2>1
  <2>3. SubSeq(s, 1, n)[i] = s[1 + i - 1]
    BY <1>4, <2>2
  <2> QED BY <1>2, <1>5, <2>2, <2>3
<1>7. Len(s) <= MaxTouches => Cut(s) = s
  BY <1>1, <1>2, SubSeqFull
<1> QED BY <1>1, <1>2, <1>4, <1>5, <1>6, <1>7

\* The panel reports no finger twice.
LEMMA PanelLists ==
  ASSUME NEW panel \in PanelStates
  PROVE  /\ panel \in Seq([id : HidFingers, x : Int])
         /\ \A i, j \in DOMAIN panel : panel[i].id = panel[j].id => i = j
<1>0. PICK s \in UNION {SetToSeqs(S) : S \in SUBSET HidFingers}, at \in [HidFingers -> Xs] :
        panel = [i \in DOMAIN s |-> [id |-> s[i], x |-> at[s[i]]]]
  BY DEF PanelStates
<1>1. PICK S \in SUBSET HidFingers : s \in SetToSeqs(S)
  BY <1>0
<1>2. s \in [1 .. Cardinality(S) -> S] /\ \A i, j \in 1 .. Cardinality(S) : i # j => s[i] # s[j]
  BY <1>1, Zenon DEF SetToSeqs
<1>3. IsFiniteSet(S) /\ Cardinality(S) \in Nat
  BY TouchAssumption, FS_Subset, FS_CardinalityType DEF TouchAssumption
<1>4. panel \in [1 .. Cardinality(S) -> [id : HidFingers, x : Int]]
  BY <1>0, <1>2, TouchAssumption DEF TouchAssumption
<1>5. panel \in Seq([id : HidFingers, x : Int])
  BY <1>3, <1>4, FunctionIsList
<1>6. \A i, j \in DOMAIN panel : panel[i].id = panel[j].id => i = j
  BY <1>0, <1>2
<1> QED BY <1>5, <1>6

\* The virtual fingers are under the cursor, and the second only while ZR is held.
LEMMA VirtualFingers ==
  ASSUME NEW a \in BOOLEAN, NEW zr \in BOOLEAN, NEW x \in Int, NEW off \in Int
  PROVE  LET v == Virtual(a, zr, x, off) IN
           /\ v \in Seq(Fingers)
           /\ \A i, j \in DOMAIN v : v[i].id = v[j].id => i = j
           /\ \A i \in DOMAIN v : \/ v[i].id = CursorId /\ v[i].x = x
                                  \/ v[i].id = PartnerId /\ zr /\ v[i].x = x + off
<1> DEFINE c == [id |-> CursorId, x |-> x]
           p == [id |-> PartnerId, x |-> x + off]
<1>1. c \in Fingers /\ p \in Fingers /\ c.id # p.id
  BY DEF Fingers, Ids, CursorId, PartnerId
<1>2. c.id = CursorId /\ c.x = x /\ p.id = PartnerId /\ p.x = x + off
  OBVIOUS
<1>3. Virtual(a, zr, x, off) = IF zr THEN <<c, p>> ELSE IF a THEN <<c>> ELSE <<>>
  BY DEF Virtual
<1> HIDE DEF c, p
<1>4. CASE zr
  BY <1>1, <1>2, <1>3, <1>4
<1>5. CASE ~ zr /\ a
  BY <1>1, <1>2, <1>3, <1>5
<1>6. CASE ~ zr /\ ~ a
  BY <1>3, <1>6
<1> QED BY <1>4, <1>5, <1>6

\* The list of a frame names each finger once, and the virtual ones where the
\* cursor is.
LEMMA FrameList ==
  ASSUME NEW panel \in PanelStates,
         NEW a \in BOOLEAN, NEW zr \in BOOLEAN, NEW x \in Int, NEW off \in Int
  PROVE  LET list == Cut(panel \o Virtual(a, zr, x, off)) IN
           /\ ListOK(list)
           /\ \A i \in DOMAIN list :
                /\ list[i].id = CursorId => list[i].x = x
                /\ list[i].id = PartnerId => zr /\ list[i].x = x + off
<1> DEFINE v == Virtual(a, zr, x, off)
           all == panel \o v
           list == Cut(all)
<1>1. /\ v \in Seq(Fingers)
      /\ \A i, j \in DOMAIN v : v[i].id = v[j].id => i = j
      /\ \A i \in DOMAIN v : \/ v[i].id = CursorId /\ v[i].x = x
                             \/ v[i].id = PartnerId /\ zr /\ v[i].x = x + off
  BY VirtualFingers
<1> HIDE DEF v
<1>2. /\ panel \in Seq([id : HidFingers, x : Int])
      /\ \A i, j \in DOMAIN panel : panel[i].id = panel[j].id => i = j
  BY PanelLists
<1>3. panel \in Seq(Fingers)
  <2>1. [id : HidFingers, x : Int] \subseteq Fingers
    BY DEF Fingers, Ids
  <2> QED BY <1>2, <2>1, SeqMonotonic
<1>4. /\ all \in Seq(Fingers) /\ Len(all) = Len(panel) + Len(v)
      /\ \A i \in 1 .. Len(panel) + Len(v) :
           all[i] = IF i <= Len(panel) THEN panel[i] ELSE v[i - Len(panel)]
  BY <1>1, <1>3, ConcatProperties
<1> HIDE DEF all
<1>5. /\ DOMAIN panel = 1 .. Len(panel) /\ DOMAIN v = 1 .. Len(v) /\ DOMAIN all = 1 .. Len(all)
      /\ Len(panel) \in Nat /\ Len(v) \in Nat
  BY <1>1, <1>3, <1>4, LenProperties
<1>6. ASSUME NEW i \in DOMAIN all
      PROVE  \/ i \in DOMAIN panel /\ all[i] = panel[i] /\ panel[i].id \in HidFingers
             \/ i - Len(panel) \in DOMAIN v /\ all[i] = v[i - Len(panel)]
                  /\ v[i - Len(panel)].id \notin HidFingers
  <2>1. i \in 1 .. Len(panel) + Len(v)
    BY <1>4, <1>5
  <2>2. CASE i <= Len(panel)
    <3>1. i \in 1 .. Len(panel) /\ all[i] = panel[i]
      BY <1>4, <1>5, <2>1, <2>2
    <3>2. panel[i] \in [id : HidFingers, x : Int]
      BY <1>2, <3>1, ElementOfSeq
    <3> QED BY <1>5, <3>1, <3>2
  <2>3. CASE ~ (i <= Len(panel))
    <3>1. i - Len(panel) \in 1 .. Len(v) /\ all[i] = v[i - Len(panel)]
      BY <1>4, <1>5, <2>1, <2>3
    <3>2. v[i - Len(panel)].id \in {CursorId, PartnerId}
      BY <1>1, <1>5, <3>1
    <3> QED BY <1>5, <3>1, <3>2, TouchAssumption DEF TouchAssumption
  <2> QED BY <2>2, <2>3
<1>7. ASSUME NEW i \in DOMAIN all, NEW j \in DOMAIN all, all[i].id = all[j].id
      PROVE  i = j
  <2>1. \/ i \in DOMAIN panel /\ j \in DOMAIN panel /\ panel[i].id = panel[j].id
        \/ i - Len(panel) \in DOMAIN v /\ j - Len(panel) \in DOMAIN v
             /\ v[i - Len(panel)].id = v[j - Len(panel)].id
    BY <1>6, <1>7
  <2>2. i \in Int /\ j \in Int
    BY <1>5
  <2>3. CASE i \in DOMAIN panel /\ j \in DOMAIN panel /\ panel[i].id = panel[j].id
    BY <1>2, <2>3
  <2>4. CASE i - Len(panel) \in DOMAIN v /\ j - Len(panel) \in DOMAIN v
               /\ v[i - Len(panel)].id = v[j - Len(panel)].id
    <3>1. i - Len(panel) = j - Len(panel)
      BY <1>1, <2>4
    <3> QED BY <1>5, <2>2, <3>1
  <2> QED BY <2>1, <2>3, <2>4
<1>8. ASSUME NEW i \in DOMAIN all
      PROVE  /\ all[i].id = CursorId => all[i].x = x
             /\ all[i].id = PartnerId => zr /\ all[i].x = x + off
  <2>1. CursorId # PartnerId /\ CursorId \notin HidFingers /\ PartnerId \notin HidFingers
    BY TouchAssumption DEF TouchAssumption, CursorId, PartnerId
  <2> QED BY <1>1, <1>6, <2>1
<1>9. /\ list \in Seq(Fingers) /\ Len(list) <= MaxTouches
      /\ \A i \in DOMAIN list : i \in DOMAIN all /\ list[i] = all[i]
  BY <1>4, CutKeeps
<1> HIDE DEF list
<1>10. ListOK(list)
  BY <1>7, <1>9 DEF ListOK
<1>11. \A i \in DOMAIN list : /\ list[i].id = CursorId => list[i].x = x
                              /\ list[i].id = PartnerId => zr /\ list[i].x = x + off
  BY <1>8, <1>9
<1>12. list = Cut(panel \o Virtual(a, zr, x, off))
  BY DEF list, all, v
<1> QED BY <1>10, <1>11, <1>12

-----------------------------------------------------------------------------
(* What is reported.                                                       *)

\* The slots of fingers that are down, and how many are left for new ones.
LEMMA HeldPlaces ==
  ASSUME TypeOK
  PROVE  /\ HeldSlots \in SUBSET (1 .. Len(touches)) /\ Len(touches) \in Nat
         /\ IsFiniteSet(HeldSlots) /\ Cardinality(HeldSlots) \in Nat
         /\ NewSlots \in Nat /\ NewSlots = MaxTouches - Cardinality(HeldSlots)
         /\ MaxTouches \in Nat \ {0}
         /\ \A j \in HeldSlots : touches[j] \in Reports /\ touches[j].phase # "ended"
         /\ \A i, j \in HeldSlots : touches[i].id = touches[j].id => i = j
<1>1. touches \in Seq(Reports) /\ Len(touches) <= MaxTouches
  BY DEF TypeOK, Reports
<1>2. DOMAIN touches = 1 .. Len(touches) /\ Len(touches) \in Nat
  BY <1>1, LenProperties
<1>3. HeldSlots \in SUBSET (1 .. Len(touches))
  BY <1>2 DEF HeldSlots
<1>4. IsFiniteSet(1 .. Len(touches)) /\ Cardinality(1 .. Len(touches)) = Len(touches)
  <2>1. /\ IsFiniteSet(1 .. Len(touches))
        /\ Cardinality(1 .. Len(touches)) = IF 1 > Len(touches) THEN 0 ELSE Len(touches) - 1 + 1
    BY <1>2, FS_Interval
  <2> QED BY <1>2, <2>1
<1>5. /\ IsFiniteSet(HeldSlots) /\ Cardinality(HeldSlots) \in Nat
      /\ Cardinality(HeldSlots) <= Len(touches)
  BY <1>3, <1>4, FS_Subset, FS_CardinalityType
<1>6. MaxTouches \in Nat \ {0}
  BY TouchAssumption DEF TouchAssumption
<1>7. NewSlots \in Nat /\ NewSlots = MaxTouches - Cardinality(HeldSlots)
  BY <1>1, <1>2, <1>5, <1>6 DEF NewSlots
<1>8. \A j \in HeldSlots : touches[j] \in Reports /\ touches[j].phase # "ended"
  BY <1>1, <1>3, ElementOfSeq DEF HeldSlots, Held
<1>9. \A i, j \in HeldSlots : touches[i].id = touches[j].id => i = j
  BY DEF HeldSlots, TypeOK
<1> QED BY <1>2, <1>3, <1>5, <1>6, <1>7, <1>8, <1>9

\* How a finger of the list is reported: one that was down goes on from there.
LEMMA TouchReports ==
  ASSUME TypeOK, NEW f \in Fingers
  PROVE  /\ Touch(f) \in Reports /\ Touch(f).id = f.id /\ Touch(f).x = f.x
         /\ Touch(f).phase # "ended"
         /\ f.id \notin ActiveIds => Touch(f).phase = "began"
         /\ \A j \in HeldSlots : touches[j].id = f.id =>
              Touch(f).phase # "began" /\ Touch(f).prev = touches[j].x
<1>1. f.id \in Ids /\ f.x \in Int
  BY DEF Fingers
<1>2. CASE f.id \notin ActiveIds
  <2>1. Touch(f) = [id |-> f.id, x |-> f.x, prev |-> f.x, phase |-> "began"]
    BY <1>2 DEF Touch
  <2>2. \A j \in HeldSlots : touches[j].id # f.id
    BY <1>2 DEF ActiveIds
  <2> QED BY <1>1, <1>2, <2>1, <2>2 DEF Reports
<1>3. CASE f.id \in ActiveIds
  <2> DEFINE k == CHOOSE j \in HeldSlots : touches[j].id = f.id
             phase == IF f.x = touches[k].x THEN "stationary" ELSE "moved"
  <2>1. Touch(f) = [id |-> f.id, x |-> f.x, prev |-> touches[k].x, phase |-> phase]
    BY <1>3 DEF Touch
  <2>2. \E j \in HeldSlots : touches[j].id = f.id
    BY <1>3 DEF ActiveIds
  <2>3. k \in HeldSlots /\ touches[k].id = f.id
    BY <2>2
  <2>4. phase \in {"stationary", "moved"}
    OBVIOUS
  <2> HIDE DEF k, phase
  <2>5. touches[k].x \in Int
    BY <2>3, HeldPlaces DEF Reports
  <2>6. \A j \in HeldSlots : touches[j].id = f.id => j = k
    BY <2>3, HeldPlaces
  <2>7. /\ Touch(f) \in Reports /\ Touch(f).id = f.id /\ Touch(f).x = f.x
        /\ Touch(f).phase = phase /\ Touch(f).prev = touches[k].x
    BY <1>1, <2>1, <2>4, <2>5 DEF Reports
  <2> QED BY <1>3, <2>4, <2>6, <2>7
<1> QED BY <1>2, <1>3

\* Down reports each admitted finger once.
LEMMA DownReports ==
  ASSUME TypeOK, NEW list, ListOK(list)
  PROVE  /\ Admitted(list) \in SUBSET (1 .. Len(list)) /\ Cardinality(Admitted(list)) \in Nat
         /\ Down(list) \in Seq(Reports) /\ Len(Down(list)) = Cardinality(Admitted(list))
         /\ \A k \in DOMAIN Down(list) : \E i \in Admitted(list) : Down(list)[k] = Touch(list[i])
         /\ \A i \in Admitted(list) : \E k \in DOMAIN Down(list) : Down(list)[k] = Touch(list[i])
         /\ \A k, l \in DOMAIN Down(list) : Down(list)[k].id = Down(list)[l].id => k = l
<1> DEFINE S == Admitted(list)
           order == InOrder(S)
           n == Cardinality(S)
<1>1. /\ list \in Seq(Fingers) /\ DOMAIN list = 1 .. Len(list) /\ Len(list) \in Nat
      /\ \A i, j \in 1 .. Len(list) : list[i].id = list[j].id => i = j
  BY LenProperties DEF ListOK
<1>2. S \in SUBSET (1 .. Len(list))
  BY <1>1 DEF Admitted
<1> HIDE DEF S
<1>3. /\ order \in [1 .. n -> S] /\ n \in Nat
      /\ \A k \in 1 .. n : Cardinality(S \cap (1 .. order[k])) = k
      /\ \A i \in S : \E k \in 1 .. n : order[k] = i
  <2> HIDE DEF order, n
  <2>1. PICK m \in Nat : S \in SUBSET (1 .. m)
    BY <1>1, <1>2
  <2>2. /\ InOrder(S) \in [1 .. Cardinality(S) -> S] /\ Cardinality(S) \in Nat
        /\ \A k \in 1 .. Cardinality(S) : Cardinality(S \cap (1 .. InOrder(S)[k])) = k
        /\ \A i \in S : \E k \in 1 .. Cardinality(S) : InOrder(S)[k] = i
    BY ONLY <2>1, InOrderLists, Zenon
  <2> QED BY <2>2 DEF order, n
<1>4. Down(list) = [k \in DOMAIN order |-> Touch(list[order[k]])]
  BY DEF Down, S
<1> HIDE DEF order, n
<1>5. \A i \in S : Touch(list[i]) \in Reports /\ Touch(list[i]).id = list[i].id
  <2> TAKE i \in S
  <2>1. list[i] \in Fingers
    BY <1>1, <1>2, ElementOfSeq
  <2> QED BY <2>1, TouchReports
<1>6. /\ \A k \in 1 .. n : order[k] \in S /\ Down(list)[k] = Touch(list[order[k]])
      /\ Down(list) \in [1 .. n -> Reports]
  BY <1>3, <1>4, <1>5
<1>7. Down(list) \in Seq(Reports) /\ Len(Down(list)) = n /\ DOMAIN Down(list) = 1 .. n
  BY <1>3, <1>6, FunctionIsList
<1>8. ASSUME NEW k \in 1 .. n, NEW l \in 1 .. n, Down(list)[k].id = Down(list)[l].id
      PROVE  k = l
  <2>1. list[order[k]].id = list[order[l]].id /\ order[k] \in S /\ order[l] \in S
    BY <1>5, <1>6, <1>8
  <2>2. order[k] = order[l]
    BY <1>1, <1>2, <2>1
  <2> QED BY <1>3, <2>2
<1>9. /\ \A k \in 1 .. n : \E i \in S : Down(list)[k] = Touch(list[i])
      /\ \A i \in S : \E k \in 1 .. n : Down(list)[k] = Touch(list[i])
  BY <1>3, <1>6
<1> QED BY <1>2, <1>3, <1>7, <1>8, <1>9 DEF S, n

\* The slots of fingers that are gone from a list.
GoneSlots(list) == {j \in HeldSlots : touches[j].id \notin IdsOf(list)}

\* Lifted reports each finger that is gone once, where it was.
LEMMA LiftedReports ==
  ASSUME TypeOK, NEW list
  PROVE  /\ Cardinality(GoneSlots(list)) \in Nat
         /\ Lifted(list) \in Seq(Reports) /\ Len(Lifted(list)) = Cardinality(GoneSlots(list))
         /\ \A k \in DOMAIN Lifted(list) :
              \E j \in GoneSlots(list) : Lifted(list)[k] = Ended(touches[j])
         /\ \A j \in GoneSlots(list) :
              \E k \in DOMAIN Lifted(list) : Lifted(list)[k] = Ended(touches[j])
         /\ \A k, l \in DOMAIN Lifted(list) : Lifted(list)[k].id = Lifted(list)[l].id => k = l
<1> DEFINE S == GoneSlots(list)
           order == InOrder(S)
           n == Cardinality(S)
<1>1. /\ HeldSlots \in SUBSET (1 .. Len(touches)) /\ Len(touches) \in Nat
      /\ \A j \in HeldSlots : touches[j] \in Reports
      /\ \A i, j \in HeldSlots : touches[i].id = touches[j].id => i = j
  BY HeldPlaces
<1>2. S \in SUBSET HeldSlots /\ S \in SUBSET (1 .. Len(touches))
  BY <1>1 DEF GoneSlots
<1>3. Lifted(list) = [k \in DOMAIN order |-> Ended(touches[order[k]])]
  BY DEF Lifted, GoneSlots
<1> HIDE DEF S
<1>4. /\ order \in [1 .. n -> S] /\ n \in Nat
      /\ \A k \in 1 .. n : Cardinality(S \cap (1 .. order[k])) = k
      /\ \A i \in S : \E k \in 1 .. n : order[k] = i
  BY <1>1, <1>2, InOrderLists
<1> HIDE DEF order, n
<1>5. \A j \in S : Ended(touches[j]) \in Reports /\ Ended(touches[j]).id = touches[j].id
  BY <1>1, <1>2 DEF Ended, Reports
<1>6. /\ \A k \in 1 .. n : order[k] \in S /\ Lifted(list)[k] = Ended(touches[order[k]])
      /\ Lifted(list) \in [1 .. n -> Reports]
  BY <1>3, <1>4, <1>5
<1>7. Lifted(list) \in Seq(Reports) /\ Len(Lifted(list)) = n /\ DOMAIN Lifted(list) = 1 .. n
  BY <1>4, <1>6, FunctionIsList
<1>8. ASSUME NEW k \in 1 .. n, NEW l \in 1 .. n, Lifted(list)[k].id = Lifted(list)[l].id
      PROVE  k = l
  <2>1. touches[order[k]].id = touches[order[l]].id /\ order[k] \in S /\ order[l] \in S
    BY <1>5, <1>6, <1>8
  <2>2. order[k] = order[l]
    BY <1>1, <1>2, <2>1
  <2> QED BY <1>4, <2>2
<1>9. /\ \A k \in 1 .. n : \E j \in S : Lifted(list)[k] = Ended(touches[j])
      /\ \A j \in S : \E k \in 1 .. n : Lifted(list)[k] = Ended(touches[j])
  BY <1>4, <1>6
<1> QED BY <1>4, <1>7, <1>8, <1>9 DEF S, n

\* New fingers are admitted while slots last: no more of them than NewSlots.
LEMMA NewFit ==
  ASSUME TypeOK, NEW list, ListOK(list)
  PROVE  LET new == {i \in Admitted(list) : list[i].id \notin ActiveIds} IN
           IsFiniteSet(new) /\ Cardinality(new) \in Nat /\ Cardinality(new) <= NewSlots
<1> DEFINE all == {j \in DOMAIN list : list[j].id \notin ActiveIds}
           new == {i \in Admitted(list) : list[i].id \notin ActiveIds}
           place == [i \in new |-> Cardinality(all \cap (1 .. i))]
<1>1. DOMAIN list = 1 .. Len(list) /\ Len(list) \in Nat
  BY LenProperties DEF ListOK
<1>2. all \in SUBSET (1 .. Len(list)) /\ new \in SUBSET all
  BY <1>1 DEF Admitted
<1>3. /\ \A i \in all : Cardinality(all \cap (1 .. i)) \in 1 .. Cardinality(all)
      /\ \A i, j \in all : i < j => Cardinality(all \cap (1 .. i)) < Cardinality(all \cap (1 .. j))
  BY <1>1, <1>2, CountIsNumber
<1>4. \A i \in new : Cardinality(all \cap (1 .. i)) <= NewSlots
  BY DEF Admitted
<1> HIDE DEF all, new
<1>5. NewSlots \in Nat
  BY HeldPlaces
<1>6. \A i \in new : place[i] \in 1 .. NewSlots
  BY <1>2, <1>3, <1>4, <1>5
<1>7. ASSUME NEW i \in new, NEW j \in new, place[i] = place[j] PROVE i = j
  <2>1. i \in Nat /\ j \in Nat
    BY <1>2
  <2>2. place[i] \in Int /\ place[j] \in Int
    BY <1>6
  <2>3. ~ (i < j) /\ ~ (j < i)
    BY <1>2, <1>3, <1>7, <2>2
  <2> QED BY <2>1, <2>3
<1>8. place \in Injection(new, 1 .. NewSlots)
  <2>1. place \in [new -> 1 .. NewSlots]
    BY <1>6
  <2> QED BY <1>7, <2>1 DEF Injection, IsInjective
<1>9. IsFiniteSet(1 .. NewSlots) /\ Cardinality(1 .. NewSlots) = NewSlots
  <2>1. /\ IsFiniteSet(1 .. NewSlots)
        /\ Cardinality(1 .. NewSlots) = IF 1 > NewSlots THEN 0 ELSE NewSlots - 1 + 1
    BY <1>5, FS_Interval
  <2> QED BY <1>5, <2>1
<1>10. IsFiniteSet(new) /\ Cardinality(new) <= NewSlots
  BY <1>8, <1>9, FS_Injection
<1> QED BY <1>10, FS_CardinalityType DEF new

\* What is reported has room: fingers that go on or lift keep the slots they
\* have, and new ones take those that are left.
LEMMA ReportsFit ==
  ASSUME TypeOK, NEW list, ListOK(list)
  PROVE  Len(Down(list)) + Len(Lifted(list)) <= MaxTouches
<1> DEFINE S == Admitted(list)
           new == {i \in S : list[i].id \notin ActiveIds}
           on == S \ new
           gone == GoneSlots(list)
           slot == [i \in on |-> CHOOSE j \in HeldSlots : touches[j].id = list[i].id]
<1>1. IsFiniteSet(new) /\ Cardinality(new) \in Nat /\ Cardinality(new) <= NewSlots
  BY NewFit
<1>2. /\ IsFiniteSet(HeldSlots) /\ Cardinality(HeldSlots) \in Nat /\ MaxTouches \in Nat
      /\ NewSlots = MaxTouches - Cardinality(HeldSlots)
      /\ \A i, j \in HeldSlots : touches[i].id = touches[j].id => i = j
  BY HeldPlaces
<1>3. S \in SUBSET (1 .. Len(list)) /\ Len(list) \in Nat
  BY DownReports, LenProperties DEF ListOK
<1>4. DOMAIN list = 1 .. Len(list) /\ \A i, j \in 1 .. Len(list) : list[i].id = list[j].id => i = j
  BY LenProperties DEF ListOK
<1>5. \A i \in on : \E j \in HeldSlots : touches[j].id = list[i].id
  BY DEF ActiveIds
<1>6. \A i \in on : slot[i] \in HeldSlots /\ touches[slot[i]].id = list[i].id
  BY <1>5
<1>7. gone \subseteq HeldSlots /\ \A i \in on : slot[i] \notin gone
  <2>1. \A i \in on : list[i].id \in IdsOf(list)
    BY <1>3, <1>4 DEF IdsOf
  <2> HIDE DEF on, slot
  <2> QED BY <1>6, <2>1 DEF GoneSlots
<1>8. S = new \cup on /\ new \cap on = {} /\ on \subseteq S
  OBVIOUS
<1> HIDE DEF S, new, on, gone
<1>9. slot \in Injection(on, HeldSlots \ gone)
  <2>1. \A i \in on : slot[i] \in HeldSlots \ gone
    BY <1>6, <1>7
  <2>2. slot = [i \in on |-> slot[i]]
    <3> DEFINE at(i) == CHOOSE j \in HeldSlots : touches[j].id = list[i].id
    <3>1. slot = [i \in on |-> at(i)]
      OBVIOUS
    <3> HIDE DEF at, slot
    <3> QED BY <3>1
  <2> HIDE DEF slot
  <2>3. slot \in [on -> HeldSlots \ gone]
    BY <2>1, <2>2
  <2>4. ASSUME NEW i \in on, NEW j \in on, slot[i] = slot[j] PROVE i = j
    BY <1>3, <1>4, <1>6, <1>8, <2>4
  <2> QED BY <2>3, <2>4 DEF Injection, IsInjective
<1> HIDE DEF slot
<1>10. /\ IsFiniteSet(HeldSlots \ gone)
       /\ Cardinality(HeldSlots \ gone) = Cardinality(HeldSlots) - Cardinality(gone)
  <2>1. HeldSlots \cap gone = gone
    BY <1>7
  <2> QED BY <1>2, <2>1, FS_Difference
<1>11. IsFiniteSet(on) /\ Cardinality(on) <= Cardinality(HeldSlots \ gone)
  BY <1>9, <1>10, FS_Injection
<1>12. Cardinality(S) = Cardinality(new) + Cardinality(on) - Cardinality({})
  BY <1>1, <1>8, <1>11, FS_Union
<1>13. Cardinality({}) = 0 /\ Cardinality(on) \in Nat
  BY <1>11, FS_EmptySet, FS_CardinalityType
<1>14. Cardinality(gone) \in Nat
  BY LiftedReports DEF gone
<1>15. Cardinality(S) + Cardinality(gone) <= MaxTouches
  BY <1>1, <1>2, <1>10, <1>11, <1>12, <1>13, <1>14
<1> QED BY <1>15, DownReports, LiftedReports DEF S, gone

\* A frame reports the admitted fingers and those that are gone, each once.
LEMMA UpdateReports ==
  ASSUME TypeOK, NEW list, ListOK(list), Update(list)
  PROVE  /\ touches' \in Seq(Reports) /\ Len(touches') <= MaxTouches
         /\ \A n \in DOMAIN touches' :
              \/ \E i \in Admitted(list) : touches'[n] = Touch(list[i])
              \/ \E j \in GoneSlots(list) : touches'[n] = Ended(touches[j])
         /\ \A i \in Admitted(list) : \E n \in DOMAIN touches' : touches'[n] = Touch(list[i])
         /\ \A j \in GoneSlots(list) : \E n \in DOMAIN touches' : touches'[n] = Ended(touches[j])
         /\ \A m, n \in DOMAIN touches' : touches'[m].id = touches'[n].id => m = n
<1> DEFINE d == Down(list)
           g == Lifted(list)
<1>1. /\ d \in Seq(Reports) /\ Admitted(list) \in SUBSET (1 .. Len(list))
      /\ \A k \in DOMAIN d : \E i \in Admitted(list) : d[k] = Touch(list[i])
      /\ \A i \in Admitted(list) : \E k \in DOMAIN d : d[k] = Touch(list[i])
      /\ \A k, l \in DOMAIN d : d[k].id = d[l].id => k = l
  BY DownReports
<1>2. /\ g \in Seq(Reports)
      /\ \A k \in DOMAIN g : \E j \in GoneSlots(list) : g[k] = Ended(touches[j])
      /\ \A j \in GoneSlots(list) : \E k \in DOMAIN g : g[k] = Ended(touches[j])
      /\ \A k, l \in DOMAIN g : g[k].id = g[l].id => k = l
  BY LiftedReports
<1>3. Len(d) + Len(g) <= MaxTouches
  BY ReportsFit
<1>4. touches' = Cut(d \o g)
  BY DEF Update
<1>5. ASSUME NEW k \in DOMAIN d PROVE d[k].id \in IdsOf(list)
  <2>1. PICK i \in Admitted(list) : d[k] = Touch(list[i])
    BY <1>1
  <2>2. list[i] \in Fingers /\ i \in DOMAIN list
    BY <1>1, ElementOfSeq, LenProperties DEF ListOK
  <2> QED BY <2>1, <2>2, TouchReports DEF IdsOf
<1>6. ASSUME NEW k \in DOMAIN g PROVE g[k].id \notin IdsOf(list)
  <2>1. PICK j \in GoneSlots(list) : g[k] = Ended(touches[j])
    BY <1>2
  <2>2. touches[j].id \notin IdsOf(list) /\ touches[j] \in Reports
    BY HeldPlaces DEF GoneSlots
  <2> QED BY <2>1, <2>2 DEF Ended, Reports
<1> HIDE DEF d, g
<1>7. /\ d \o g \in Seq(Reports) /\ Len(d \o g) = Len(d) + Len(g)
      /\ \A i \in 1 .. Len(d) + Len(g) : (d \o g)[i] = IF i <= Len(d) THEN d[i] ELSE g[i - Len(d)]
  BY <1>1, <1>2, ConcatProperties
<1>8. touches' = d \o g
  BY <1>3, <1>4, <1>7, CutKeeps
<1>9. /\ DOMAIN d = 1 .. Len(d) /\ DOMAIN g = 1 .. Len(g) /\ Len(d) \in Nat /\ Len(g) \in Nat
      /\ DOMAIN touches' = 1 .. Len(d) + Len(g)
  BY <1>1, <1>2, <1>7, <1>8, LenProperties
<1>10. ASSUME NEW n \in DOMAIN touches'
       PROVE  \/ n \in DOMAIN d /\ touches'[n] = d[n]
              \/ n - Len(d) \in DOMAIN g /\ touches'[n] = g[n - Len(d)]
  BY <1>7, <1>8, <1>9
<1>11. ASSUME NEW k \in DOMAIN d PROVE k \in DOMAIN touches' /\ touches'[k] = d[k]
  BY <1>7, <1>8, <1>9
<1>12. ASSUME NEW k \in DOMAIN g
       PROVE  k + Len(d) \in DOMAIN touches' /\ touches'[k + Len(d)] = g[k]
  <2>1. k + Len(d) \in 1 .. Len(d) + Len(g) /\ ~ (k + Len(d) <= Len(d)) /\ k + Len(d) - Len(d) = k
    BY <1>9
  <2>2. (d \o g)[k + Len(d)] = g[k + Len(d) - Len(d)]
    BY <1>7, <2>1
  <2> QED BY <1>8, <1>9, <2>1, <2>2
<1>13. ASSUME NEW m \in DOMAIN touches', NEW n \in DOMAIN touches', touches'[m].id = touches'[n].id
       PROVE  m = n
  <2>1. m \in Int /\ n \in Int
    BY <1>9
  <2>2. \/ m \in DOMAIN d /\ n \in DOMAIN d /\ d[m].id = d[n].id
        \/ /\ m - Len(d) \in DOMAIN g /\ n - Len(d) \in DOMAIN g
           /\ g[m - Len(d)].id = g[n - Len(d)].id
    BY <1>5, <1>6, <1>10, <1>13
  <2>3. m = n \/ m - Len(d) = n - Len(d)
    BY <1>1, <1>2, <2>2
  <2> QED BY <1>9, <2>1, <2>3
<1>14. \A n \in DOMAIN touches' :
         \/ \E i \in Admitted(list) : touches'[n] = Touch(list[i])
         \/ \E j \in GoneSlots(list) : touches'[n] = Ended(touches[j])
  BY <1>1, <1>2, <1>10
<1>15. \A i \in Admitted(list) : \E n \in DOMAIN touches' : touches'[n] = Touch(list[i])
  BY <1>1, <1>11
<1>16. \A j \in GoneSlots(list) : \E n \in DOMAIN touches' : touches'[n] = Ended(touches[j])
  BY <1>2, <1>12
<1>17. touches' \in Seq(Reports) /\ Len(touches') <= MaxTouches
  BY <1>3, <1>7, <1>8
<1> QED BY <1>13, <1>14, <1>15, <1>16, <1>17

-----------------------------------------------------------------------------
(* The invariant.                                                          *)

\* The reported fingers were all in the last list; the mouse is idle only after
\* an empty one, and its button is down just while the finger it follows is.
GestureInv ==
  /\ ListOK(asked) /\ ActiveIds \subseteq IdsOf(asked)
  /\ mouse = "idle" => asked = <<>>
  /\ button <=> mouse = "tracking"
  /\ button => owner \in ActiveIds

\* The virtual fingers that are down are where the cursor is, and the second
\* one is down only while ZR is held.
PairInv ==
  /\ dual => /\ dualOffset \in (- Width .. Width) \ {0}
             /\ cursor + dualOffset \in 0 .. Width
  /\ \A j \in HeldSlots :
       /\ touches[j].id = CursorId => touches[j].x = cursor
       /\ touches[j].id = PartnerId => dual /\ touches[j].x = cursor + dualOffset

HookInv == TypeOK /\ GestureInv /\ PairInv

\* The cursor and its partner stay on the screen, on the side chosen when ZR
\* went down.
LEMMA CursorStays ==
  ASSUME TypeOK, PairInv, NEW zr \in BOOLEAN, NEW step \in StickSteps, MoveCursor(zr, step)
  PROVE  /\ dual' = zr /\ cursor' \in 0 .. Width /\ dualOffset' \in Int
         /\ dual' => /\ dualOffset' \in (- Width .. Width) \ {0}
                     /\ cursor' + dualOffset' \in 0 .. Width
         /\ dual /\ dual' => dualOffset' = dualOffset
<1>1. /\ Width \in Nat \ {0} /\ PairOffset \in Nat \ {0} /\ step \in Int
      /\ cursor \in 0 .. Width /\ dualOffset \in Int /\ dual \in BOOLEAN
  BY TouchAssumption DEF TouchAssumption, TypeOK
<1>2. dual' = zr /\ dualOffset' = PickOffset(zr) /\ cursor' = Clamp(cursor + step, zr, dualOffset')
  BY DEF MoveCursor
<1>3. dual /\ zr => PickOffset(zr) = dualOffset
  BY DEF PickOffset
<1>4. PickOffset(zr) \in Int /\ (zr => PickOffset(zr) \in (- Width .. Width) \ {0})
  BY <1>1 DEF PickOffset, PairInv, Smaller
<1>5. ASSUME NEW x \in Int, NEW off \in Int, zr => off \in - Width .. Width
      PROVE  Clamp(x, zr, off) \in 0 .. Width /\ (zr => Clamp(x, zr, off) + off \in 0 .. Width)
  BY <1>1, <1>5 DEF Clamp, Smaller
<1>6. cursor + step \in Int
  BY <1>1
<1> QED BY <1>2, <1>3, <1>4, <1>5, <1>6

\* The fingers that are down after a frame are the admitted ones.
LEMMA DownNext ==
  ASSUME TypeOK, NEW list, ListOK(list), Update(list)
  PROVE  /\ \A n \in HeldSlots' : \E i \in Admitted(list) : touches'[n] = Touch(list[i])
         /\ ActiveIds' = {list[i].id : i \in Admitted(list)}
         /\ IdsOf(Down(list)) = ActiveIds' /\ ActiveIds' \subseteq IdsOf(list)
         /\ \A i \in DOMAIN list : list[i].id \in ActiveIds => i \in Admitted(list)
         /\ \A i \in Admitted(list) : /\ i \in DOMAIN list /\ list[i] \in Fingers
                                      /\ Touch(list[i]).id = list[i].id
                                      /\ Touch(list[i]).phase # "ended"
<1>1. HeldSlots' = {n \in DOMAIN touches' : touches'[n].phase # "ended"}
  BY DEF HeldSlots, Held
<1>2. ActiveIds' = {touches'[n].id : n \in HeldSlots'}
  BY DEF ActiveIds
<1>3. ASSUME NEW i \in Admitted(list)
      PROVE  /\ i \in DOMAIN list /\ list[i] \in Fingers
             /\ Touch(list[i]).id = list[i].id /\ Touch(list[i]).phase # "ended"
  <2>1. i \in 1 .. Len(list) /\ i \in DOMAIN list
    BY DownReports DEF Admitted
  <2>2. list[i] \in Fingers
    BY <2>1, ElementOfSeq DEF ListOK
  <2> QED BY <2>1, <2>2, TouchReports
<1>4. \A j \in GoneSlots(list) : Ended(touches[j]).phase = "ended"
  BY HeldPlaces DEF GoneSlots, Ended, Reports
<1>5. \A n \in HeldSlots' : \E i \in Admitted(list) : touches'[n] = Touch(list[i])
  BY <1>1, <1>4, UpdateReports
<1>6. \A i \in Admitted(list) : \E n \in HeldSlots' : touches'[n] = Touch(list[i])
  BY <1>1, <1>3, UpdateReports
<1>7. ActiveIds' = {list[i].id : i \in Admitted(list)}
  BY <1>2, <1>3, <1>5, <1>6
<1>8. IdsOf(Down(list)) = {list[i].id : i \in Admitted(list)}
  BY <1>3, DownReports DEF IdsOf
<1>9. ActiveIds' \subseteq IdsOf(list)
  BY <1>3, <1>7 DEF IdsOf
<1>10. \A i \in DOMAIN list : list[i].id \in ActiveIds => i \in Admitted(list)
  BY DEF Admitted
<1> QED BY <1>3, <1>5, <1>7, <1>8, <1>9, <1>10

\* The finger the mouse follows is one of those that are down.
LEMMA MouseFollows ==
  ASSUME TypeOK, NEW list, ListOK(list), Update(list), button'
  PROVE  /\ mouse # "waitClear" /\ owner' \in ActiveIds' /\ mouseX' \in Int
         /\ \E n \in HeldSlots' : touches'[n].id = owner' /\ touches'[n].x = mouseX'
<1> DEFINE d == Down(list)
<1>1. /\ button' = (mouse # "waitClear" /\ owner' \in IdsOf(d))
      /\ mouseX' = IF button' THEN (CHOOSE h \in ToSet(d) : h.id = owner').x ELSE mouseX
  BY DEF Update, Mouse
<1>2. mouse # "waitClear" /\ owner' \in IdsOf(d)
  BY <1>1
<1> DEFINE h == CHOOSE h \in ToSet(d) : h.id = owner'
<1>3. h \in ToSet(d) /\ h.id = owner'
  BY <1>2 DEF IdsOf, ToSet
<1>4. mouseX' = h.x
  BY <1>1
<1> HIDE DEF h
<1>5. PICK i \in Admitted(list) : h = Touch(list[i])
  BY <1>3, DownReports DEF ToSet
<1>6. h \in Reports /\ h.phase # "ended"
  BY <1>5, DownNext, TouchReports
<1>7. PICK n \in DOMAIN touches' : touches'[n] = h
  BY <1>5, UpdateReports
<1>8. n \in HeldSlots'
  BY <1>6, <1>7 DEF HeldSlots, Held
<1> QED BY <1>2, <1>3, <1>4, <1>6, <1>7, <1>8, DownNext DEF Reports

\* What a frame is made of.
LEMMA FrameParts ==
  ASSUME HookInv, Next
  PROVE  \E list : \E zr \in BOOLEAN, step \in StickSteps :
           /\ ListOK(list) /\ Update(list) /\ MoveCursor(zr, step)
           /\ \A i \in DOMAIN list :
                /\ list[i].id = CursorId => list[i].x = cursor'
                /\ list[i].id = PartnerId => zr /\ list[i].x = cursor' + dualOffset'
<1>1. PICK panel \in PanelStates, a \in BOOLEAN, zr \in BOOLEAN, step \in StickSteps :
        Frame(panel, a, zr, step)
  BY DEF Next
<1>2. MoveCursor(zr, step)
  BY <1>1 DEF Frame
<1>3. cursor' \in Int /\ dualOffset' \in Int
  <2>1. cursor' \in 0 .. Width /\ dualOffset' \in Int
    BY <1>2, CursorStays DEF HookInv
  <2> QED BY <2>1, TouchAssumption DEF TouchAssumption
<1> DEFINE list == Cut(panel \o Virtual(a, zr, cursor', dualOffset'))
<1>4. Update(list)
  BY <1>1 DEF Frame
<1>5. /\ ListOK(list)
      /\ \A i \in DOMAIN list : /\ list[i].id = CursorId => list[i].x = cursor'
                                /\ list[i].id = PartnerId => zr /\ list[i].x = cursor' + dualOffset'
  BY <1>3, FrameList
<1> HIDE DEF list
<1> QED BY <1>2, <1>4, <1>5

\* The gesture's part of the invariant, over a frame.
LEMMA GestureStep ==
  ASSUME TypeOK, GestureInv, NEW list, ListOK(list), Update(list)
  PROVE  GestureInv'
<1> DEFINE d == Down(list)
<1>1. /\ owner' = Owner(d) /\ button' = (mouse # "waitClear" /\ owner' \in IdsOf(d))
      /\ mouse' = MouseAfter(list, d, button') /\ asked' = list
  BY DEF Update, Mouse
<1>2. /\ mouse \in {"idle", "tracking", "waitClear"} /\ button \in BOOLEAN
  BY DEF TypeOK
<1>3. ListOK(list)' /\ ListOK(asked)' /\ ActiveIds' \subseteq IdsOf(asked)'
  BY <1>1, DownNext DEF ListOK, IdsOf
<1>4. list = <<>> => ActiveIds' = {}
  BY DownNext DEF IdsOf
<1>5. ASSUME mouse = "idle", list # <<>> PROVE d # <<>>
  <2>1. asked = <<>>
    BY <1>5 DEF GestureInv
  <2>2. ActiveIds = {}
    BY <2>1 DEF GestureInv, IdsOf
  <2>3. HeldSlots = {}
    BY <2>2 DEF ActiveIds
  <2>4. NewSlots >= 1
    BY <2>3, HeldPlaces, FS_EmptySet
  <2>5. Len(list) \in Nat \ {0} /\ DOMAIN list = 1 .. Len(list)
    BY <1>5, EmptySeq, LenProperties DEF ListOK
  <2>6. {j \in DOMAIN list : list[j].id \notin ActiveIds} \cap (1 .. 1) = {1}
    BY <2>2, <2>5
  <2>7. Cardinality({1}) = 1
    BY FS_Singleton
  <2>8. 1 \in Admitted(list)
    BY <2>4, <2>5, <2>6, <2>7, HeldPlaces DEF Admitted
  <2>9. \E k \in DOMAIN d : d[k] = Touch(list[1])
    BY <2>8, DownReports
  <2> QED BY <2>9
<1>6. mouse' = "idle" => asked' = <<>>
  BY <1>1, <1>2, <1>5 DEF MouseAfter
<1>7. button' <=> mouse' = "tracking"
  <2>1. list = <<>> => ~ button'
    BY <1>1, <1>4, DownNext
  <2> QED BY <1>1, <1>2, <2>1 DEF MouseAfter
<1>8. button' => owner' \in ActiveIds'
  BY <1>1, DownNext
<1> QED BY <1>3, <1>6, <1>7, <1>8 DEF GestureInv

\* What a frame does to the mouse.
LEMMA GestureAction ==
  ASSUME TypeOK, GestureInv, NEW list, ListOK(list), Update(list)
  PROVE  /\ buttonDown' => asked = <<>>
         /\ button /\ button' => owner' = owner
         /\ button' => \E h \in ToSet(touches') : h.id = owner' /\ Held(h) /\ h.x = mouseX'
         /\ buttonUp' => owner \notin IdsOf(asked') /\ mouseX' = mouseX
<1> DEFINE d == Down(list)
<1>1. /\ owner' = Owner(d) /\ button' = (mouse # "waitClear" /\ owner' \in IdsOf(d))
      /\ asked' = list
      /\ mouseX' = IF button' THEN (CHOOSE h \in ToSet(d) : h.id = owner').x ELSE mouseX
      /\ buttonDown' = (button' /\ ~ button) /\ buttonUp' = (button /\ ~ button')
  BY DEF Update, Mouse
<1>2. mouse \in {"idle", "tracking", "waitClear"} /\ (button <=> mouse = "tracking")
  BY DEF TypeOK, GestureInv
<1>3. buttonDown' => asked = <<>>
  BY <1>1, <1>2 DEF GestureInv
<1>4. button => owner' = owner
  BY <1>1, <1>2 DEF Owner
<1>5. ASSUME button' PROVE \E h \in ToSet(touches') : h.id = owner' /\ Held(h) /\ h.x = mouseX'
  <2>1. PICK n \in HeldSlots' : touches'[n].id = owner' /\ touches'[n].x = mouseX'
    BY <1>5, MouseFollows
  <2>2. n \in DOMAIN touches' /\ Held(touches'[n])
    BY DEF HeldSlots, Held
  <2> QED BY <2>1, <2>2 DEF ToSet
<1>6. ASSUME buttonUp' PROVE owner \notin IdsOf(asked') /\ mouseX' = mouseX
  <2>1. button /\ ~ button'
    BY <1>1, <1>6
  <2>2. owner' = owner /\ owner \in ActiveIds /\ owner \notin IdsOf(d)
    BY <1>1, <1>2, <1>4, <2>1 DEF GestureInv
  <2>3. ASSUME owner \in IdsOf(list) PROVE FALSE
    <3>1. PICK i \in DOMAIN list : list[i].id = owner
      BY <2>3 DEF IdsOf
    <3>2. i \in Admitted(list)
      BY <2>2, <3>1, DownNext
    <3> QED BY <2>2, <3>1, <3>2, DownNext
  <2> QED BY <1>1, <2>1, <2>3
<1> QED BY <1>3, <1>4, <1>5, <1>6

\* Two points at one offset from two others are as far from them.
LEMMA SameDistance ==
  ASSUME NEW p \in Int, NEW q \in Int, NEW off \in Int
  PROVE  (p + off) - p = (q + off) - q
<1>1. (p + off) - p = off
  OBVIOUS
<1>2. (q + off) - q = off
  OBVIOUS
<1> QED BY <1>1, <1>2

\* The pair's part of the invariant, and what a player sees of it, over a frame.
LEMMA PairStep ==
  ASSUME TypeOK, PairInv, NEW zr \in BOOLEAN, NEW step \in StickSteps, MoveCursor(zr, step),
         NEW list, ListOK(list), Update(list),
         \A i \in DOMAIN list : /\ list[i].id = CursorId => list[i].x = cursor'
                                /\ list[i].id = PartnerId => zr /\ list[i].x = cursor' + dualOffset'
  PROVE  PairInv' /\ PairTogether'
<1>1. /\ dual' = zr /\ cursor' \in 0 .. Width /\ dualOffset' \in Int
      /\ dual' => /\ dualOffset' \in (- Width .. Width) \ {0}
                  /\ cursor' + dualOffset' \in 0 .. Width
      /\ dual /\ dual' => dualOffset' = dualOffset
  BY CursorStays
<1>2. ASSUME NEW n \in HeldSlots'
      PROVE  /\ touches'[n].id = CursorId => touches'[n].x = cursor'
             /\ touches'[n].id = PartnerId => dual' /\ touches'[n].x = cursor' + dualOffset'
             /\ touches'[n].phase # "began" =>
                  \E j \in HeldSlots : touches[j].id = touches'[n].id
                                       /\ touches'[n].prev = touches[j].x
  <2>1. PICK i \in Admitted(list) : touches'[n] = Touch(list[i])
    BY DownNext
  <2>2. /\ i \in DOMAIN list /\ list[i] \in Fingers
        /\ Touch(list[i]).id = list[i].id /\ Touch(list[i]).x = list[i].x
    BY DownNext, TouchReports
  <2>3. Touch(list[i]).phase # "began" =>
          \E j \in HeldSlots : touches[j].id = list[i].id /\ Touch(list[i]).prev = touches[j].x
    BY <2>2, TouchReports DEF ActiveIds
  <2> QED BY <1>1, <2>1, <2>2, <2>3
<1>3. PairInv'
  BY <1>1, <1>2 DEF PairInv
<1>4. ASSUME NEW m \in HeldSlots', NEW n \in HeldSlots',
             touches'[m].id = CursorId, touches'[n].id = PartnerId
      PROVE  /\ {touches'[m].x, touches'[n].x} \subseteq 0 .. Width
             /\ touches'[m].x # touches'[n].x
             /\ touches'[m].phase # "began" /\ touches'[n].phase # "began" =>
                  touches'[n].x - touches'[m].x = touches'[n].prev - touches'[m].prev
  <2>1. /\ touches'[m].x = cursor' /\ touches'[n].x = cursor' + dualOffset' /\ dual'
    BY <1>2, <1>4
  <2>2. Width \in Nat /\ cursor \in 0 .. Width /\ dualOffset \in Int
    BY TouchAssumption DEF TouchAssumption, TypeOK
  <2>3. ASSUME touches'[m].phase # "began", touches'[n].phase # "began"
        PROVE  touches'[n].x - touches'[m].x = touches'[n].prev - touches'[m].prev
    <3>1. PICK j \in HeldSlots : touches[j].id = CursorId /\ touches'[m].prev = touches[j].x
      BY <1>2, <1>4, <2>3
    <3>2. PICK k \in HeldSlots : touches[k].id = PartnerId /\ touches'[n].prev = touches[k].x
      BY <1>2, <1>4, <2>3
    <3>3. touches[j].x = cursor /\ touches[k].x = cursor + dualOffset /\ dual
      BY <3>1, <3>2 DEF PairInv
    <3>4. dualOffset' = dualOffset
      BY <1>1, <2>1, <3>3
    <3>5. cursor \in Int /\ cursor' \in Int /\ dualOffset \in Int
      BY <1>1, <2>2
    <3>6. (cursor' + dualOffset) - cursor' = (cursor + dualOffset) - cursor
      BY ONLY <3>5, SameDistance
    <3> QED BY <2>1, <3>1, <3>2, <3>3, <3>4, <3>6
  <2> QED BY <1>1, <2>1, <2>2, <2>3
<1>5. PairTogether'
  <2> SUFFICES ASSUME NEW c \in {h \in ToSet(touches') : Held(h)},
                      NEW p \in {h \in ToSet(touches') : Held(h)},
                      c.id = CursorId, p.id = PartnerId
               PROVE  /\ {c.x, p.x} \subseteq 0 .. Width /\ c.x # p.x
                      /\ c.phase # "began" /\ p.phase # "began" => p.x - c.x = p.prev - c.prev
    BY DEF PairTogether, Held, ToSet
  <2>1. PICK m \in DOMAIN touches', n \in DOMAIN touches' : c = touches'[m] /\ p = touches'[n]
    BY DEF ToSet
  <2>2. m \in HeldSlots' /\ n \in HeldSlots'
    BY <2>1 DEF HeldSlots, Held
  <2> QED BY <1>4, <2>1, <2>2
<1> QED BY <1>3, <1>5

\* A finger begins once, goes on from where it was, and ends once.
LEMMA LifecycleStep ==
  ASSUME TypeOK, NEW list, ListOK(list), Update(list), NEW id \in Ids
  PROVE  IF id \in ActiveIds
           THEN \E h \in ToSet(touches'), g \in ToSet(touches) :
                  /\ h.id = id /\ g.id = id /\ h.phase # "began" /\ h.prev = g.x
                  /\ Held(h) <=> id \in IdsOf(asked')
           ELSE \A h \in ToSet(touches') : h.id = id => h.phase = "began"
<1>1. asked' = list
  BY DEF Update
<1>2. ASSUME NEW j \in HeldSlots, touches[j].id = id
      PROVE  \E h \in ToSet(touches'), g \in ToSet(touches) :
               /\ h.id = id /\ g.id = id /\ h.phase # "began" /\ h.prev = g.x
               /\ Held(h) <=> id \in IdsOf(list)
  <2>1. touches[j] \in ToSet(touches)
    BY DEF ToSet, HeldSlots
  <2>2. CASE id \in IdsOf(list)
    <3>1. PICK i \in DOMAIN list : list[i].id = id
      BY <2>2 DEF IdsOf
    <3>2. i \in Admitted(list) /\ list[i] \in Fingers
      BY <1>2, <3>1, DownNext DEF ActiveIds
    <3>3. /\ Touch(list[i]).id = id /\ Touch(list[i]).phase # "ended"
          /\ Touch(list[i]).phase # "began" /\ Touch(list[i]).prev = touches[j].x
      BY <1>2, <3>1, <3>2, TouchReports
    <3>4. Touch(list[i]) \in ToSet(touches')
      BY <3>2, UpdateReports DEF ToSet
    <3> QED BY <1>2, <2>1, <2>2, <3>3, <3>4 DEF Held
  <2>3. CASE id \notin IdsOf(list)
    <3>1. j \in GoneSlots(list)
      BY <1>2, <2>3 DEF GoneSlots
    <3>2. Ended(touches[j]) \in ToSet(touches')
      BY <3>1, UpdateReports DEF ToSet
    <3>3. /\ Ended(touches[j]).id = id /\ Ended(touches[j]).phase = "ended"
          /\ Ended(touches[j]).prev = touches[j].x
      BY <1>2, HeldPlaces DEF Ended, Reports
    <3> QED BY <1>2, <2>1, <2>3, <3>2, <3>3 DEF Held
  <2> QED BY <2>2, <2>3
<1>3. ASSUME id \notin ActiveIds, NEW h \in ToSet(touches'), h.id = id
      PROVE  h.phase = "began"
  <2>1. PICK n \in DOMAIN touches' : h = touches'[n]
    BY DEF ToSet
  <2>2. CASE \E i \in Admitted(list) : h = Touch(list[i])
    BY <1>3, <2>2, DownNext, TouchReports
  <2>3. CASE \E j \in GoneSlots(list) : h = Ended(touches[j])
    BY <1>3, <2>3, HeldPlaces DEF GoneSlots, Ended, Reports, ActiveIds
  <2> QED BY <2>1, <2>2, <2>3, UpdateReports
<1> QED BY <1>1, <1>2, <1>3 DEF ActiveIds

\* A finger waits a frame for a slot, and no longer unless other fingers come.
LEMMA DeferredStep ==
  ASSUME TypeOK, GestureInv, NEW list, ListOK(list), Update(list), IdsOf(list) \subseteq IdsOf(asked)
  PROVE  ActiveIds' = IdsOf(list)
<1> DEFINE new == {j \in DOMAIN list : list[j].id \notin ActiveIds}
           newIds == {list[j].id : j \in new}
<1>1. /\ DOMAIN list = 1 .. Len(list) /\ Len(list) \in Nat
      /\ \A i, j \in 1 .. Len(list) : list[i].id = list[j].id => i = j
  BY LenProperties DEF ListOK
<1>2. DOMAIN asked = 1 .. Len(asked) /\ Len(asked) \in Nat /\ Len(asked) <= MaxTouches
  BY LenProperties DEF GestureInv, ListOK
<1>3. /\ IsFiniteSet(1 .. Len(asked)) /\ Cardinality(1 .. Len(asked)) = Len(asked)
  <2>1. /\ IsFiniteSet(1 .. Len(asked))
        /\ Cardinality(1 .. Len(asked)) = IF 1 > Len(asked) THEN 0 ELSE Len(asked) - 1 + 1
    BY <1>2, FS_Interval
  <2> QED BY <1>2, <2>1
<1>4. IsFiniteSet(IdsOf(asked)) /\ Cardinality(IdsOf(asked)) <= MaxTouches
      /\ Cardinality(IdsOf(asked)) \in Nat
  <2> DEFINE f == [i \in 1 .. Len(asked) |-> asked[i].id]
  <2>1. IdsOf(asked) = {f[i] : i \in 1 .. Len(asked)} /\ f = [i \in 1 .. Len(asked) |-> f[i]]
    BY <1>2 DEF IdsOf
  <2> HIDE DEF f
  <2>2. /\ IsFiniteSet({f[i] : i \in 1 .. Len(asked)})
        /\ Cardinality({f[i] : i \in 1 .. Len(asked)}) \in Nat
        /\ Cardinality({f[i] : i \in 1 .. Len(asked)}) <= Cardinality(1 .. Len(asked))
    BY <1>3, <2>1, FewValues
  <2> QED BY <1>2, <1>3, <2>1, <2>2, TouchAssumption DEF TouchAssumption
<1>5. newIds \subseteq IdsOf(asked) /\ ActiveIds \subseteq IdsOf(asked) /\ newIds \cap ActiveIds = {}
  BY DEF IdsOf, GestureInv
<1>6. /\ IsFiniteSet(newIds) /\ IsFiniteSet(ActiveIds)
      /\ Cardinality(newIds) \in Nat /\ Cardinality(ActiveIds) \in Nat
      /\ Cardinality(newIds) + Cardinality(ActiveIds) <= MaxTouches
  <2>1. IsFiniteSet(newIds) /\ IsFiniteSet(ActiveIds)
    BY <1>4, <1>5, FS_Subset
  <2>2. Cardinality(newIds) \in Nat /\ Cardinality(ActiveIds) \in Nat
    BY <2>1, FS_CardinalityType
  <2>3. newIds \cup ActiveIds \subseteq IdsOf(asked)
    BY <1>5
  <2>4. Cardinality(newIds \cup ActiveIds) <= Cardinality(IdsOf(asked))
    BY <1>4, <2>3, FS_Subset
  <2>5. Cardinality(newIds \cup ActiveIds)
          = Cardinality(newIds) + Cardinality(ActiveIds) - Cardinality(newIds \cap ActiveIds)
    BY <2>1, FS_Union
  <2>6. Cardinality(newIds \cap ActiveIds) = 0
    BY <1>5, FS_EmptySet
  <2> HIDE DEF newIds
  <2>7. MaxTouches \in Nat
    BY TouchAssumption DEF TouchAssumption
  <2> QED BY <1>4, <2>1, <2>2, <2>4, <2>5, <2>6, <2>7
<1>7. new \in SUBSET (1 .. Len(list)) /\ IsFiniteSet(new) /\ Cardinality(new) <= Cardinality(newIds)
  <2> DEFINE f == [j \in new |-> list[j].id]
  <2>1. new \in SUBSET (1 .. Len(list))
    BY <1>1
  <2>2. \A i, j \in new : f[i] = f[j] => i = j
    BY <1>1
  <2>3. f \in [new -> newIds]
    OBVIOUS
  <2>4. f \in Injection(new, newIds)
    BY <2>2, <2>3 DEF Injection, IsInjective
  <2> QED BY <1>6, <2>1, <2>4, FS_Injection
<1>8. Cardinality(HeldSlots) <= Cardinality(ActiveIds)
  <2> DEFINE f == [j \in HeldSlots |-> touches[j].id]
  <2>1. \A i, j \in HeldSlots : f[i] = f[j] => i = j
    BY HeldPlaces
  <2>2. f \in [HeldSlots -> ActiveIds]
    BY DEF ActiveIds
  <2>3. f \in Injection(HeldSlots, ActiveIds)
    BY <2>1, <2>2 DEF Injection, IsInjective
  <2> QED BY <1>6, <2>3, FS_Injection
<1>9. Cardinality(new) \in Nat /\ Cardinality(new) <= NewSlots
  <2>1. Cardinality(new) \in Nat
    BY <1>7, FS_CardinalityType
  <2> HIDE DEF new, newIds
  <2> QED BY <1>6, <1>7, <1>8, <2>1, HeldPlaces
<1>10. ASSUME NEW i \in DOMAIN list PROVE i \in Admitted(list)
  <2>1. i \in Nat
    BY <1>1
  <2>2. /\ Cardinality(new \cap (1 .. i)) \in Nat
        /\ Cardinality(new \cap (1 .. i)) <= Cardinality(new)
    BY <1>1, <1>7, <2>1, CountStep
  <2>3. Cardinality(new \cap (1 .. i)) <= NewSlots
    <3> HIDE DEF new
    <3> QED BY <1>9, <2>2, HeldPlaces
  <2> QED BY <2>3 DEF Admitted
<1> QED BY <1>10, DownNext DEF IdsOf

\* The type invariant over a frame.
LEMMA TypeStep ==
  ASSUME TypeOK, PairInv, NEW zr \in BOOLEAN, NEW step \in StickSteps, MoveCursor(zr, step),
         NEW list, ListOK(list), Update(list)
  PROVE  TypeOK'
<1> DEFINE d == Down(list)
<1>1. /\ owner' = Owner(d) /\ button' = (mouse # "waitClear" /\ owner' \in IdsOf(d))
      /\ mouse' = MouseAfter(list, d, button')
      /\ mouseX' = IF button' THEN (CHOOSE h \in ToSet(d) : h.id = owner').x ELSE mouseX
      /\ buttonDown' = (button' /\ ~ button) /\ buttonUp' = (button /\ ~ button')
  BY DEF Update, Mouse
<1>2. /\ touches' \in Seq(Reports) /\ Len(touches') <= MaxTouches
      /\ \A i, j \in DOMAIN touches' : touches'[i].id = touches'[j].id => i = j
  BY UpdateReports
<1>3. mouse' \in {"idle", "tracking", "waitClear"}
  BY <1>1 DEF MouseAfter, TypeOK
<1>4. owner' \in Ids \cup {0}
  <2>1. CASE mouse = "idle" /\ d # <<>>
    <3>1. d \in Seq(Reports)
      BY DownReports
    <3>2. 1 \in 1 .. Len(d)
      BY <2>1, <3>1, EmptySeq
    <3>3. d[1] \in Reports
      BY <3>1, <3>2, ElementOfSeq
    <3> QED BY <1>1, <2>1, <3>3 DEF Owner, Reports
  <2>2. CASE ~ (mouse = "idle" /\ d # <<>>)
    BY <1>1, <2>2 DEF Owner, TypeOK
  <2> QED BY <2>1, <2>2
<1>5. button' \in BOOLEAN /\ buttonDown' \in BOOLEAN /\ buttonUp' \in BOOLEAN /\ dual' \in BOOLEAN
  BY <1>1 DEF MoveCursor, TypeOK
<1>6. mouseX' \in Int
  <2>1. CASE button'
    BY <2>1, MouseFollows
  <2>2. CASE ~ button'
    BY <1>1, <2>2 DEF TypeOK
  <2> QED BY <2>1, <2>2
<1>7. cursor' \in 0 .. Width /\ dualOffset' \in Int
  BY CursorStays
<1> QED BY <1>2, <1>3, <1>4, <1>5, <1>6, <1>7 DEF TypeOK, Reports

-----------------------------------------------------------------------------
(* The theorems about the input hook.                                      *)

\* The invariant holds at boot.
LEMMA HookInitially ==
  ASSUME Init
  PROVE  HookInv /\ PairTogether
<1>1. /\ touches = <<>> /\ mouse = "idle" /\ owner = 0 /\ button = FALSE /\ buttonDown = FALSE
      /\ buttonUp = FALSE /\ mouseX = 0 /\ cursor = CursorStart /\ dual = FALSE
      /\ dualOffset = PairOffset /\ asked = <<>>
  BY DEF Init
<1>2. DOMAIN <<>> = {}
  OBVIOUS
<1>3. HeldSlots = {} /\ ActiveIds = {}
  BY <1>1, <1>2 DEF HeldSlots, ActiveIds
<1>4. MaxTouches \in Nat /\ PairOffset \in Int /\ CursorStart \in 0 .. Width
  BY TouchAssumption DEF TouchAssumption
<1>5. TypeOK
  <2>1. <<>> \in Seq(Reports) /\ Len(<<>>) = 0
    BY EmptySeq
  <2>2. cursor \in 0 .. Width /\ dualOffset \in Int /\ mouseX \in Int
    BY <1>1, <1>4
  <2>3. touches \in Seq(Reports) /\ Len(touches) <= MaxTouches
    BY <1>1, <1>4, <2>1
  <2>4. \A i, j \in DOMAIN touches : touches[i].id = touches[j].id => i = j
    BY <1>1, <1>2
  <2>5. mouse \in {"idle", "tracking", "waitClear"} /\ owner \in Ids \cup {0}
    BY <1>1
  <2>6. {button, buttonDown, buttonUp, dual} \subseteq BOOLEAN
    BY <1>1
  <2> QED BY <2>2, <2>3, <2>4, <2>5, <2>6 DEF TypeOK, Reports
<1>6. GestureInv
  BY <1>1, <1>2, <1>3, <1>4, EmptySeq DEF GestureInv, ListOK
<1>7. PairInv
  BY <1>1, <1>3 DEF PairInv
<1>8. PairTogether
  BY <1>1, <1>2 DEF PairTogether, ToSet
<1> QED BY <1>5, <1>6, <1>7, <1>8 DEF HookInv

\* A frame keeps the invariant, and leaves the pair together.
LEMMA HookStep ==
  ASSUME HookInv, Next
  PROVE  HookInv' /\ PairTogether'
<1>1. PICK list :
        \E zr \in BOOLEAN, step \in StickSteps :
          /\ ListOK(list) /\ Update(list) /\ MoveCursor(zr, step)
          /\ \A i \in DOMAIN list :
               /\ list[i].id = CursorId => list[i].x = cursor'
               /\ list[i].id = PartnerId => zr /\ list[i].x = cursor' + dualOffset'
  BY FrameParts
<1>2. PICK zr \in BOOLEAN, step \in StickSteps :
          /\ ListOK(list) /\ Update(list) /\ MoveCursor(zr, step)
          /\ \A i \in DOMAIN list :
               /\ list[i].id = CursorId => list[i].x = cursor'
               /\ list[i].id = PartnerId => zr /\ list[i].x = cursor' + dualOffset'
  BY <1>1
<1>3. TypeOK /\ GestureInv /\ PairInv
  BY DEF HookInv
<1>4. TypeOK'
  BY <1>2, <1>3, TypeStep
<1>5. GestureInv'
  BY <1>2, <1>3, GestureStep
<1>6. PairInv' /\ PairTogether'
  BY <1>2, <1>3, PairStep
<1> QED BY <1>4, <1>5, <1>6 DEF HookInv

\* A step in which nothing of the hook changes keeps both.
LEMMA HookStutter ==
  ASSUME HookInv, PairTogether, UNCHANGED vars
  PROVE  HookInv' /\ PairTogether'
<1>1. /\ touches' = touches /\ mouse' = mouse /\ owner' = owner /\ button' = button
      /\ buttonDown' = buttonDown /\ buttonUp' = buttonUp /\ mouseX' = mouseX
      /\ cursor' = cursor /\ dual' = dual /\ dualOffset' = dualOffset /\ asked' = asked
  BY DEF vars, pairVars
<1>2. HeldSlots' = HeldSlots /\ ActiveIds' = ActiveIds
  BY <1>1 DEF HeldSlots, ActiveIds, Held
<1>3. TypeOK'
  BY <1>1 DEF TypeOK, HookInv
<1>4. GestureInv'
  BY <1>1, <1>2 DEF GestureInv, HookInv, ListOK, IdsOf
<1>5. PairInv'
  BY <1>1, <1>2 DEF PairInv, HookInv
<1>6. PairTogether'
  BY <1>1 DEF PairTogether, ToSet, Held
<1> QED BY <1>3, <1>4, <1>5, <1>6 DEF HookInv

\* The invariant and the pair together, of every behaviour of the hook.
THEOREM HookInvariant == Spec => [](HookInv /\ PairTogether)
<1>1. Init => HookInv /\ PairTogether
  BY HookInitially
<1>2. HookInv /\ PairTogether /\ [Next]_vars => (HookInv /\ PairTogether)'
  BY HookStep, HookStutter
<1> QED BY <1>1, <1>2, PTL DEF Spec

\* What Input.GetTouch can index is within s_touches, and no finger is in it
\* twice (unity_input_hook.c:116-185), however many fingers come and go.
THEOREM TouchesTyped == Spec => []TypeOK
BY HookInvariant, PTL DEF HookInv

\* The two virtual fingers stay on the screen and slide together
\* (android_native_unity.c:259-285), wherever the stick takes them.
THEOREM PairStaysTogether == Spec => []PairTogether
BY HookInvariant, PTL

\* A frame of the hook keeps to the life of a finger.
LEMMA FingerAction ==
  ASSUME HookInv, Next
  PROVE  /\ \A id \in Ids :
              IF id \in ActiveIds
                THEN \E h \in ToSet(touches'), g \in ToSet(touches) :
                       /\ h.id = id /\ g.id = id /\ h.phase # "began" /\ h.prev = g.x
                       /\ Held(h) <=> id \in IdsOf(asked')
                ELSE \A h \in ToSet(touches') : h.id = id => h.phase = "began"
         /\ IdsOf(asked') \subseteq IdsOf(asked) => ActiveIds' = IdsOf(asked')
<1>1. PICK list : ListOK(list) /\ Update(list)
  BY FrameParts
<1>2. TypeOK /\ GestureInv /\ asked' = list
  BY <1>1 DEF HookInv, Update
<1>3. IdsOf(asked') \subseteq IdsOf(asked) => ActiveIds' = IdsOf(asked')
  BY <1>1, <1>2, DeferredStep
<1> QED BY <1>1, <1>2, <1>3, LifecycleStep

\* unity_input_hook.h:23-24 and unity_input_hook.c:131-132, for any number of
\* fingers and slots: a finger begins once, goes on from where it was and ends
\* once, and one that found no slot waits no longer than a frame for it.
THEOREM FingersAreReported == Spec => FingersReported
<1>1. HookInv /\ [Next]_vars =>
        [/\ \A id \in Ids :
              IF id \in ActiveIds
                THEN \E h \in ToSet(touches'), g \in ToSet(touches) :
                       /\ h.id = id /\ g.id = id /\ h.phase # "began" /\ h.prev = g.x
                       /\ Held(h) <=> id \in IdsOf(asked')
                ELSE \A h \in ToSet(touches') : h.id = id => h.phase = "began"
         /\ IdsOf(asked') \subseteq IdsOf(asked) => ActiveIds' = IdsOf(asked')]_vars
  BY FingerAction
<1>2. HookInv /\ [Next]_vars =>
        /\ [\A id \in Ids :
              IF id \in ActiveIds
                THEN \E h \in ToSet(touches'), g \in ToSet(touches) :
                       /\ h.id = id /\ g.id = id /\ h.phase # "began" /\ h.prev = g.x
                       /\ Held(h) <=> id \in IdsOf(asked')
                ELSE \A h \in ToSet(touches') : h.id = id => h.phase = "began"]_vars
        /\ [IdsOf(asked') \subseteq IdsOf(asked) => ActiveIds' = IdsOf(asked')]_vars
  BY <1>1
<1>3. Spec => Lifecycle /\ DeferredOneFrame
  BY <1>2, HookInvariant, PTL DEF Spec, Lifecycle, DeferredOneFrame
<1> QED BY <1>3 DEF FingersReported

\* unity_input_hook.h:27-28: the mouse follows the first finger until it lifts,
\* and then nothing until every finger has.
THEOREM MouseKeepsToGesture == Spec => MouseGesture
<1>1. ASSUME HookInv, Next
      PROVE  /\ buttonDown' => asked = <<>>
             /\ button /\ button' => owner' = owner
             /\ button' => \E h \in ToSet(touches') : h.id = owner' /\ Held(h) /\ h.x = mouseX'
             /\ buttonUp' => owner \notin IdsOf(asked') /\ mouseX' = mouseX
  <2>1. PICK list : ListOK(list) /\ Update(list)
    BY <1>1, FrameParts
  <2>2. TypeOK /\ GestureInv
    BY <1>1 DEF HookInv
  <2> QED BY <2>1, <2>2, GestureAction
<1>2. HookInv /\ [Next]_vars =>
        [/\ buttonDown' => asked = <<>>
         /\ button /\ button' => owner' = owner
         /\ button' => \E h \in ToSet(touches') : h.id = owner' /\ Held(h) /\ h.x = mouseX'
         /\ buttonUp' => owner \notin IdsOf(asked') /\ mouseX' = mouseX]_vars
  BY <1>1
<1> QED BY <1>2, HookInvariant, PTL DEF Spec, MouseGesture

-----------------------------------------------------------------------------
(* The pipes (FakePipes).                                                  *)

RingOf == [buf : Seq(Nat), refs : Int, sent : Nat, got : Seq(Nat)]

\* The numbers of the first n bytes sent through a pipe, and of the n after those.
FirstBytes(n) == [k \in 1 .. n |-> k]
NextBytes(sent, n) == [k \in 1 .. n |-> sent + k]

\* What came out of a ring and what is left in it are the bytes sent, in order.
Carried(r) == r.got \o r.buf = FirstBytes(r.sent)

\* A ring is counted once by each descriptor of it, even one that is free again,
\* and a thread that reads does so from the ring its descriptor names.
PipesInv ==
  /\ fds \in [Piping!Slots -> [kind : {"none", "r", "w"}, ring : Rings \cup {None}]]
  /\ ring \in [Rings -> RingOf]
  /\ reader \in [Users -> [ring : Rings \cup {None}, fd : Nat, asleep : BOOLEAN]]
  /\ \A i \in Piping!Slots : fds[i].kind = "none" <=> fds[i].ring = None
  /\ \A p \in Rings :
       /\ Len(ring[p].buf) <= PipeCap
       /\ ring[p].refs \in 0 .. 2
       /\ ring[p].refs = Cardinality({i \in Piping!Slots : fds[i].ring = p})
       /\ Carried(ring[p])
  /\ \A t \in Users : reader[t] # Piping!NotReading =>
       /\ reader[t].fd \in Piping!Slots
       /\ fds[reader[t].fd] = [kind |-> "r", ring |-> reader[t].ring]

\* Three lists of bytes, one after the other.
LEMMA JoinedInTurn ==
  \A a, b, c \in Seq(Nat) : (a \o b) \o c = a \o (b \o c)
BY ONLY ConcatAssociative, SMT

\* Bytes put behind those that are there, with the numbers that come next.
LEMMA WriteExtends ==
  ASSUME NEW got \in Seq(Nat), NEW buf \in Seq(Nat), NEW sent \in Nat, NEW n \in Nat
  PROVE  /\ buf \o NextBytes(sent, n) \in Seq(Nat)
         /\ Len(buf \o NextBytes(sent, n)) = Len(buf) + n
         /\ got \o buf = FirstBytes(sent) =>
              got \o (buf \o NextBytes(sent, n)) = FirstBytes(sent + n)
<1> DEFINE more == NextBytes(sent, n)
           whole == FirstBytes(sent + n)
           old == got \o buf
<1>1. more \in [1 .. n -> Nat] /\ whole \in [1 .. sent + n -> Nat]
  BY DEF NextBytes, FirstBytes
<1>2. /\ \A k \in 1 .. n : more[k] = sent + k
      /\ \A k \in 1 .. sent + n : whole[k] = k
  BY DEF NextBytes, FirstBytes
<1>3. sent + n \in Nat
  OBVIOUS
<1> HIDE DEF more, whole
<1>4. more \in Seq(Nat) /\ Len(more) = n
  BY <1>1, FunctionIsList
<1>5. whole \in Seq(Nat) /\ Len(whole) = sent + n
  BY <1>1, <1>3, FunctionIsList
<1>6. old \in Seq(Nat) /\ got \o (buf \o more) = old \o more
  <2>1. old \in Seq(Nat)
    BY ConcatProperties
  <2>2. got \o (buf \o more) = old \o more
    BY <1>4, JoinedInTurn, Zenon
  <2> QED BY <2>1, <2>2
<1>7. buf \o more \in Seq(Nat) /\ Len(buf \o more) = Len(buf) + n
  BY <1>4, ConcatProperties
<1> HIDE DEF old
<1>8. ASSUME old = FirstBytes(sent) PROVE old \o more = whole
  <2>1. Len(old) = sent /\ \A k \in 1 .. sent : old[k] = k
    <3>1. FirstBytes(sent) \in [1 .. sent -> Nat] /\ \A k \in 1 .. sent : FirstBytes(sent)[k] = k
      BY DEF FirstBytes
    <3>2. Len(FirstBytes(sent)) = sent
      BY <3>1, FunctionIsList
    <3> QED BY <1>8, <3>1, <3>2
  <2>2. /\ old \o more \in Seq(Nat) /\ Len(old \o more) = Len(old) + Len(more)
        /\ \A k \in 1 .. Len(old) + Len(more) : (old \o more)[k] =
             IF k <= Len(old) THEN old[k] ELSE more[k - Len(old)]
    <3> DEFINE o == old
    <3>1. o \in Seq(Nat) /\ o = old
      BY <1>6
    <3> HIDE DEF o
    <3>2. /\ o \o more \in Seq(Nat) /\ Len(o \o more) = Len(o) + Len(more)
          /\ \A k \in 1 .. Len(o) + Len(more) : (o \o more)[k] =
               IF k <= Len(o) THEN o[k] ELSE more[k - Len(o)]
      BY <1>4, <3>1, ConcatProperties
    <3> QED BY <3>1, <3>2
  <2>3. ASSUME NEW k \in 1 .. sent + n PROVE (old \o more)[k] = whole[k]
    <3>1. CASE k <= sent
      <4>1. k \in 1 .. sent
        BY <3>1
      <4> QED BY <1>2, <1>4, <2>1, <2>2, <3>1, <4>1
    <3>2. CASE ~ (k <= sent)
      <4>1. k - sent \in 1 .. n /\ sent + (k - sent) = k
        BY <3>2
      <4> QED BY <1>2, <1>4, <2>1, <2>2, <3>2, <4>1
    <3> QED BY <3>1, <3>2
  <2> QED BY <1>4, <1>5, <2>1, <2>2, <2>3, SeqEqual
<1> QED BY <1>6, <1>7, <1>8 DEF more, whole, old

\* Bytes taken from the front of those that are there.
LEMMA TakeMoves ==
  ASSUME NEW got \in Seq(Nat), NEW buf \in Seq(Nat), NEW n \in 0 .. Len(buf)
  PROVE  LET first == SubSeq(buf, 1, n)
             rest  == SubSeq(buf, n + 1, Len(buf)) IN
           /\ got \o first \in Seq(Nat) /\ rest \in Seq(Nat) /\ Len(rest) <= Len(buf)
           /\ (got \o first) \o rest = got \o buf
<1> DEFINE first == SubSeq(buf, 1, n)
           rest == SubSeq(buf, n + 1, Len(buf))
<1>1. Len(buf) \in Nat /\ n \in Nat /\ n <= Len(buf)
  BY LenProperties
<1>2. /\ \A i \in 1 .. n : buf[i] \in Nat
      /\ \A i \in n + 1 .. Len(buf) : buf[i] \in Nat
  BY <1>1
<1>3. /\ first \in Seq(Nat) /\ Len(first) = IF 1 <= n THEN n - 1 + 1 ELSE 0
      /\ \A i \in 1 .. (n - 1 + 1) : first[i] = buf[1 + i - 1]
  BY <1>1, <1>2, SubSeqProperties
<1>4. /\ rest \in Seq(Nat)
      /\ Len(rest) = IF n + 1 <= Len(buf) THEN Len(buf) - (n + 1) + 1 ELSE 0
      /\ \A i \in 1 .. (Len(buf) - (n + 1) + 1) : rest[i] = buf[n + 1 + i - 1]
  BY <1>1, <1>2, SubSeqProperties
<1> HIDE DEF first, rest
<1>5. Len(first) = n /\ Len(rest) = Len(buf) - n
  BY <1>1, <1>3, <1>4
<1>6. /\ first \o rest \in Seq(Nat) /\ Len(first \o rest) = Len(buf)
      /\ \A i \in 1 .. Len(buf) : (first \o rest)[i] = IF i <= n THEN first[i] ELSE rest[i - n]
  <2>1. n + (Len(buf) - n) = Len(buf)
    BY <1>1
  <2>2. /\ first \o rest \in Seq(Nat) /\ Len(first \o rest) = Len(first) + Len(rest)
        /\ \A i \in 1 .. Len(first) + Len(rest) :
             (first \o rest)[i] = IF i <= Len(first) THEN first[i] ELSE rest[i - Len(first)]
    BY <1>3, <1>4, ConcatProperties
  <2> QED BY <1>5, <2>1, <2>2
<1>7. ASSUME NEW i \in 1 .. Len(buf) PROVE (first \o rest)[i] = buf[i]
  <2>1. CASE i <= n
    <3>1. i \in 1 .. (n - 1 + 1) /\ 1 + i - 1 = i
      BY <1>1, <2>1
    <3> QED BY <1>3, <1>6, <2>1, <3>1
  <2>2. CASE ~ (i <= n)
    <3>1. i - n \in 1 .. (Len(buf) - (n + 1) + 1) /\ n + 1 + (i - n) - 1 = i
      BY <1>1, <2>2
    <3>2. rest[i - n] = buf[n + 1 + (i - n) - 1]
      BY <1>4, <3>1
    <3> QED BY <1>6, <2>2, <3>1, <3>2
  <2> QED BY <2>1, <2>2
<1>8. first \o rest = buf
  BY <1>6, <1>7, SeqEqual
<1>9. got \o first \in Seq(Nat) /\ (got \o first) \o rest = got \o (first \o rest)
  <2>1. got \o first \in Seq(Nat)
    BY <1>3, ConcatProperties
  <2>2. (got \o first) \o rest = got \o (first \o rest)
    <3>1. first \in Seq(Nat) /\ rest \in Seq(Nat)
      BY <1>3, <1>4
    <3> QED BY <3>1, JoinedInTurn, Zenon
  <2> QED BY <2>1, <2>2
<1>10. Len(rest) <= Len(buf)
  BY <1>1, <1>5
<1>11. (got \o first) \o rest = got \o buf
  BY <1>8, <1>9
<1> QED BY <1>4, <1>9, <1>10, <1>11 DEF first, rest

\* The instances count as this module does.
LEMMA SameCardinality ==
  /\ \A S : Piping!Cardinality(S) = Cardinality(S)
  /\ \A S : Looping!Cardinality(S) = Cardinality(S)
BY DEF Piping!Cardinality, Looping!Cardinality, Cardinality

\* The constants of the pipes.
LEMMA PipesConstants ==
  /\ MaxFakeFds \in Nat /\ PipeCap \in Nat \ {0} /\ Chunk \in Nat \ {0} /\ None \notin Rings
  /\ Piping!Slots = 1 .. MaxFakeFds /\ IsFiniteSet(Piping!Slots)
  /\ \A p : IsFiniteSet({i \in Piping!Slots : fds[i].ring = p})
            /\ Cardinality({i \in Piping!Slots : fds[i].ring = p}) \in Nat
<1>1. MaxFakeFds \in Nat /\ PipeCap \in Nat \ {0} /\ Chunk \in Nat \ {0} /\ None \notin Rings
  BY PipingAssumption DEF Piping!PipesAssumption
<1>2. Piping!Slots = 1 .. MaxFakeFds /\ IsFiniteSet(Piping!Slots)
  BY <1>1, FS_Interval DEF Piping!Slots
<1>3. ASSUME NEW p
      PROVE  /\ IsFiniteSet({i \in Piping!Slots : fds[i].ring = p})
             /\ Cardinality({i \in Piping!Slots : fds[i].ring = p}) \in Nat
  <2>1. {i \in Piping!Slots : fds[i].ring = p} \subseteq Piping!Slots
    OBVIOUS
  <2> QED BY <1>2, <2>1, FS_Subset, FS_CardinalityType
<1> QED BY <1>1, <1>2, <1>3

\* alloc_slot finds the lowest of the free slots.
LEMMA LowestIsIn ==
  ASSUME NEW S \in SUBSET Piping!Slots, S # {}
  PROVE  Piping!Lowest(S) \in S
<1>1. S \subseteq Nat
  BY PipesConstants
<1>2. Min(S) \in S /\ \A y \in S : Min(S) <= y
  BY <1>1, MinIsLeast
<1> QED BY <1>2 DEF Piping!Lowest

\* A new pipe: two descriptors and two references.
LEMMA PipeStep ==
  ASSUME PipesInv, Piping!Pipe
  PROVE  PipesInv'
<1> DEFINE Free == Piping!FreeSlots
           r == Piping!Lowest(Free)
           w == Piping!Lowest(Free \ {r})
           Of(p) == {i \in Piping!Slots : fds[i].ring = p}
<1>1. Free \in SUBSET Piping!Slots /\ IsFiniteSet(Free) /\ Cardinality(Free) >= 2
  <2>1. Free \subseteq Piping!Slots
    BY DEF Piping!FreeSlots
  <2>2. Cardinality(Free) >= 2
    BY SameCardinality, Zenon DEF Piping!Pipe
  <2> HIDE DEF Free
  <2> QED BY <2>1, <2>2, PipesConstants, FS_Subset
<1>2. Cardinality(Free) # 0 /\ Free # {}
  BY <1>1, FS_EmptySet, FS_CardinalityType
<1>3. r \in Free
  BY <1>1, <1>2, LowestIsIn
<1>4. Free \ {r} # {}
  <2>1. Cardinality(Free \ {r}) = Cardinality(Free) - 1 /\ Cardinality(Free) \in Nat
    BY <1>1, <1>3, FS_RemoveElement, FS_CardinalityType
  <2> HIDE DEF Free, r
  <2>2. Cardinality(Free \ {r}) # 0
    BY <1>1, <2>1
  <2> QED BY <2>2, FS_EmptySet
<1>5. w \in Free /\ w # r
  <2>1. Free \ {r} \in SUBSET Piping!Slots
    BY <1>1
  <2>2. w \in Free \ {r}
    BY <1>4, <2>1, LowestIsIn
  <2> QED BY <2>2
<1>6. PICK p \in Rings :
        /\ ring[p].refs <= 0
        /\ fds' = [fds EXCEPT ![r] = [kind |-> "r", ring |-> p], ![w] = [kind |-> "w", ring |-> p]]
        /\ ring' = [ring EXCEPT ![p] = [Piping!NoRing EXCEPT !.refs = 2]]
        /\ reader' = reader
  BY DEF Piping!Pipe, Piping!FreeRings
<1> HIDE DEF Free, r, w
<1>7. /\ r \in Piping!Slots /\ w \in Piping!Slots
      /\ fds[r].kind = "none" /\ fds[w].kind = "none" /\ fds[r].ring = None /\ fds[w].ring = None
  BY <1>3, <1>5 DEF Free, Piping!FreeSlots, PipesInv
<1>8. /\ fds' \in [Piping!Slots -> [kind : {"none", "r", "w"}, ring : Rings \cup {None}]]
      /\ fds'[r] = [kind |-> "r", ring |-> p] /\ fds'[w] = [kind |-> "w", ring |-> p]
      /\ \A i \in Piping!Slots \ {r, w} : fds'[i] = fds[i]
  BY <1>5, <1>6, <1>7 DEF PipesInv
<1>9. /\ ring'[p] = [buf |-> <<>>, refs |-> 2, sent |-> 0, got |-> <<>>]
      /\ \A q \in Rings \ {p} : ring'[q] = ring[q]
  BY <1>6 DEF PipesInv, Piping!NoRing
<1>10. <<>> \in Seq(Nat) /\ Len(<<>>) = 0 /\ <<>> \o <<>> = FirstBytes(0)
  <2>1. <<>> \in Seq(Nat) /\ Len(<<>>) = 0 /\ <<>> \o <<>> = <<>>
    BY EmptySeq, ConcatEmptySeq
  <2>2. FirstBytes(0) \in [1 .. 0 -> Nat]
    BY DEF FirstBytes
  <2>3. FirstBytes(0) \in Seq(Nat) /\ Len(FirstBytes(0)) = 0
    BY <2>2, FunctionIsList
  <2>4. FirstBytes(0) = <<>>
    BY <2>3, EmptySeq
  <2> QED BY <2>1, <2>4
<1>11. ring' \in [Rings -> RingOf]
  <2>1. [buf |-> <<>>, refs |-> 2, sent |-> 0, got |-> <<>>] \in RingOf
    BY <1>10 DEF RingOf
  <2>2. ring' = [ring EXCEPT ![p] = ring'[p]]
    BY <1>6, <1>9
  <2> QED BY <1>9, <2>1, <2>2 DEF PipesInv
<1>12. Of(p)' = {r, w} /\ Cardinality({r, w}) = 2
  <2>1. Of(p) = {}
    <3>1. ring[p].refs \in 0 .. 2 /\ ring[p].refs = Cardinality(Of(p))
      BY DEF PipesInv
    <3>2. Cardinality(Of(p)) = 0
      BY <1>6, <3>1
    <3>3. IsFiniteSet(Of(p))
      BY PipesConstants
    <3> HIDE DEF Of
    <3> QED BY <3>2, <3>3, FS_EmptySet
  <2>2. Of(p)' = {r, w}
    BY <1>7, <1>8, <2>1
  <2>3. IsFiniteSet({r}) /\ Cardinality({r}) = 1
    BY FS_Singleton
  <2>4. {r, w} = {r} \cup {w}
    OBVIOUS
  <2> QED BY <1>5, <2>2, <2>3, <2>4, FS_AddElement
<1>13. \A q \in Rings \ {p} : Of(q)' = Of(q)
  BY <1>7, <1>8, PipesConstants
<1>14. \A i \in Piping!Slots : fds'[i].kind = "none" <=> fds'[i].ring = None
  BY <1>7, <1>8, PipesConstants DEF PipesInv
<1>15. ASSUME NEW q \in Rings
       PROVE  /\ Len(ring'[q].buf) <= PipeCap
              /\ ring'[q].refs \in 0 .. 2
              /\ ring'[q].refs = Cardinality({i \in Piping!Slots : fds'[i].ring = q})
              /\ Carried(ring'[q])
  <2>1. CASE q = p
    <3>1. /\ ring'[q].buf = <<>> /\ ring'[q].refs = 2 /\ ring'[q].sent = 0
          /\ ring'[q].got = <<>>
      BY <1>9, <2>1
    <3>2. {i \in Piping!Slots : fds'[i].ring = q} = {r, w}
      BY <1>12, <2>1
    <3>3. Len(ring'[q].buf) <= PipeCap
      BY <1>10, <3>1, PipesConstants
    <3>4. Carried(ring'[q])
      BY <1>10, <3>1, Zenon DEF Carried
    <3>5. /\ ring'[q].refs \in 0 .. 2
          /\ ring'[q].refs = Cardinality({i \in Piping!Slots : fds'[i].ring = q})
      <4>1. Cardinality({i \in Piping!Slots : fds'[i].ring = q}) = 2
        BY <1>12, <3>2, Zenon
      <4>2. ring'[q].refs = 2 /\ 2 \in 0 .. 2
        BY <3>1
      <4> QED BY <4>1, <4>2, Zenon
    <3> QED BY <3>3, <3>4, <3>5, Zenon
  <2>2. CASE q # p
    <3>1. ring'[q] = ring[q]
      BY <1>9, <2>2
    <3>2. {i \in Piping!Slots : fds'[i].ring = q} = {i \in Piping!Slots : fds[i].ring = q}
      BY <1>13, <2>2
    <3> QED BY <3>1, <3>2 DEF PipesInv
  <2> QED BY <2>1, <2>2
<1>16. ASSUME NEW t \in Users, reader'[t] # Piping!NotReading
       PROVE  /\ reader'[t].fd \in Piping!Slots
              /\ fds'[reader'[t].fd] = [kind |-> "r", ring |-> reader'[t].ring]
  <2>1. /\ reader[t].fd \in Piping!Slots
        /\ fds[reader[t].fd] = [kind |-> "r", ring |-> reader[t].ring]
    BY <1>6, <1>16 DEF PipesInv
  <2>2. fds[reader[t].fd].kind = "r"
    BY <2>1
  <2> QED BY <1>6, <1>7, <1>8, <2>1, <2>2
<1>17. reader' \in [Users -> [ring : Rings \cup {None}, fd : Nat, asleep : BOOLEAN]]
  BY <1>6 DEF PipesInv
<1>18. Piping!Slots' = Piping!Slots /\ Piping!NotReading' = Piping!NotReading
  BY DEF Piping!Slots, Piping!NotReading
<1> QED BY <1>8, <1>11, <1>14, <1>15, <1>16, <1>17, <1>18 DEF PipesInv, RingOf

\* A step that opens and closes no descriptor.
LEMMA SameFds ==
  ASSUME PipesInv, fds' = fds, ring' \in [Rings -> RingOf],
         \A p \in Rings : /\ Len(ring'[p].buf) <= PipeCap /\ ring'[p].refs = ring[p].refs
                          /\ Carried(ring'[p]),
         reader' \in [Users -> [ring : Rings \cup {None}, fd : Nat, asleep : BOOLEAN]],
         \A t \in Users : reader'[t] # Piping!NotReading =>
           /\ reader'[t].fd \in Piping!Slots
           /\ fds[reader'[t].fd] = [kind |-> "r", ring |-> reader'[t].ring]
  PROVE  PipesInv'
<1>1. Piping!Slots' = Piping!Slots /\ Piping!NotReading' = Piping!NotReading
  BY DEF Piping!Slots, Piping!NotReading
<1>2. \A p \in Rings : /\ ring'[p].refs \in 0 .. 2
                       /\ ring'[p].refs = Cardinality({i \in Piping!Slots : fds'[i].ring = p})
  <2> TAKE p \in Rings
  <2>1. ring[p].refs \in 0 .. 2 /\ ring[p].refs = Cardinality({i \in Piping!Slots : fds[i].ring = p})
    BY DEF PipesInv
  <2>2. ring'[p].refs = ring[p].refs
    OBVIOUS
  <2>3. {i \in Piping!Slots : fds'[i].ring = p} = {i \in Piping!Slots : fds[i].ring = p}
    OBVIOUS
  <2> QED BY <2>1, <2>2, <2>3
<1>3. /\ fds' \in [Piping!Slots -> [kind : {"none", "r", "w"}, ring : Rings \cup {None}]]
      /\ \A i \in Piping!Slots : fds'[i].kind = "none" <=> fds'[i].ring = None
  BY DEF PipesInv
<1>4. \A p \in Rings : Carried(ring[p])' = Carried(ring'[p])
  BY DEF Carried
<1>5. \A t \in Users : reader'[t] # Piping!NotReading =>
        /\ reader'[t].fd \in Piping!Slots
        /\ fds'[reader'[t].fd] = [kind |-> "r", ring |-> reader'[t].ring]
  OBVIOUS
<1> QED BY <1>1, <1>2, <1>3, <1>4, <1>5 DEF PipesInv, RingOf

\* condvarWakeAll moves nobody to another ring.
LEMMA WokenReaders ==
  ASSUME PipesInv, reader' = Piping!WokenAll
  PROVE  /\ reader' \in [Users -> [ring : Rings \cup {None}, fd : Nat, asleep : BOOLEAN]]
         /\ \A t \in Users : reader'[t] # Piping!NotReading =>
              /\ reader'[t].ring = reader[t].ring /\ reader'[t].fd = reader[t].fd
              /\ reader[t].fd \in Piping!Slots
              /\ fds[reader[t].fd] = [kind |-> "r", ring |-> reader[t].ring]
<1>1. reader' = [t \in Users |-> [reader[t] EXCEPT !.asleep = FALSE]]
  BY DEF Piping!WokenAll
<1>2. reader \in [Users -> [ring : Rings \cup {None}, fd : Nat, asleep : BOOLEAN]]
  BY DEF PipesInv
<1>3. ASSUME NEW t \in Users
      PROVE  /\ reader'[t] \in [ring : Rings \cup {None}, fd : Nat, asleep : BOOLEAN]
             /\ reader'[t].ring = reader[t].ring /\ reader'[t].fd = reader[t].fd
             /\ reader[t] = Piping!NotReading => reader'[t] = Piping!NotReading
  <2>1. reader[t] \in [ring : Rings \cup {None}, fd : Nat, asleep : BOOLEAN]
    BY <1>2
  <2>2. reader'[t] = [reader[t] EXCEPT !.asleep = FALSE]
    BY <1>1
  <2>3. reader'[t] = [ring |-> reader[t].ring, fd |-> reader[t].fd, asleep |-> FALSE]
    BY <2>1, <2>2
  <2>4. reader[t] = Piping!NotReading => reader'[t] = Piping!NotReading
    <3> HAVE reader[t] = Piping!NotReading
    <3>1. reader[t].ring = None /\ reader[t].fd = 0
      BY DEF Piping!NotReading
    <3> QED BY <2>3, <3>1 DEF Piping!NotReading
  <2> QED BY <2>1, <2>3, <2>4
<1> QED BY <1>1, <1>3 DEF PipesInv

\* fakefd_write: the bytes that fit, behind those that are there.
LEMMA PipeWriteStep ==
  ASSUME PipesInv, Piping!Write
  PROVE  PipesInv'
<1>1. PICK i \in Piping!Slots, n \in 1 .. Chunk :
        /\ fds[i].kind = "w"
        /\ LET p == fds[i].ring wrote == Piping!Lesser(n, Piping!Room(p)) IN
             ring' = [ring EXCEPT ![p].buf = @ \o Piping!Numbered(p, wrote), ![p].sent = @ + wrote]
        /\ reader' = Piping!WokenAll /\ fds' = fds
  BY Zenon DEF Piping!Write
<1> DEFINE p == fds[i].ring
           wrote == Piping!Lesser(n, Piping!Room(p))
           more == Piping!Numbered(p, wrote)
<1>2. p \in Rings
  BY <1>1 DEF PipesInv
<1>3. ring' = [ring EXCEPT ![p].buf = @ \o more, ![p].sent = @ + wrote]
  BY <1>1
<1> HIDE DEF p
<1>4. /\ ring \in [Rings -> RingOf]
      /\ \A q \in Rings : Len(ring[q].buf) <= PipeCap /\ Carried(ring[q])
  BY DEF PipesInv
<1>5. /\ ring[p].buf \in Seq(Nat) /\ ring[p].got \in Seq(Nat) /\ ring[p].sent \in Nat
      /\ ring[p].refs \in Int
  BY <1>2, <1>4 DEF RingOf
<1>6. wrote \in Nat /\ Len(ring[p].buf) + wrote <= PipeCap
  <2>1. Len(ring[p].buf) \in Nat
    BY <1>5, LenProperties
  <2>2. Len(ring[p].buf) <= PipeCap
    BY <1>2, <1>4
  <2>3. n \in Nat /\ PipeCap \in Nat
    BY PipesConstants
  <2>4. wrote = IF n < PipeCap - Len(ring[p].buf) THEN n ELSE PipeCap - Len(ring[p].buf)
    BY DEF Piping!Lesser, Piping!Room
  <2> DEFINE len == Len(ring[p].buf)
  <2> HIDE DEF wrote, len
  <2>5. len \in Nat /\ len <= PipeCap /\ wrote = IF n < PipeCap - len THEN n ELSE PipeCap - len
    BY <2>1, <2>2, <2>4 DEF len
  <2>6. wrote \in Nat /\ len + wrote <= PipeCap
    BY <2>3, <2>5
  <2> QED BY <2>6 DEF len
<1>7. more = NextBytes(ring[p].sent, wrote)
  BY DEF Piping!Numbered, NextBytes
<1> HIDE DEF wrote
<1>8. /\ ring[p].buf \o more \in Seq(Nat) /\ Len(ring[p].buf \o more) = Len(ring[p].buf) + wrote
      /\ Carried(ring[p]) => ring[p].got \o (ring[p].buf \o more) = FirstBytes(ring[p].sent + wrote)
  <2>1. wrote \in Nat
    BY <1>6
  <2>2. /\ ring[p].buf \o NextBytes(ring[p].sent, wrote) \in Seq(Nat)
        /\ Len(ring[p].buf \o NextBytes(ring[p].sent, wrote)) = Len(ring[p].buf) + wrote
        /\ ring[p].got \o ring[p].buf = FirstBytes(ring[p].sent) =>
             ring[p].got \o (ring[p].buf \o NextBytes(ring[p].sent, wrote))
               = FirstBytes(ring[p].sent + wrote)
    BY <1>5, <2>1, WriteExtends
  <2> QED BY <1>7, <2>2, Zenon DEF Carried
<1> HIDE DEF more
<1> DEFINE buf == ring[p].buf \o more
<1>9. ring' = [ring EXCEPT ![p].buf = buf, ![p].sent = @ + wrote]
  BY <1>3
<1>10. /\ buf \in Seq(Nat) /\ Len(buf) <= PipeCap
       /\ Carried(ring[p]) => ring[p].got \o buf = FirstBytes(ring[p].sent + wrote)
  BY <1>6, <1>8
<1> HIDE DEF buf
<1>11. /\ ring'[p].buf = buf /\ ring'[p].sent = ring[p].sent + wrote
       /\ ring'[p].got = ring[p].got /\ ring'[p].refs = ring[p].refs
       /\ \A q \in Rings \ {p} : ring'[q] = ring[q]
  BY <1>2, <1>4, <1>9 DEF RingOf
<1>12. ring' \in [Rings -> RingOf]
  <2>1. ring[p].sent + wrote \in Nat
    BY <1>5, <1>6
  <2> QED BY <1>2, <1>4, <1>9, <1>10, <2>1 DEF RingOf
<1>13. ASSUME NEW q \in Rings
       PROVE  /\ Len(ring'[q].buf) <= PipeCap /\ ring'[q].refs = ring[q].refs
              /\ Carried(ring'[q])
  <2>1. CASE q = p
    <3>1. Len(ring'[q].buf) <= PipeCap /\ ring'[q].refs = ring[q].refs
      BY <1>10, <1>11, <2>1
    <3>2. Carried(ring[p])
      BY <1>2, <1>4
    <3>3. Carried(ring'[p])
      BY <1>10, <1>11, <3>2, Zenon DEF Carried
    <3> QED BY <2>1, <3>1, <3>3
  <2>2. CASE q # p
    <3>1. ring'[q] = ring[q]
      BY <1>11, <2>2
    <3> QED BY <1>4, <3>1
  <2> QED BY <2>1, <2>2
<1>14. \A t \in Users : reader'[t] # Piping!NotReading =>
         /\ reader'[t].fd \in Piping!Slots
         /\ fds[reader'[t].fd] = [kind |-> "r", ring |-> reader'[t].ring]
  BY <1>1, WokenReaders
<1> QED BY <1>1, <1>12, <1>13, <1>14, SameFds, WokenReaders

\* A read takes bytes from the front and hands them on.
LEMMA PipeTakes ==
  ASSUME PipesInv, NEW p \in Rings, NEW n \in 1 .. Chunk, Piping!Take(p, n)
  PROVE  /\ ring' \in [Rings -> RingOf]
         /\ \A q \in Rings : /\ Len(ring'[q].buf) <= PipeCap /\ ring'[q].refs = ring[q].refs
                             /\ Carried(ring'[q])
<1> DEFINE b == ring[p].buf
           g == ring[p].got
           took == Piping!Lesser(n, Len(b))
           first == SubSeq(b, 1, took)
           rest == SubSeq(b, took + 1, Len(b))
<1>1. ring' = [ring EXCEPT ![p].buf = rest, ![p].got = @ \o first]
  BY DEF Piping!Take
<1>2. /\ ring \in [Rings -> RingOf]
      /\ \A q \in Rings : Len(ring[q].buf) <= PipeCap /\ Carried(ring[q])
  BY DEF PipesInv
<1>3. /\ b \in Seq(Nat) /\ g \in Seq(Nat) /\ Len(b) \in Nat /\ Len(b) <= PipeCap
      /\ ring[p].sent \in Nat /\ ring[p].refs \in Int
  BY <1>2, LenProperties DEF RingOf
<1>4. took \in 0 .. Len(b)
  BY <1>3, PipesConstants DEF Piping!Lesser
<1> HIDE DEF took
<1>5. /\ g \o first \in Seq(Nat) /\ rest \in Seq(Nat) /\ Len(rest) <= Len(b)
      /\ (g \o first) \o rest = g \o b
  <2> HIDE DEF b, g
  <2> QED BY <1>3, <1>4, TakeMoves
<1>6. Len(rest) \in Nat
  BY <1>5, LenProperties
<1> DEFINE got == g \o first
<1>7. ring' = [ring EXCEPT ![p].buf = rest, ![p].got = got]
  BY <1>1
<1>8. got \in Seq(Nat) /\ rest \in Seq(Nat) /\ Len(rest) <= PipeCap /\ got \o rest = g \o b
  <2>1. Len(rest) <= PipeCap
    <3> HIDE DEF rest, b
    <3> QED BY <1>3, <1>5, <1>6, PipesConstants
  <2> QED BY <1>5, <2>1
<1> HIDE DEF got, rest
<1>9. /\ ring'[p].buf = rest /\ ring'[p].got = got
      /\ ring'[p].sent = ring[p].sent /\ ring'[p].refs = ring[p].refs
      /\ \A q \in Rings \ {p} : ring'[q] = ring[q]
  BY <1>2, <1>7 DEF RingOf
<1>10. ring' \in [Rings -> RingOf]
  BY <1>2, <1>7, <1>8 DEF RingOf
<1>11. ASSUME NEW q \in Rings
       PROVE  /\ Len(ring'[q].buf) <= PipeCap /\ ring'[q].refs = ring[q].refs
              /\ Carried(ring'[q])
  <2>1. CASE q = p
    <3>1. Len(ring'[q].buf) <= PipeCap /\ ring'[q].refs = ring[q].refs
      BY <1>8, <1>9, <2>1
    <3>2. Carried(ring[p])
      BY <1>2
    <3>3. Carried(ring'[p])
      BY <1>8, <1>9, <3>2, Zenon DEF Carried
    <3> QED BY <2>1, <3>1, <3>3
  <2>2. CASE q # p
    <3>1. ring'[q] = ring[q]
      BY <1>9, <2>2
    <3> QED BY <1>2, <3>1
  <2> QED BY <2>1, <2>2
<1> QED BY <1>10, <1>11

\* What holds of rings and readers that do not change.
LEMMA PipesParts ==
  ASSUME PipesInv
  PROVE  /\ ring \in [Rings -> RingOf]
         /\ \A q \in Rings : Len(ring[q].buf) <= PipeCap /\ Carried(ring[q])
         /\ reader \in [Users -> [ring : Rings \cup {None}, fd : Nat, asleep : BOOLEAN]]
         /\ \A t \in Users : reader[t] # Piping!NotReading =>
              /\ reader[t].fd \in Piping!Slots /\ reader[t].ring \in Rings
              /\ fds[reader[t].fd] = [kind |-> "r", ring |-> reader[t].ring]
<1>1. ASSUME NEW t \in Users, reader[t] # Piping!NotReading
      PROVE  reader[t].ring \in Rings
  <2>1. /\ reader[t].fd \in Piping!Slots
        /\ fds[reader[t].fd] = [kind |-> "r", ring |-> reader[t].ring]
    BY <1>1 DEF PipesInv
  <2>2. fds[reader[t].fd].kind # "none" /\ fds[reader[t].fd].ring = reader[t].ring
    BY <2>1
  <2> QED BY <2>1, <2>2 DEF PipesInv
<1> QED BY <1>1 DEF PipesInv

\* fakefd_read: takes what there is, or waits at the ring of its descriptor.
LEMMA PipeReadStep ==
  ASSUME PipesInv, NEW t \in Users, Piping!ReadCall(t)
  PROVE  PipesInv'
<1>1. PICK i \in Piping!Slots :
        /\ fds[i].kind = "r" /\ fds' = fds
        /\ \/ /\ reader' = [reader EXCEPT ![t] = [ring |-> fds[i].ring, fd |-> i, asleep |-> TRUE]]
              /\ ring' = ring
           \/ (\E n \in 1 .. Chunk : Piping!Take(fds[i].ring, n)) /\ reader' = reader
  BY DEF Piping!ReadCall
<1>2. fds[i].ring \in Rings /\ fds[i] = [kind |-> "r", ring |-> fds[i].ring] /\ i \in Nat
  BY <1>1, PipesConstants DEF PipesInv
<1>3. CASE (\E n \in 1 .. Chunk : Piping!Take(fds[i].ring, n)) /\ reader' = reader
  <2>1. /\ ring' \in [Rings -> RingOf]
        /\ \A q \in Rings : /\ Len(ring'[q].buf) <= PipeCap /\ ring'[q].refs = ring[q].refs
                            /\ Carried(ring'[q])
    BY <1>2, <1>3, PipeTakes
  <2> QED BY <1>1, <1>3, <2>1, PipesParts, SameFds
<1>4. CASE /\ reader' = [reader EXCEPT ![t] = [ring |-> fds[i].ring, fd |-> i, asleep |-> TRUE]]
           /\ ring' = ring
  <2>1. /\ reader' \in [Users -> [ring : Rings \cup {None}, fd : Nat, asleep : BOOLEAN]]
        /\ \A u \in Users : reader'[u] # Piping!NotReading =>
             /\ reader'[u].fd \in Piping!Slots
             /\ fds[reader'[u].fd] = [kind |-> "r", ring |-> reader'[u].ring]
    BY <1>2, <1>4, PipesParts
  <2> QED BY <1>1, <1>4, <2>1, PipesParts, SameFds
<1> QED BY <1>1, <1>3, <1>4

\* The reader that is woken looks again.
LEMMA PipeAwakesStep ==
  ASSUME PipesInv, NEW t \in Users, Piping!Awakes(t)
  PROVE  PipesInv'
<1>1. /\ reader[t] # Piping!NotReading /\ fds' = fds
      /\ \/ reader' = [reader EXCEPT ![t].asleep = TRUE] /\ ring' = ring
         \/ /\ \E n \in 1 .. Chunk : Piping!Take(reader[t].ring, n)
            /\ reader' = [reader EXCEPT ![t] = Piping!NotReading]
  BY DEF Piping!Awakes
<1>2. /\ reader[t].ring \in Rings /\ reader[t].fd \in Piping!Slots
      /\ fds[reader[t].fd] = [kind |-> "r", ring |-> reader[t].ring]
  BY <1>1, PipesParts
<1>3. CASE /\ \E n \in 1 .. Chunk : Piping!Take(reader[t].ring, n)
           /\ reader' = [reader EXCEPT ![t] = Piping!NotReading]
  <2>1. /\ ring' \in [Rings -> RingOf]
        /\ \A q \in Rings : /\ Len(ring'[q].buf) <= PipeCap /\ ring'[q].refs = ring[q].refs
                            /\ Carried(ring'[q])
    BY <1>2, <1>3, PipeTakes
  <2>2. Piping!NotReading \in [ring : Rings \cup {None}, fd : Nat, asleep : BOOLEAN]
    BY DEF Piping!NotReading
  <2>3. /\ reader' \in [Users -> [ring : Rings \cup {None}, fd : Nat, asleep : BOOLEAN]]
        /\ \A u \in Users : reader'[u] # Piping!NotReading =>
             /\ reader'[u].fd \in Piping!Slots
             /\ fds[reader'[u].fd] = [kind |-> "r", ring |-> reader'[u].ring]
    BY <1>3, <2>2, PipesParts
  <2> QED BY <1>1, <2>1, <2>3, SameFds
<1>4. CASE reader' = [reader EXCEPT ![t].asleep = TRUE] /\ ring' = ring
  <2>1. /\ reader' \in [Users -> [ring : Rings \cup {None}, fd : Nat, asleep : BOOLEAN]]
        /\ reader'[t].fd = reader[t].fd /\ reader'[t].ring = reader[t].ring
        /\ \A u \in Users \ {t} : reader'[u] = reader[u]
    BY <1>4, PipesParts
  <2>2. \A u \in Users : reader'[u] # Piping!NotReading =>
             /\ reader'[u].fd \in Piping!Slots
             /\ fds[reader'[u].fd] = [kind |-> "r", ring |-> reader'[u].ring]
    BY <1>2, <2>1, PipesParts
  <2> QED BY <1>1, <1>4, <2>1, <2>2, PipesParts, SameFds
<1> QED BY <1>1, <1>3, <1>4

\* fakefd_close: one descriptor less, and one reference.
LEMMA PipeCloseStep ==
  ASSUME PipesInv, Piping!Close
  PROVE  PipesInv'
<1>1. PICK i \in Piping!Slots :
        /\ fds[i].kind # "none"
        /\ fds[i].kind = "r" => \A t \in Users : reader[t].fd # i
        /\ fds' = [fds EXCEPT ![i] = Piping!NoFd]
        /\ ring' = [ring EXCEPT ![fds[i].ring].refs = @ - 1]
        /\ reader' = Piping!WokenAll
  BY DEF Piping!Close, Piping!Unref, Piping!WokenByClose
<1> DEFINE p == fds[i].ring
           Before(q) == {j \in Piping!Slots : fds[j].ring = q}
           After(q) == {j \in Piping!Slots : fds'[j].ring = q}
<1>2. p \in Rings
  BY <1>1 DEF PipesInv
<1>3. /\ ring \in [Rings -> RingOf]
      /\ \A q \in Rings : /\ Len(ring[q].buf) <= PipeCap /\ Carried(ring[q])
                          /\ ring[q].refs \in 0 .. 2 /\ ring[q].refs = Cardinality(Before(q))
  BY DEF PipesInv
<1>4. /\ fds' \in [Piping!Slots -> [kind : {"none", "r", "w"}, ring : Rings \cup {None}]]
      /\ fds'[i].kind = "none" /\ fds'[i].ring = None
      /\ \A j \in Piping!Slots \ {i} : fds'[j] = fds[j]
  BY <1>1 DEF Piping!NoFd, PipesInv
<1>5. After(p) = Before(p) \ {i} /\ \A q \in Rings \ {p} : After(q) = Before(q)
  BY <1>2, <1>4, PipesConstants
<1>6. Cardinality(After(p)) = Cardinality(Before(p)) - 1 /\ Cardinality(After(p)) \in Nat
  <2>1. i \in Before(p) /\ IsFiniteSet(Before(p))
    BY PipesConstants
  <2> DEFINE B == Before(p)
             A == After(p)
  <2>2. i \in B /\ IsFiniteSet(B) /\ A = B \ {i}
    BY <1>5, <2>1
  <2> HIDE DEF A, B
  <2>3. IsFiniteSet(A) /\ Cardinality(A) = Cardinality(B) - 1
    BY <2>2, FS_RemoveElement
  <2>4. Cardinality(A) \in Nat
    BY <2>3, FS_CardinalityType
  <2> QED BY <2>3, <2>4 DEF A, B
<1>7. ring' = [ring EXCEPT ![p].refs = @ - 1]
  BY <1>1
<1>8. \A j \in Piping!Slots : fds'[j].kind = "none" <=> fds'[j].ring = None
  BY <1>4 DEF PipesInv
<1>9. ASSUME NEW t \in Users, reader'[t] # Piping!NotReading
      PROVE  /\ reader'[t].fd \in Piping!Slots
             /\ fds'[reader'[t].fd] = [kind |-> "r", ring |-> reader'[t].ring]
  <2>1. /\ reader'[t].ring = reader[t].ring /\ reader'[t].fd = reader[t].fd
        /\ reader[t].fd \in Piping!Slots
        /\ fds[reader[t].fd] = [kind |-> "r", ring |-> reader[t].ring]
    BY <1>1, <1>9, WokenReaders
  <2>2. fds[reader[t].fd].kind = "r"
    BY <2>1
  <2>3. reader[t].fd # i
    BY <1>1, <2>2
  <2> QED BY <1>4, <2>1, <2>3
<1>10. ring[p] \in RingOf /\ ring[p].refs - 1 \in Int
  BY <1>2, <1>3 DEF RingOf
<1>11. /\ ring'[p] = [ring[p] EXCEPT !.refs = @ - 1]
       /\ \A q \in Rings \ {p} : ring'[q] = ring[q]
       /\ ring' \in [Rings -> RingOf]
  <2>1. ring' = [ring EXCEPT ![p] = [ring[p] EXCEPT !.refs = @ - 1]]
    BY <1>2, <1>3, <1>7
  <2>2. [ring[p] EXCEPT !.refs = @ - 1] \in RingOf
    BY <1>10 DEF RingOf
  <2> QED BY <1>2, <1>3, <2>1, <2>2
<1>12. /\ ring'[p].buf = ring[p].buf /\ ring'[p].got = ring[p].got
       /\ ring'[p].sent = ring[p].sent /\ ring'[p].refs = ring[p].refs - 1
  BY <1>10, <1>11 DEF RingOf
<1>13. /\ Len(ring'[p].buf) <= PipeCap /\ Carried(ring'[p])
       /\ ring'[p].refs \in 0 .. 2 /\ ring'[p].refs = Cardinality(After(p))
  <2>1. Len(ring[p].buf) <= PipeCap /\ Carried(ring[p])
    BY <1>2, <1>3
  <2>2. Carried(ring'[p]) /\ Len(ring'[p].buf) <= PipeCap
    BY <1>12, <2>1 DEF Carried
  <2>3. ring[p].refs \in 0 .. 2 /\ ring[p].refs = Cardinality(Before(p))
    BY <1>2, <1>3
  <2> DEFINE before == Cardinality(Before(p))
             after == Cardinality(After(p))
  <2>4. after = before - 1 /\ after \in Nat /\ ring[p].refs = before
    BY <1>6, <2>3
  <2> HIDE DEF before, after
  <2>5. ring'[p].refs = after /\ ring'[p].refs \in 0 .. 2
    BY <1>12, <2>3, <2>4
  <2> QED BY <2>2, <2>5 DEF after
<1>14. ASSUME NEW q \in Rings
       PROVE  /\ Len(ring'[q].buf) <= PipeCap /\ Carried(ring'[q])
              /\ ring'[q].refs \in 0 .. 2 /\ ring'[q].refs = Cardinality(After(q))
  <2>1. CASE q = p
    BY <1>13, <2>1, Zenon
  <2>2. CASE q # p
    <3>1. ring'[q] = ring[q] /\ After(q) = Before(q)
      BY <1>5, <1>11, <2>2
    <3> QED BY <1>3, <3>1, Zenon
  <2> QED BY <2>1, <2>2
<1>15. reader' \in [Users -> [ring : Rings \cup {None}, fd : Nat, asleep : BOOLEAN]]
  BY <1>1, WokenReaders
<1>16. Piping!Slots' = Piping!Slots /\ Piping!NotReading' = Piping!NotReading
  BY DEF Piping!Slots, Piping!NotReading
<1>17. \A q \in Rings : Carried(ring[q])' = Carried(ring'[q])
  BY DEF Carried
<1> QED BY <1>4, <1>8, <1>9, <1>11, <1>14, <1>15, <1>16, <1>17 DEF PipesInv, RingOf

\* Every step of the pipes keeps their invariant, and so does one of another part.
LEMMA PipesStep ==
  ASSUME PipesInv, Piping!Next \/ UNCHANGED pipingVars
  PROVE  PipesInv'
<1>1. CASE Piping!Next
  BY <1>1, PipeStep, PipeWriteStep, PipeCloseStep, PipeReadStep, PipeAwakesStep DEF Piping!Next
<1>2. CASE UNCHANGED pipingVars
  BY <1>2, PipesParts, SameFds DEF pipingVars
<1> QED BY <1>1, <1>2

\* No pipe is open at boot.
LEMMA PipesInitially ==
  ASSUME Piping!Init
  PROVE  PipesInv
<1>1. /\ fds = [i \in Piping!Slots |-> Piping!NoFd]
      /\ ring = [p \in Rings |-> Piping!NoRing]
      /\ reader = [t \in Users |-> Piping!NotReading]
  BY DEF Piping!Init
<1>2. <<>> \in Seq(Nat) /\ Len(<<>>) = 0 /\ <<>> \o <<>> = FirstBytes(0)
  <2>1. <<>> \in Seq(Nat) /\ Len(<<>>) = 0 /\ <<>> \o <<>> = <<>>
    BY EmptySeq, ConcatEmptySeq
  <2>2. FirstBytes(0) \in [1 .. 0 -> Nat]
    BY DEF FirstBytes
  <2>3. FirstBytes(0) \in Seq(Nat) /\ Len(FirstBytes(0)) = 0
    BY <2>2, FunctionIsList
  <2>4. FirstBytes(0) = <<>>
    BY <2>3, EmptySeq
  <2> QED BY <2>1, <2>4
<1>3. /\ fds \in [Piping!Slots -> [kind : {"none", "r", "w"}, ring : Rings \cup {None}]]
      /\ \A i \in Piping!Slots : fds[i].kind = "none" /\ fds[i].ring = None
  BY <1>1 DEF Piping!NoFd
<1>4. reader \in [Users -> [ring : Rings \cup {None}, fd : Nat, asleep : BOOLEAN]]
  BY <1>1 DEF Piping!NotReading
<1>5. /\ ring \in [Rings -> RingOf]
      /\ \A p \in Rings : ring[p].buf = <<>> /\ ring[p].got = <<>> /\ ring[p].sent = 0
                          /\ ring[p].refs = 0
  BY <1>1, <1>2 DEF Piping!NoRing, RingOf
<1>6. ASSUME NEW p \in Rings
      PROVE  /\ Len(ring[p].buf) <= PipeCap
             /\ ring[p].refs \in 0 .. 2
             /\ ring[p].refs = Cardinality({i \in Piping!Slots : fds[i].ring = p})
             /\ Carried(ring[p])
  <2>1. {i \in Piping!Slots : fds[i].ring = p} = {}
    BY <1>3, PipesConstants
  <2>2. Carried(ring[p])
    BY <1>2, <1>5, Zenon DEF Carried
  <2>3. Len(ring[p].buf) <= PipeCap
    BY <1>2, <1>5, PipesConstants
  <2>4. Cardinality({i \in Piping!Slots : fds[i].ring = p}) = 0
    BY <2>1, FS_EmptySet
  <2>5. ring[p].refs = 0 /\ 0 \in 0 .. 2
    BY <1>5
  <2> QED BY <2>2, <2>3, <2>4, <2>5, Zenon
<1> QED BY <1>1, <1>3, <1>4, <1>5, <1>6 DEF PipesInv

\* What a run checks of the pipes follows.
LEMMA PipesCarryBytes ==
  ASSUME PipesInv
  PROVE  Piping!TypeOK /\ Piping!PipesCarry
<1>1. Piping!TypeOK
  BY DEF PipesInv, Piping!TypeOK
<1>2. ASSUME NEW p \in Rings
      PROVE  /\ ring[p].got \o ring[p].buf = [k \in 1 .. ring[p].sent |-> k]
             /\ ring[p].refs = Piping!Cardinality({i \in Piping!Slots : fds[i].ring = p})
  <2>1. Carried(ring[p]) /\ ring[p].refs = Cardinality({i \in Piping!Slots : fds[i].ring = p})
    BY DEF PipesInv
  <2> QED BY <2>1, SameCardinality, Zenon DEF Carried, FirstBytes
<1> QED BY <1>1, <1>2, PipesParts, Zenon DEF Piping!PipesCarry

-----------------------------------------------------------------------------
(* The loopers (Loopers).                                                  *)

LooperOf == [used : BOOLEAN, owner : Users \cup {None}, signaled : BOOLEAN, refs : Int]

\* An entry of g_loopers that was taken stays its thread's: the owner's reference
\* and those of the engine are all counted, and no two are of one thread.  A
\* thread polls its own, and sleeps only while it is not signaled.
LoopersInv ==
  /\ alive \subseteq Users /\ fell = FALSE
  /\ looper \in [Looping!Table -> LooperOf]
  /\ refs \in [Looping!Table -> 0 .. MaxRefs]
  /\ poll \in [Users -> [at : {"out", "locking", "asleep", "woken"}, l : Int]]
  /\ \A i \in Looping!Table :
       IF looper[i].used THEN looper[i].owner \in Users /\ looper[i].refs = refs[i] + 1
       ELSE looper[i].refs = 0 /\ refs[i] = 0
  /\ \A i, j \in Looping!Table :
       looper[i].used /\ looper[j].used /\ looper[i].owner = looper[j].owner => i = j
  /\ \A h \in Users : poll[h] # Looping!Out =>
       /\ poll[h].l \in Looping!Table
       /\ looper[poll[h].l].used /\ looper[poll[h].l].owner = h
       /\ poll[h].at = "asleep" => looper[poll[h].l].signaled = FALSE

\* The constants of the loopers.
LEMMA LoopersConstants ==
  /\ MaxLoopers \in Nat \ {0} /\ MaxRefs \in Nat \ {0}
  /\ Looping!Table = 1 .. MaxLoopers /\ IsFiniteSet(Looping!Table)
  /\ Cardinality(Looping!Table) = MaxLoopers
  /\ None \notin Users /\ IsFiniteSet(Users) /\ Cardinality(Users) \in Nat
  /\ Cardinality(Users) <= MaxLoopers
<1>1. MaxLoopers \in Nat \ {0} /\ MaxRefs \in Nat \ {0}
  BY LoopingAssumption DEF Looping!LoopersAssumption
<1>2. Looping!Table = 1 .. MaxLoopers
  BY DEF Looping!Table
<1>3. /\ IsFiniteSet(1 .. MaxLoopers)
      /\ Cardinality(1 .. MaxLoopers) = IF 1 > MaxLoopers THEN 0 ELSE MaxLoopers - 1 + 1
  BY <1>1, FS_Interval
<1>4. None \notin Users /\ IsFiniteSet(Users) /\ Cardinality(Users) <= MaxLoopers
  BY LoopingAssumption
<1>5. Cardinality(Users) \in Nat
  BY <1>4, FS_CardinalityType
<1> QED BY <1>1, <1>2, <1>3, <1>4, <1>5

\* looper_for finds an entry: as long as a thread has none, one is unused, for
\* there is an entry for each thread.
LEMMA SomeUnused ==
  ASSUME LoopersInv, NEW h \in Users, Looping!Mine(h) = {}
  PROVE  \E i \in Looping!Table : ~ looper[i].used
<1> SUFFICES ASSUME \A i \in Looping!Table : looper[i].used PROVE FALSE
  OBVIOUS
<1> DEFINE f == [i \in Looping!Table |-> looper[i].owner]
<1>1. \A i \in Looping!Table : f[i] \in Users \ {h}
  BY DEF LoopersInv, Looping!Mine
<1>2. \A i, j \in Looping!Table : f[i] = f[j] => i = j
  BY DEF LoopersInv
<1>3. f \in Injection(Looping!Table, Users \ {h})
  <2>1. f \in [Looping!Table -> Users \ {h}]
    BY <1>1
  <2> QED BY <1>2, <2>1 DEF Injection, IsInjective
<1>4. /\ IsFiniteSet(Users \ {h})
      /\ Cardinality(Users \ {h}) = Cardinality(Users) - 1
  BY LoopersConstants, FS_RemoveElement
<1>5. Cardinality(Looping!Table) <= Cardinality(Users \ {h})
  BY <1>3, <1>4, FS_Injection
<1> QED BY <1>4, <1>5, LoopersConstants

\* The first unused entry is one entry.
LEMMA FirstUnusedIsOne ==
  ASSUME LoopersInv
  PROVE  /\ \A i, j \in Looping!FirstUnused : i = j
         /\ Looping!FirstUnused \subseteq Looping!Table
         /\ \A i \in Looping!FirstUnused : ~ looper[i].used
         /\ (\E i \in Looping!Table : ~ looper[i].used) => Looping!FirstUnused # {}
<1>1. ASSUME NEW i \in Looping!FirstUnused, NEW j \in Looping!FirstUnused, i < j
      PROVE  FALSE
  <2>1. i \in 1 .. MaxLoopers /\ j \in 1 .. MaxLoopers /\ ~ looper[i].used
    BY LoopersConstants DEF Looping!FirstUnused
  <2>2. i \in 1 .. (j - 1)
    BY <1>1, <2>1
  <2> QED BY <2>1, <2>2 DEF Looping!FirstUnused
<1>2. ASSUME NEW i \in Looping!FirstUnused, NEW j \in Looping!FirstUnused PROVE i = j
  <2>1. i \in Nat /\ j \in Nat
    BY LoopersConstants DEF Looping!FirstUnused
  <2> QED BY <1>1, <2>1
<1>3. ASSUME NEW k \in Looping!Table, ~ looper[k].used PROVE Looping!FirstUnused # {}
  <2> DEFINE S == {i \in Looping!Table : ~ looper[i].used}
  <2>1. S \subseteq Nat /\ S # {}
    BY <1>3, LoopersConstants
  <2>2. Min(S) \in S /\ \A y \in S : Min(S) <= y
    BY <2>1, MinIsLeast
  <2>3. ASSUME NEW j \in 1 .. (Min(S) - 1) PROVE looper[j].used
    <3>1. Min(S) \in 1 .. MaxLoopers
      BY <2>2, LoopersConstants
    <3>2. j \in Looping!Table /\ ~ (Min(S) <= j)
      BY <3>1, LoopersConstants
    <3> QED BY <2>2, <3>2
  <2>4. Min(S) \in Looping!Table /\ ~ looper[Min(S)].used
    BY <2>2
  <2> QED BY <2>3, <2>4 DEF Looping!FirstUnused
<1>4. Looping!FirstUnused \subseteq Looping!Table /\ \A i \in Looping!FirstUnused : ~ looper[i].used
  BY DEF Looping!FirstUnused
<1> QED BY <1>2, <1>3, <1>4

\* looper_for gives a thread one entry and leaves those of the others.
LEMMA LooperMade ==
  ASSUME LoopersInv, NEW h \in Users, looper' = Looping!Made(h)
  PROVE  /\ Looping!LooperFor(h) # {}
         /\ looper' \in [Looping!Table -> LooperOf]
         /\ \A i \in Looping!LooperFor(h) :
              i \in Looping!Table /\ looper'[i].used /\ looper'[i].owner = h
         /\ \A i \in Looping!Table : looper[i].used => looper'[i] = looper[i]
         /\ \A i \in Looping!Table :
              IF looper'[i].used THEN looper'[i].owner \in Users /\ looper'[i].refs = refs[i] + 1
              ELSE looper'[i].refs = 0 /\ refs[i] = 0
         /\ \A i, j \in Looping!Table :
              looper'[i].used /\ looper'[j].used /\ looper'[i].owner = looper'[j].owner => i = j
<1>1. CASE Looping!Mine(h) # {}
  <2>1. looper' = looper /\ Looping!LooperFor(h) = Looping!Mine(h)
    BY <1>1 DEF Looping!Made, Looping!LooperFor
  <2> QED BY <1>1, <2>1 DEF Looping!Mine, LoopersInv
<1>2. CASE Looping!Mine(h) = {}
  <2> DEFINE New == Looping!FirstUnused
  <2>1. /\ looper' = [i \in Looping!Table |-> IF i \in New THEN Looping!Fresh(h) ELSE looper[i]]
        /\ Looping!LooperFor(h) = New
    BY <1>2 DEF Looping!Made, Looping!LooperFor
  <2>2. /\ \A i, j \in New : i = j
        /\ New \subseteq Looping!Table /\ New # {}
        /\ \A i \in New : ~ looper[i].used
    BY <1>2, SomeUnused, FirstUnusedIsOne
  <2> HIDE DEF New
  <2>3. /\ Looping!Fresh(h) \in LooperOf
        /\ Looping!Fresh(h).used = TRUE /\ Looping!Fresh(h).owner = h /\ Looping!Fresh(h).refs = 1
    BY DEF Looping!Fresh, LooperOf
  <2>4. /\ looper' \in [Looping!Table -> LooperOf]
        /\ \A i \in New : looper'[i] = Looping!Fresh(h)
        /\ \A i \in Looping!Table \ New : looper'[i] = looper[i]
    BY <2>1, <2>2, <2>3 DEF LoopersInv
  <2>5. ASSUME NEW i \in Looping!Table
        PROVE  IF looper'[i].used THEN looper'[i].owner \in Users /\ looper'[i].refs = refs[i] + 1
               ELSE looper'[i].refs = 0 /\ refs[i] = 0
    <3>1. CASE i \in New
      BY <2>2, <2>3, <2>4, <3>1 DEF LoopersInv
    <3>2. CASE i \notin New
      BY <2>4, <3>2 DEF LoopersInv
    <3> QED BY <3>1, <3>2
  <2>6. \A i \in Looping!Table : looper[i].used => looper[i].owner # h
    BY <1>2 DEF Looping!Mine
  <2>7. ASSUME NEW i \in Looping!Table, NEW j \in Looping!Table,
               looper'[i].used, looper'[j].used, looper'[i].owner = looper'[j].owner
        PROVE  i = j
    <3>1. CASE i \in New /\ j \in New
      BY <2>2, <3>1
    <3>2. CASE i \in New /\ j \notin New
      BY <2>3, <2>4, <2>6, <2>7, <3>2
    <3>3. CASE i \notin New /\ j \in New
      BY <2>3, <2>4, <2>6, <2>7, <3>3
    <3>4. CASE i \notin New /\ j \notin New
      BY <2>4, <2>7, <3>4 DEF LoopersInv
    <3> QED BY <3>1, <3>2, <3>3, <3>4
  <2>8. \A i \in Looping!Table : looper[i].used => looper'[i] = looper[i]
    BY <2>2, <2>4
  <2>9. \A i \in New : i \in Looping!Table /\ looper'[i].used /\ looper'[i].owner = h
    BY <2>2, <2>3, <2>4
  <2> QED BY <2>1, <2>2, <2>4, <2>5, <2>7, <2>8, <2>9
<1> QED BY <1>1, <1>2

\* A thread that polls is kept by a step that changes neither its entry nor it.
LEMMA PollersKept ==
  ASSUME LoopersInv, NEW h \in Users, poll'[h] = poll[h],
         \A i \in Looping!Table : looper[i].used =>
           /\ looper'[i].used /\ looper'[i].owner = looper[i].owner
           /\ looper[i].signaled = FALSE => looper'[i].signaled = FALSE
  PROVE  poll'[h] # Looping!Out =>
           /\ poll'[h].l \in Looping!Table
           /\ looper'[poll'[h].l].used /\ looper'[poll'[h].l].owner = h
           /\ poll'[h].at = "asleep" => looper'[poll'[h].l].signaled = FALSE
BY DEF LoopersInv

\* ALooper_prepare and ALooper_forThread.
LEMMA PrepareStep ==
  ASSUME LoopersInv, Looping!Prepare
  PROVE  LoopersInv'
<1>1. PICK h \in alive : looper' = Looping!Made(h) /\ alive' = alive /\ poll' = poll /\ refs' = refs
                         /\ fell' = fell
  BY DEF Looping!Prepare
<1>2. h \in Users
  BY DEF LoopersInv
<1>3. /\ looper' \in [Looping!Table -> LooperOf]
      /\ \A i \in Looping!Table : looper[i].used => looper'[i] = looper[i]
      /\ \A i \in Looping!Table :
           IF looper'[i].used THEN looper'[i].owner \in Users /\ looper'[i].refs = refs[i] + 1
           ELSE looper'[i].refs = 0 /\ refs[i] = 0
      /\ \A i, j \in Looping!Table :
           looper'[i].used /\ looper'[j].used /\ looper'[i].owner = looper'[j].owner => i = j
  BY <1>1, <1>2, LooperMade
<1>4. \A u \in Users : poll'[u] # Looping!Out =>
        /\ poll'[u].l \in Looping!Table
        /\ looper'[poll'[u].l].used /\ looper'[poll'[u].l].owner = u
        /\ poll'[u].at = "asleep" => looper'[poll'[u].l].signaled = FALSE
  <2>1. \A j \in Looping!Table : looper[j].used =>
          /\ looper'[j].used /\ looper'[j].owner = looper[j].owner
          /\ looper[j].signaled = FALSE => looper'[j].signaled = FALSE
    BY <1>1, <1>3
  <2>2. \A u \in Users : poll'[u] = poll[u]
    BY <1>1
  <2> QED BY <2>1, <2>2, PollersKept
<1>5. Looping!Table' = Looping!Table /\ Looping!Out' = Looping!Out /\ LooperOf' = LooperOf
  BY DEF Looping!Table, Looping!Out, LooperOf
<1> QED BY <1>1, <1>3, <1>4, <1>5 DEF LoopersInv

\* ALooper_acquire.
LEMMA AcquireStep ==
  ASSUME LoopersInv, Looping!Acquire
  PROVE  LoopersInv'
<1>1. PICK i \in Looping!Table :
        /\ looper[i].used /\ refs[i] < MaxRefs
        /\ looper' = [looper EXCEPT ![i].refs = @ + 1]
        /\ refs' = [refs EXCEPT ![i] = @ + 1]
        /\ alive' = alive /\ poll' = poll /\ fell' = fell
  BY DEF Looping!Acquire
<1>2. /\ looper \in [Looping!Table -> LooperOf] /\ refs \in [Looping!Table -> 0 .. MaxRefs]
      /\ looper[i] \in LooperOf /\ refs[i] \in 0 .. MaxRefs
  BY DEF LoopersInv
<1>3. /\ looper' \in [Looping!Table -> LooperOf]
      /\ looper'[i].used /\ looper'[i].owner = looper[i].owner
      /\ looper'[i].signaled = looper[i].signaled /\ looper'[i].refs = looper[i].refs + 1
      /\ \A j \in Looping!Table \ {i} : looper'[j] = looper[j]
  BY <1>1, <1>2 DEF LooperOf
<1>4. /\ refs' \in [Looping!Table -> 0 .. MaxRefs] /\ refs'[i] = refs[i] + 1
      /\ \A j \in Looping!Table \ {i} : refs'[j] = refs[j]
  BY <1>1, <1>2, LoopersConstants
<1>5. ASSUME NEW j \in Looping!Table
      PROVE  IF looper'[j].used THEN looper'[j].owner \in Users /\ looper'[j].refs = refs'[j] + 1
             ELSE looper'[j].refs = 0 /\ refs'[j] = 0
  BY <1>1, <1>3, <1>4 DEF LoopersInv
<1>6. \A j, k \in Looping!Table :
        looper'[j].used /\ looper'[k].used /\ looper'[j].owner = looper'[k].owner => j = k
  BY <1>1, <1>3 DEF LoopersInv
<1>7. \A u \in Users : poll'[u] # Looping!Out =>
        /\ poll'[u].l \in Looping!Table
        /\ looper'[poll'[u].l].used /\ looper'[poll'[u].l].owner = u
        /\ poll'[u].at = "asleep" => looper'[poll'[u].l].signaled = FALSE
  <2>1. \A j \in Looping!Table : looper[j].used =>
          /\ looper'[j].used /\ looper'[j].owner = looper[j].owner
          /\ looper[j].signaled = FALSE => looper'[j].signaled = FALSE
    BY <1>1, <1>3
  <2>2. \A u \in Users : poll'[u] = poll[u]
    BY <1>1
  <2> QED BY <2>1, <2>2, PollersKept
<1>8. Looping!Table' = Looping!Table /\ Looping!Out' = Looping!Out /\ LooperOf' = LooperOf
  BY DEF Looping!Table, Looping!Out, LooperOf
<1> QED BY <1>1, <1>3, <1>4, <1>5, <1>6, <1>7, <1>8 DEF LoopersInv

\* ALooper_release: the owner's reference keeps the entry used.
LEMMA ReleaseStep ==
  ASSUME LoopersInv, Looping!Release
  PROVE  LoopersInv'
<1>1. PICK i \in Looping!Table :
        /\ refs[i] > 0
        /\ refs' = [refs EXCEPT ![i] = @ - 1]
        /\ looper' = [looper EXCEPT ![i].refs = @ - 1, ![i].used = looper[i].refs > 1]
        /\ alive' = alive /\ poll' = poll /\ fell' = fell
  BY DEF Looping!Release
<1>2. /\ looper \in [Looping!Table -> LooperOf] /\ refs \in [Looping!Table -> 0 .. MaxRefs]
      /\ looper[i] \in LooperOf /\ refs[i] \in 0 .. MaxRefs
  BY DEF LoopersInv
<1>3. looper[i].used /\ looper[i].refs = refs[i] + 1 /\ looper[i].refs > 1
  BY <1>1, <1>2, LoopersConstants DEF LoopersInv
<1>4. /\ looper' \in [Looping!Table -> LooperOf]
      /\ looper'[i].used /\ looper'[i].owner = looper[i].owner
      /\ looper'[i].signaled = looper[i].signaled /\ looper'[i].refs = looper[i].refs - 1
      /\ \A j \in Looping!Table \ {i} : looper'[j] = looper[j]
  <2> DEFINE r == [looper[i] EXCEPT !.refs = @ - 1, !.used = looper[i].refs > 1]
  <2>1. looper' = [looper EXCEPT ![i] = r]
    BY <1>1, <1>2
  <2>2. r = [looper[i] EXCEPT !.refs = @ - 1, !.used = TRUE]
    BY <1>3
  <2>3. /\ r \in LooperOf /\ r.used /\ r.owner = looper[i].owner
        /\ r.signaled = looper[i].signaled /\ r.refs = looper[i].refs - 1
    <3> HIDE DEF r
    <3>1. looper[i].refs - 1 \in Int
      BY <1>2 DEF LooperOf
    <3> QED BY <1>2, <2>2, <3>1 DEF LooperOf
  <2> HIDE DEF r
  <2> QED BY <1>2, <2>1, <2>3
<1>5. /\ refs' \in [Looping!Table -> 0 .. MaxRefs] /\ refs'[i] = refs[i] - 1
      /\ \A j \in Looping!Table \ {i} : refs'[j] = refs[j]
  BY <1>1, <1>2, LoopersConstants
<1>6. ASSUME NEW j \in Looping!Table
      PROVE  IF looper'[j].used THEN looper'[j].owner \in Users /\ looper'[j].refs = refs'[j] + 1
             ELSE looper'[j].refs = 0 /\ refs'[j] = 0
  BY <1>2, <1>3, <1>4, <1>5 DEF LoopersInv
<1>7. \A j, k \in Looping!Table :
        looper'[j].used /\ looper'[k].used /\ looper'[j].owner = looper'[k].owner => j = k
  BY <1>3, <1>4 DEF LoopersInv
<1>8. \A u \in Users : poll'[u] # Looping!Out =>
        /\ poll'[u].l \in Looping!Table
        /\ looper'[poll'[u].l].used /\ looper'[poll'[u].l].owner = u
        /\ poll'[u].at = "asleep" => looper'[poll'[u].l].signaled = FALSE
  <2>1. \A j \in Looping!Table : looper[j].used =>
          /\ looper'[j].used /\ looper'[j].owner = looper[j].owner
          /\ looper[j].signaled = FALSE => looper'[j].signaled = FALSE
    BY <1>3, <1>4
  <2>2. \A u \in Users : poll'[u] = poll[u]
    BY <1>1
  <2> QED BY <2>1, <2>2, PollersKept
<1>9. Looping!Table' = Looping!Table /\ Looping!Out' = Looping!Out /\ LooperOf' = LooperOf
  BY DEF Looping!Table, Looping!Out, LooperOf
<1> QED BY <1>1, <1>4, <1>5, <1>6, <1>7, <1>8, <1>9 DEF LoopersInv

\* ALooper_wake: nobody sleeps on the looper it signals.
LEMMA WakeStep ==
  ASSUME LoopersInv, Looping!Wake
  PROVE  LoopersInv'
<1>1. PICK i \in Looping!Table :
        /\ looper' = [looper EXCEPT ![i].signaled = TRUE]
        /\ poll' = [h \in Users |-> IF poll[h].l = i /\ poll[h].at = "asleep"
                                      THEN [poll[h] EXCEPT !.at = "woken"] ELSE poll[h]]
        /\ alive' = alive /\ refs' = refs /\ fell' = fell
  BY DEF Looping!Wake, Looping!Signaled, Looping!Awaken
<1>2. /\ looper \in [Looping!Table -> LooperOf] /\ looper[i] \in LooperOf
      /\ poll \in [Users -> [at : {"out", "locking", "asleep", "woken"}, l : Int]]
  BY DEF LoopersInv
<1>3. /\ looper' \in [Looping!Table -> LooperOf]
      /\ looper'[i].used = looper[i].used /\ looper'[i].owner = looper[i].owner
      /\ looper'[i].refs = looper[i].refs
      /\ \A j \in Looping!Table \ {i} : looper'[j] = looper[j]
  BY <1>1, <1>2 DEF LooperOf
<1>4. ASSUME NEW h \in Users
      PROVE  /\ poll'[h] \in [at : {"out", "locking", "asleep", "woken"}, l : Int]
             /\ poll'[h] # Looping!Out =>
                  /\ poll'[h].l \in Looping!Table
                  /\ looper'[poll'[h].l].used /\ looper'[poll'[h].l].owner = h
                  /\ poll'[h].at = "asleep" => looper'[poll'[h].l].signaled = FALSE
  <2>0. poll[h] \in [at : {"out", "locking", "asleep", "woken"}, l : Int]
    BY <1>2
  <2>1. CASE poll[h].l = i /\ poll[h].at = "asleep"
    <3>1. poll'[h] = [at |-> "woken", l |-> i]
      BY <1>1, <2>0, <2>1
    <3>2. poll[h] # Looping!Out
      BY <2>1 DEF Looping!Out
    <3>3. looper[i].used /\ looper[i].owner = h
      BY <2>1, <3>2 DEF LoopersInv
    <3>4. i \in Int
      BY <2>0, <2>1
    <3>5. /\ poll'[h].at = "woken" /\ poll'[h].l = i
          /\ poll'[h] \in [at : {"out", "locking", "asleep", "woken"}, l : Int]
      BY <3>1, <3>4
    <3> QED BY <1>3, <3>3, <3>5
  <2>2. CASE ~ (poll[h].l = i /\ poll[h].at = "asleep")
    <3>1. poll'[h] = poll[h]
      BY <1>1, <2>2
    <3>2. ASSUME poll[h] # Looping!Out
          PROVE  /\ poll[h].l \in Looping!Table
                 /\ looper'[poll[h].l].used /\ looper'[poll[h].l].owner = h
                 /\ poll[h].at = "asleep" => looper'[poll[h].l].signaled = FALSE
      <4>1. /\ poll[h].l \in Looping!Table
            /\ looper[poll[h].l].used /\ looper[poll[h].l].owner = h
            /\ poll[h].at = "asleep" => looper[poll[h].l].signaled = FALSE
        BY <3>2 DEF LoopersInv
      <4> QED BY <1>3, <2>2, <4>1
    <3> QED BY <2>0, <3>1, <3>2
  <2> QED BY <2>1, <2>2
<1>5. poll' \in [Users -> [at : {"out", "locking", "asleep", "woken"}, l : Int]]
  BY <1>1, <1>4
<1>6. ASSUME NEW j \in Looping!Table
      PROVE  IF looper'[j].used THEN looper'[j].owner \in Users /\ looper'[j].refs = refs'[j] + 1
             ELSE looper'[j].refs = 0 /\ refs'[j] = 0
  BY <1>1, <1>3 DEF LoopersInv
<1>7. \A j, k \in Looping!Table :
        looper'[j].used /\ looper'[k].used /\ looper'[j].owner = looper'[k].owner => j = k
  BY <1>3 DEF LoopersInv
<1>8. Looping!Table' = Looping!Table /\ Looping!Out' = Looping!Out /\ LooperOf' = LooperOf
  BY DEF Looping!Table, Looping!Out, LooperOf
<1> QED BY <1>1, <1>3, <1>4, <1>5, <1>6, <1>7, <1>8 DEF LoopersInv

\* ALooper_pollOnce finds the entry of its thread.
LEMMA PollCallStep ==
  ASSUME LoopersInv, NEW h \in Users, Looping!PollCall(h)
  PROVE  LoopersInv'
<1>1. /\ poll[h] = Looping!Out /\ looper' = Looping!Made(h) /\ alive' = alive /\ refs' = refs
      /\ IF Looping!LooperFor(h) = {} THEN fell' = TRUE /\ poll' = poll
         ELSE /\ \E l \in Looping!LooperFor(h) :
                   poll' = [poll EXCEPT ![h] = [at |-> "locking", l |-> l]]
              /\ fell' = fell
  BY DEF Looping!PollCall
<1>2. /\ Looping!LooperFor(h) # {}
      /\ looper' \in [Looping!Table -> LooperOf]
      /\ \A i \in Looping!LooperFor(h) :
           i \in Looping!Table /\ looper'[i].used /\ looper'[i].owner = h
      /\ \A i \in Looping!Table : looper[i].used => looper'[i] = looper[i]
      /\ \A i \in Looping!Table :
           IF looper'[i].used THEN looper'[i].owner \in Users /\ looper'[i].refs = refs[i] + 1
           ELSE looper'[i].refs = 0 /\ refs[i] = 0
      /\ \A i, j \in Looping!Table :
           looper'[i].used /\ looper'[j].used /\ looper'[i].owner = looper'[j].owner => i = j
  BY <1>1, LooperMade
<1>3. PICK l \in Looping!LooperFor(h) : poll' = [poll EXCEPT ![h] = [at |-> "locking", l |-> l]]
  BY <1>1, <1>2
<1>4. l \in Looping!Table /\ looper'[l].used /\ looper'[l].owner = h /\ l \in Int
  BY <1>2, LoopersConstants
<1>5. poll \in [Users -> [at : {"out", "locking", "asleep", "woken"}, l : Int]]
  BY DEF LoopersInv
<1>6. /\ poll' \in [Users -> [at : {"out", "locking", "asleep", "woken"}, l : Int]]
      /\ poll'[h].at = "locking" /\ poll'[h].l = l
      /\ \A u \in Users \ {h} : poll'[u] = poll[u]
  BY <1>3, <1>4, <1>5
<1>7. ASSUME NEW u \in Users, poll'[u] # Looping!Out
      PROVE  /\ poll'[u].l \in Looping!Table
             /\ looper'[poll'[u].l].used /\ looper'[poll'[u].l].owner = u
             /\ poll'[u].at = "asleep" => looper'[poll'[u].l].signaled = FALSE
  <2>1. CASE u = h
    BY <1>4, <1>6, <2>1
  <2>2. CASE u # h
    <3>1. poll'[u] = poll[u]
      BY <1>6, <2>2
    <3>2. \A j \in Looping!Table : looper[j].used =>
            /\ looper'[j].used /\ looper'[j].owner = looper[j].owner
            /\ looper[j].signaled = FALSE => looper'[j].signaled = FALSE
      BY <1>2
    <3> QED BY <1>7, <3>1, <3>2, PollersKept
  <2> QED BY <2>1, <2>2
<1>8. Looping!Table' = Looping!Table /\ Looping!Out' = Looping!Out /\ LooperOf' = LooperOf
  BY DEF Looping!Table, Looping!Out, LooperOf
<1> QED BY <1>1, <1>2, <1>6, <1>7, <1>8 DEF LoopersInv

\* A poll ends and takes the signal with it.
LEMMA PollEnds ==
  ASSUME LoopersInv, NEW h \in Users, poll[h] # Looping!Out, Looping!Ends(h),
         alive' = alive, refs' = refs, fell' = fell
  PROVE  LoopersInv'
<1> DEFINE l == poll[h].l
<1>1. poll' = [poll EXCEPT ![h] = Looping!Out] /\ looper' = [looper EXCEPT ![l].signaled = FALSE]
  BY DEF Looping!Ends
<1>2. l \in Looping!Table
  BY DEF LoopersInv
<1>3. /\ looper \in [Looping!Table -> LooperOf]
      /\ poll \in [Users -> [at : {"out", "locking", "asleep", "woken"}, l : Int]]
  BY DEF LoopersInv
<1> HIDE DEF l
<1>4. looper[l] \in LooperOf
  BY <1>2, <1>3
<1>5. /\ looper' \in [Looping!Table -> LooperOf]
      /\ looper'[l].used = looper[l].used /\ looper'[l].owner = looper[l].owner
      /\ looper'[l].refs = looper[l].refs /\ looper'[l].signaled = FALSE
      /\ \A j \in Looping!Table \ {l} : looper'[j] = looper[j]
  BY <1>1, <1>2, <1>3, <1>4 DEF LooperOf
<1>6. Looping!Out \in [at : {"out", "locking", "asleep", "woken"}, l : Int]
  BY DEF Looping!Out
<1>7. /\ poll' \in [Users -> [at : {"out", "locking", "asleep", "woken"}, l : Int]]
      /\ poll'[h] = Looping!Out /\ \A u \in Users \ {h} : poll'[u] = poll[u]
  BY <1>1, <1>3, <1>6
<1>8. ASSUME NEW u \in Users, poll'[u] # Looping!Out
      PROVE  /\ poll'[u].l \in Looping!Table
             /\ looper'[poll'[u].l].used /\ looper'[poll'[u].l].owner = u
             /\ poll'[u].at = "asleep" => looper'[poll'[u].l].signaled = FALSE
  <2>1. poll'[u] = poll[u]
    BY <1>7, <1>8
  <2>2. \A j \in Looping!Table : looper[j].used =>
          /\ looper'[j].used /\ looper'[j].owner = looper[j].owner
          /\ looper[j].signaled = FALSE => looper'[j].signaled = FALSE
    BY <1>5
  <2> QED BY <1>8, <2>1, <2>2, PollersKept
<1>9. ASSUME NEW j \in Looping!Table
      PROVE  IF looper'[j].used THEN looper'[j].owner \in Users /\ looper'[j].refs = refs'[j] + 1
             ELSE looper'[j].refs = 0 /\ refs'[j] = 0
  BY <1>5 DEF LoopersInv
<1>10. \A j, k \in Looping!Table :
         looper'[j].used /\ looper'[k].used /\ looper'[j].owner = looper'[k].owner => j = k
  BY <1>5 DEF LoopersInv
<1>11. Looping!Table' = Looping!Table /\ Looping!Out' = Looping!Out /\ LooperOf' = LooperOf
  BY DEF Looping!Table, Looping!Out, LooperOf
<1> QED BY <1>5, <1>7, <1>8, <1>9, <1>10, <1>11 DEF LoopersInv

\* The steps of a poll: it ends, times out at once, or sleeps on a looper that
\* is not signaled.
LEMMA PollsStep ==
  ASSUME LoopersInv, NEW h \in Users, Looping!Polls(h)
  PROVE  LoopersInv'
<1>1. poll \in [Users -> [at : {"out", "locking", "asleep", "woken"}, l : Int]]
  BY DEF LoopersInv
<1>2. alive' = alive /\ refs' = refs /\ fell' = fell /\ poll[h] # Looping!Out
  BY DEF Looping!Polls, Looping!PollLock, Looping!PollWoken, Looping!TimeUp, Looping!Out
<1>3. Looping!Table' = Looping!Table /\ Looping!Out' = Looping!Out /\ LooperOf' = LooperOf
  BY DEF Looping!Table, Looping!Out, LooperOf
<1>4. CASE Looping!Ends(h)
  BY <1>2, <1>4, PollEnds
<1>5. CASE poll' = [poll EXCEPT ![h] = Looping!Out] /\ looper' = looper
  <2>1. Looping!Out \in [at : {"out", "locking", "asleep", "woken"}, l : Int]
    BY DEF Looping!Out
  <2>2. /\ poll' \in [Users -> [at : {"out", "locking", "asleep", "woken"}, l : Int]]
        /\ \A u \in Users : poll'[u] # Looping!Out => poll'[u] = poll[u]
    BY <1>1, <1>5, <2>1
  <2> QED BY <1>2, <1>3, <1>5, <2>2 DEF LoopersInv
<1>6. CASE /\ ~ looper[poll[h].l].signaled /\ looper' = looper
           /\ poll' = [poll EXCEPT ![h].at = "asleep"]
  <2>1. /\ poll' \in [Users -> [at : {"out", "locking", "asleep", "woken"}, l : Int]]
        /\ poll'[h].l = poll[h].l /\ \A u \in Users \ {h} : poll'[u] = poll[u]
    BY <1>1, <1>6
  <2>2. looper[poll[h].l].signaled = FALSE
    BY <1>2, <1>6 DEF LoopersInv, LooperOf
  <2>3. ASSUME NEW u \in Users, poll'[u] # Looping!Out
        PROVE  /\ poll'[u].l \in Looping!Table
               /\ looper[poll'[u].l].used /\ looper[poll'[u].l].owner = u
               /\ poll'[u].at = "asleep" => looper[poll'[u].l].signaled = FALSE
    BY <1>2, <2>1, <2>2, <2>3 DEF LoopersInv
  <2> QED BY <1>2, <1>3, <1>6, <2>1, <2>3 DEF LoopersInv
<1> QED BY <1>4, <1>5, <1>6 DEF Looping!Polls, Looping!PollLock, Looping!PollWoken, Looping!TimeUp

\* Every step of the loopers keeps their invariant, and so does one of another part.
LEMMA LoopersStep ==
  ASSUME LoopersInv, Looping!Next \/ UNCHANGED loopingVars
  PROVE  LoopersInv'
<1>1. Looping!Table' = Looping!Table /\ Looping!Out' = Looping!Out /\ LooperOf' = LooperOf
  BY DEF Looping!Table, Looping!Out, LooperOf
<1>2. CASE Looping!ThreadStarts \/ Looping!ThreadEnds
  BY <1>1, <1>2 DEF Looping!ThreadStarts, Looping!ThreadEnds, LoopersInv
<1>3. CASE UNCHANGED loopingVars
  BY <1>1, <1>3 DEF loopingVars, LoopersInv
<1>4. CASE Looping!Prepare \/ Looping!Acquire \/ Looping!Release \/ Looping!Wake
  BY <1>4, PrepareStep, AcquireStep, ReleaseStep, WakeStep
<1>5. CASE \E h \in Users : Looping!PollCall(h) \/ Looping!Polls(h)
  BY <1>5, PollCallStep, PollsStep
<1> QED BY <1>2, <1>3, <1>4, <1>5 DEF Looping!Next, Looping!Polls

\* No looper is used at boot.
LEMMA LoopersInitially ==
  ASSUME Looping!Init
  PROVE  LoopersInv
<1>1. /\ alive = {} /\ fell = FALSE
      /\ looper = [i \in Looping!Table |-> Looping!Unused]
      /\ poll = [h \in Users |-> Looping!Out]
      /\ refs = [i \in Looping!Table |-> 0]
  BY DEF Looping!Init
<1>2. /\ looper \in [Looping!Table -> LooperOf]
      /\ \A i \in Looping!Table : looper[i].used = FALSE /\ looper[i].refs = 0
  BY <1>1 DEF Looping!Unused, LooperOf
<1>3. poll \in [Users -> [at : {"out", "locking", "asleep", "woken"}, l : Int]]
  BY <1>1 DEF Looping!Out
<1>4. refs \in [Looping!Table -> 0 .. MaxRefs] /\ \A i \in Looping!Table : refs[i] = 0
  BY <1>1, LoopersConstants
<1> QED BY <1>1, <1>2, <1>3, <1>4 DEF LoopersInv

\* What a run checks of the loopers follows.
LEMMA LoopersAreSound ==
  ASSUME LoopersInv
  PROVE  Looping!TypeOK /\ Looping!LoopersSound
<1>1. \A i \in Looping!Table : looper[i].owner \in Users \cup {None} /\ refs[i] \in 0 .. MaxRefs
  BY DEF LoopersInv, LooperOf
<1>2. ASSUME NEW i \in Looping!Table PROVE looper[i].refs \in 0 .. (MaxRefs + 1)
  <2>1. looper[i].refs = 0 \/ looper[i].refs = refs[i] + 1
    BY DEF LoopersInv
  <2> QED BY <1>1, <2>1, LoopersConstants
<1>3. Looping!TypeOK
  BY <1>1, <1>2 DEF LoopersInv, Looping!TypeOK
<1>4. ASSUME NEW h \in Users PROVE Looping!Cardinality(Looping!Mine(h)) <= 1
  <2>1. \A i, j \in Looping!Mine(h) : i = j
    BY DEF Looping!Mine, LoopersInv
  <2>2. Cardinality({}) = 0 /\ \A i : Cardinality({i}) = 1
    BY FS_EmptySet, FS_Singleton
  <2>3. Looping!Mine(h) = {} \/ \E i : Looping!Mine(h) = {i}
    BY <2>1
  <2>4. Cardinality(Looping!Mine(h)) \in {0, 1}
    BY <2>2, <2>3
  <2> QED BY <2>4, SameCardinality
<1>5. ASSUME NEW h \in Users, poll[h] # Looping!Out
      PROVE  /\ poll[h].l \in Looping!Mine(h)
             /\ poll[h].at = "asleep" => ~ looper[poll[h].l].signaled
  BY <1>5 DEF LoopersInv, Looping!Mine
<1> QED BY <1>3, <1>4, <1>5 DEF Looping!LoopersSound, LoopersInv

-----------------------------------------------------------------------------
(* The theorem about the pipes and the loopers.                            *)

\* A step of the whole is a step of the pipes or leaves them, and so for the loopers.
LEMMA SignalsStep ==
  ASSUME PipesInv, LoopersInv, [MCNext]_allVars
  PROVE  PipesInv' /\ LoopersInv'
<1>1. Piping!Next \/ UNCHANGED pipingVars
  BY DEF MCNext, InHook, InPiping, InLooping, allVars
<1>2. Looping!Next \/ UNCHANGED loopingVars
  BY DEF MCNext, InHook, InPiping, InLooping, allVars
<1> QED BY <1>1, <1>2, PipesStep, LoopersStep

\* fakefd.c and the loopers of android_native_unity.c, for any number of
\* threads, descriptors and bytes: a pipe carries what was written, once and in
\* order, whoever opens, reads and closes; a thread finds a looper of its own,
\* which nobody gives back while it polls, and sleeps on none that is signaled.
THEOREM SignalsAreSound == MCSpec => []SignalsSound
<1>1. MCInit => PipesInv /\ LoopersInv
  BY PipesInitially, LoopersInitially DEF MCInit
<1>2. PipesInv /\ LoopersInv /\ [MCNext]_allVars => (PipesInv /\ LoopersInv)'
  BY SignalsStep
<1>3. PipesInv /\ LoopersInv => SignalsSound
  BY PipesCarryBytes, LoopersAreSound DEF SignalsSound
<1> QED BY <1>1, <1>2, <1>3, PTL DEF MCSpec

\* The hook inside the whole behaves as it does alone.
THEOREM HookInWhole == MCSpec => Spec
<1>1. MCInit => Init
  BY DEF MCInit
<1>2. [MCNext]_allVars => [Next]_vars
  BY DEF MCNext, InHook, InPiping, InLooping, allVars
<1> QED BY <1>1, <1>2, PTL DEF MCSpec, Spec

=============================================================================
