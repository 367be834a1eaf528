---------------------------- MODULE OcArenaProofs ----------------------------
(***************************************************************************)
(* Theorems about OcArena, for every window, pool, block size and number   *)
(* of reservations.  The inductive invariant adds to the three invariants  *)
(* what a scan in progress has been asked for (ScanSound): without it the  *)
(* slot that ends the scan need not be a page of the window.  Then about   *)
(* the parts beside it, each with an invariant of its own: those that run  *)
(* with the game, the render loop, the window it draws into, the watchdog  *)
(* and the overlay, and those before it, the loader, the cut of the memory *)
(* and the patches of the game's code.                                     *)
(***************************************************************************)
EXTENDS MCOcArena, Sequences, FiniteSetTheorems, NumberFacts, TLAPS

\* A scan in progress works for the block its reservation wants.
ScanSound ==
  ~ LockFree => /\ block[scan.id] \in Blocks
                /\ scan.need = Need(block[scan.id])
                /\ base[scan.id] = NoBase
                /\ owned[scan.id] = {}

\* A reservation without a base holds no page.
BaseSound == \A i \in Ids : base[i] = NoBase => owned[i] = {}

IInv == TypeOK /\ ScanSound /\ BaseSound
          /\ ReservationsDisjoint /\ CommitConsistent /\ PoolExact

-----------------------------------------------------------------------------
(* The pool pages given to a set of new pages, in the order of the pages.  *)

\* The rank of a page among the new ones is a number below their count, and
\* a later page has a greater rank (the bump pointer of oc_commit_locked).
LEMMA RankBelow ==
  ASSUME NEW S, IsFiniteSet(S), S \subseteq Int, NEW p \in S
  PROVE  /\ Cardinality({q \in S : q < p}) \in Nat
         /\ Cardinality({q \in S : q < p}) < Cardinality(S)
         /\ Cardinality(S) \in Nat
<1> DEFINE R == {q \in S : q < p}
<1>1. R \in SUBSET S /\ p \notin R
  OBVIOUS
<1>2. /\ IsFiniteSet(R) /\ Cardinality(R) <= Cardinality(S)
      /\ Cardinality(S) = Cardinality(R) => S = R
  <2> HIDE DEF R
  <2> QED BY <1>1, FS_Subset
<1>3. Cardinality(R) \in Nat /\ Cardinality(S) \in Nat
  <2> HIDE DEF R
  <2> QED BY <1>2, FS_CardinalityType
<1>4. R # S
  BY <1>1
<1> QED
  <2> HIDE DEF R
  <2>1. Cardinality(R) < Cardinality(S)
    BY <1>2, <1>3, <1>4
  <2> QED BY <2>1, <1>3 DEF R

LEMMA RankOrder ==
  ASSUME NEW S, IsFiniteSet(S), S \subseteq Int, NEW p \in S, NEW q \in S, p < q
  PROVE  Cardinality({x \in S : x < p}) < Cardinality({x \in S : x < q})
<1> DEFINE Q == {x \in S : x < q}
<1>1. Q \in SUBSET S /\ Q \subseteq Int /\ p \in Q
  OBVIOUS
<1>2. IsFiniteSet(Q)
  <2> HIDE DEF Q
  <2> QED BY <1>1, FS_Subset
<1>3. Cardinality({x \in Q : x < p}) < Cardinality(Q)
  <2> HIDE DEF Q
  <2> QED BY <1>1, <1>2, RankBelow
<1>4. \A x \in S : x < p => x < q
  <2> TAKE x \in S
  <2>1. x \in Int /\ p \in Int /\ q \in Int
    OBVIOUS
  <2> QED BY <2>1
<1>5. {x \in Q : x < p} = {x \in S : x < p}
  BY <1>4
<1> QED BY <1>3, <1>5

-----------------------------------------------------------------------------

LEMMA PageFinite == IsFiniteSet(Page) /\ Page \subseteq Int /\ Page \subseteq Nat
<1>1. Pages - 1 \in Int
  BY WindowAssumption
<1>2. IsFiniteSet(0 .. (Pages - 1))
  BY <1>1, FS_Interval
<1> QED BY <1>2, WindowAssumption DEF Page

\* One run of oc_commit_locked keeps the books: type, aliases and count.
LEMMA BackKeepsBooks ==
  ASSUME TypeOK, CommitConsistent, PoolExact,
         NEW new \in SUBSET (Page \ committed), Back(new)
  PROVE  /\ committed' = committed \cup new /\ committed' \subseteq Page
         /\ bump' \in 0 .. PoolPages
         /\ alias' \in [Page -> NoAlias .. (PoolPages - 1)]
         /\ committed' = {p \in Page : alias'[p] # NoAlias}
         /\ \A p \in committed' : alias'[p] < bump'
         /\ \A p, q \in committed' : alias'[p] = alias'[q] => p = q
         /\ PoolExact'
         /\ \A p \in Page : p \notin new => alias'[p] = alias[p]
<1> DEFINE Rank(p) == Cardinality({q \in new : q < p})
<1>1. PoolPages \in Nat /\ bump \in Nat /\ new \subseteq Page /\ committed \subseteq Page
  BY WindowAssumption DEF TypeOK
<1>2. IsFiniteSet(new) /\ IsFiniteSet(committed) /\ new \subseteq Int
  BY <1>1, PageFinite, FS_Subset
<1>3. Cardinality(new) \in Nat /\ Cardinality(committed) \in Nat
  BY <1>2, FS_CardinalityType
<1>4. \A p \in new : Rank(p) \in Nat /\ Rank(p) < Cardinality(new)
  BY <1>2, RankBelow
<1>5. \A p, q \in new : Rank(p) = Rank(q) => p = q
  <2> SUFFICES ASSUME NEW p \in new, NEW q \in new, p # q PROVE Rank(p) # Rank(q)
    OBVIOUS
  <2>1. p \in Int /\ q \in Int
    BY <1>2
  <2>2. Rank(p) \in Nat /\ Rank(q) \in Nat
    BY <1>4
  <2>3. p < q => Rank(p) < Rank(q)
    BY <1>2, RankOrder
  <2>4. q < p => Rank(q) < Rank(p)
    BY <1>2, RankOrder
  <2> QED
    <3> HIDE DEF Rank
    <3> QED BY <2>1, <2>2, <2>3, <2>4
<1> HIDE DEF Rank
<1>6. /\ committed' = committed \cup new
      /\ bump' = bump + Cardinality(new)
      /\ bump + Cardinality(new) <= PoolPages
      /\ alias' = [p \in Page |-> IF p \in new THEN bump + Rank(p) ELSE alias[p]]
  BY DEF Back, Aliased, Rank
<1>7. bump' \in 0 .. PoolPages
  BY <1>1, <1>3, <1>6
<1>8. \A p \in new : alias'[p] = bump + Rank(p)
  BY <1>1, <1>6
<1>9. \A p \in Page : p \notin new => alias'[p] = alias[p]
  BY <1>6
<1>10. \A p \in Page : alias[p] \in NoAlias .. (PoolPages - 1)
  BY DEF TypeOK
<1>11. alias' \in [Page -> NoAlias .. (PoolPages - 1)]
  <2>1. \A p \in new : bump + Rank(p) \in NoAlias .. (PoolPages - 1)
    BY <1>1, <1>3, <1>4, <1>6 DEF NoAlias
  <2> QED BY <2>1, <1>6, <1>10
<1>12. committed = {p \in Page : alias[p] # NoAlias} /\ \A p \in committed : alias[p] < bump
  BY DEF CommitConsistent
<1>13. \A p \in new : alias'[p] >= bump /\ alias'[p] < bump' /\ alias'[p] # NoAlias
  BY <1>1, <1>3, <1>4, <1>6, <1>8 DEF NoAlias
<1>14. \A p \in committed : alias'[p] = alias[p] /\ alias[p] < bump /\ alias[p] \in Int
  BY <1>1, <1>9, <1>10, <1>12, WindowAssumption DEF NoAlias
<1>15. committed' = {p \in Page : alias'[p] # NoAlias}
  <2>1. \A p \in Page : p \in committed' <=> alias'[p] # NoAlias
    BY <1>6, <1>9, <1>12, <1>13
  <2>2. committed' \subseteq Page
    BY <1>1, <1>6
  <2> QED BY <2>1, <2>2
<1>16. \A p \in committed' : alias'[p] < bump'
  BY <1>1, <1>3, <1>6, <1>13, <1>14
<1>17. \A p, q \in committed' : alias'[p] = alias'[q] => p = q
  <2> SUFFICES ASSUME NEW p \in committed', NEW q \in committed', alias'[p] = alias'[q]
               PROVE  p = q
    OBVIOUS
  <2>1. CASE p \in new /\ q \in new
    BY <2>1, <1>1, <1>4, <1>5, <1>8
  <2>2. CASE p \in committed /\ q \in committed
    BY <2>2, <1>14 DEF CommitConsistent
  <2>3. CASE p \in new /\ q \in committed
    BY <2>3, <1>1, <1>4, <1>8, <1>14
  <2>4. CASE p \in committed /\ q \in new
    BY <2>4, <1>1, <1>4, <1>8, <1>14
  <2> QED BY <2>1, <2>2, <2>3, <2>4, <1>6
<1>18. PoolExact'
  <2>1. committed \cap new = {}
    OBVIOUS
  <2>2. Cardinality(committed \cap new) = 0
    BY <2>1, FS_EmptySet, Zenon
  <2>3. Cardinality(committed \cup new)
          = Cardinality(committed) + Cardinality(new) - Cardinality(committed \cap new)
    BY <1>2, FS_Union
  <2>4. Cardinality(committed \cup new) = Cardinality(committed) + Cardinality(new)
    BY <2>2, <2>3, <1>3
  <2>5. bump = Cardinality(committed)
    BY DEF PoolExact
  <2> QED BY <2>4, <2>5, <1>6 DEF PoolExact
<1> QED
  <2>1. committed' \subseteq Page
    BY <1>1, <1>6
  <2> QED BY <2>1, <1>6, <1>7, <1>9, <1>11, <1>15, <1>16, <1>17, <1>18

-----------------------------------------------------------------------------
(* The inductive invariant.                                                *)

LEMMA InitIInv == Init => IInv
<1> SUFFICES ASSUME Init PROVE IInv
  OBVIOUS
<1>1. TypeOK
  <2>1. Idle \in [pass : 0 .. 2, slot : Nat, need : Nat, id : Ids]
    BY EngineAssumption DEF Idle
  <2>2. /\ bump \in 0 .. PoolPages
        /\ alias \in [Page -> NoAlias .. (PoolPages - 1)]
        /\ base \in [Ids -> NoBase .. (Pages - 1)]
    BY WindowAssumption DEF Init, NoAlias, NoBase
  <2> QED BY <2>1, <2>2 DEF Init, TypeOK
<1>2. ScanSound /\ BaseSound /\ ReservationsDisjoint /\ CommitConsistent
  BY DEF Init, ScanSound, BaseSound, ReservationsDisjoint, CommitConsistent, LockFree, Idle,
         NoAlias, NoBase
<1>3. PoolExact
  BY FS_EmptySet DEF Init, PoolExact
<1> QED BY <1>1, <1>2, <1>3 DEF IInv

\* Taking the lock for a new reservation disturbs nothing.
LEMMA MmapIInv ==
  ASSUME IInv, NEW i \in Ids, NEW b \in Blocks, Mmap(i, b)
  PROVE  IInv'
<1>1. Need(b) \in Nat
  BY EngineAssumption DEF Need
<1>2. TypeOK'
  BY <1>1 DEF IInv, TypeOK, Mmap
<1>3. ScanSound' /\ BaseSound'
  BY DEF IInv, TypeOK, Mmap, ScanSound, BaseSound, LockFree, Need
<1>4. ReservationsDisjoint' /\ CommitConsistent' /\ PoolExact'
  BY DEF IInv, Mmap, ReservationsDisjoint, CommitConsistent, PoolExact
<1> QED BY <1>2, <1>3, <1>4 DEF IInv

\* One slot of the scan: passed over, routed around or granted.
LEMMA VisitIInv ==
  ASSUME IInv, ~ LockFree, NEW r \in SUBSET Page, scan.slot \in Page, Visit(r)
  PROVE  IInv'
<1> USE DEF IInv
<1>1. scan.id \in Ids /\ scan.slot + Step \in Nat /\ scan.slot \in 0 .. (Pages - 1)
  BY WindowAssumption DEF TypeOK, Page
<1>2. CASE Occupied(r) \/ RouteAround(r)
  <2>1. /\ used \subseteq used' /\ used' \subseteq Page
        /\ scan' = [scan EXCEPT !.slot = @ + Step]
        /\ UNCHANGED <<committed, bump, alias, foreign, base, block, owned>>
    BY <1>2 DEF Visit, Occupied, RouteAround, NextSlot, MappedSpans, TypeOK
  <2>2. TypeOK'
    BY <2>1, <1>1 DEF TypeOK
  <2>3. ScanSound' /\ BaseSound'
    BY <2>1 DEF TypeOK, ScanSound, BaseSound, LockFree
  <2>4. ReservationsDisjoint' /\ CommitConsistent' /\ PoolExact'
    BY <2>1 DEF ReservationsDisjoint, CommitConsistent, PoolExact
  <2> QED BY <2>2, <2>3, <2>4
<1>3. CASE Grant(r)
  <2>1. /\ r \cap used = {} /\ used' = used \cup r
        /\ base' = [base EXCEPT ![scan.id] = scan.slot]
        /\ owned' = [owned EXCEPT ![scan.id] = r]
        /\ scan' = Idle
        /\ UNCHANGED <<committed, bump, alias, foreign, block>>
    BY <1>3 DEF Visit, Grant
  <2>2. Idle \in [pass : 0 .. 2, slot : Nat, need : Nat, id : Ids] /\ Idle.pass = 0
    BY <1>1 DEF Idle
  <2>3. TypeOK'
    <3>1. base' \in [Ids -> NoBase .. (Pages - 1)] /\ owned' \in [Ids -> SUBSET Page]
      BY <2>1, <1>1 DEF TypeOK, NoBase
    <3> QED BY <2>1, <2>2, <3>1 DEF TypeOK
  <2>4. ScanSound' /\ BaseSound'
    BY <2>1, <2>2, <1>1 DEF TypeOK, ScanSound, BaseSound, LockFree, NoBase
  <2>5. ReservationsDisjoint'
    BY <2>1, <1>1 DEF TypeOK, ReservationsDisjoint
  <2>6. CommitConsistent' /\ PoolExact'
    BY <2>1 DEF CommitConsistent, PoolExact
  <2> QED BY <2>3, <2>4, <2>5, <2>6
<1> QED BY <1>2, <1>3 DEF Visit

\* The whole scan, from the first slot of pass 1 to the full window.
LEMMA ScanningIInv ==
  ASSUME IInv, Scanning
  PROVE  IInv'
<1> USE DEF IInv
<1>1. /\ scan \in [pass : 0 .. 2, slot : Nat, need : Nat, id : Ids]
      /\ Pages \in Nat \ {0} /\ Step \in Nat
  BY WindowAssumption DEF TypeOK
<1>2. CASE ProbeFull
  <2>1. scan.need \in Nat /\ scan.need >= 1
    <3>1. ~ LockFree
      BY <1>2 DEF ProbeFull, LockFree
    <3>2. block[scan.id] \in Nat \ {0} /\ EngineAlign \in Nat \ {0}
      BY <3>1, EngineAssumption DEF ScanSound
    <3> QED BY <3>1, <3>2 DEF ScanSound, Need
  <2>2. scan.slot \in Page
    BY <1>1, <1>2, <2>1 DEF ProbeFull, Page
  <2>3. scan.slot .. (scan.slot + scan.need - 1) \subseteq Page
    BY <1>1, <1>2, <2>1 DEF ProbeFull, Page
  <2>4. ~ LockFree /\ Visit(scan.slot .. (scan.slot + scan.need - 1))
    BY <1>2 DEF ProbeFull, LockFree
  <2> QED BY <2>2, <2>3, <2>4, VisitIInv
<1>3. CASE ProbeTail
  <2>1. scan.slot \in Page /\ scan.slot .. (Pages - 1) \subseteq Page
    BY <1>1, <1>3 DEF ProbeTail, Page
  <2>2. ~ LockFree /\ Visit(scan.slot .. (Pages - 1))
    BY <1>3 DEF ProbeTail, LockFree
  <2> QED BY <2>1, <2>2, VisitIInv
<1>4. CASE EndFull \/ SkipTail
  <2>1. /\ ~ LockFree /\ scan'.pass # 0
        /\ scan' \in [pass : 0 .. 2, slot : Nat, need : Nat, id : Ids]
        /\ scan'.need = scan.need /\ scan'.id = scan.id
        /\ UNCHANGED <<used, committed, bump, alias, foreign, base, block, owned>>
    <3>1. CASE EndFull
      <4>1. /\ scan.pass = 1 /\ scan' = [pass |-> 2, slot |-> 0, need |-> scan.need, id |-> scan.id]
            /\ UNCHANGED <<used, committed, bump, alias, foreign, base, block, owned>>
        BY <3>1 DEF EndFull
      <4>2. scan' \in [pass : 0 .. 2, slot : Nat, need : Nat, id : Ids]
        BY <1>1, <4>1
      <4> QED BY <1>1, <4>1, <4>2 DEF LockFree
    <3>2. CASE SkipTail
      <4>1. scan.pass = 2 /\ scan' = [scan EXCEPT !.slot = @ + Step]
        BY <3>2 DEF SkipTail, NextSlot
      <4>2. scan.slot + Step \in Nat
        BY <1>1
      <4> QED BY <1>1, <3>2, <4>1, <4>2 DEF SkipTail, LockFree
    <3> QED BY <1>4, <3>1, <3>2
  <2> QED BY <2>1 DEF TypeOK, ScanSound, BaseSound, LockFree, ReservationsDisjoint,
                      CommitConsistent, PoolExact
<1>5. CASE WindowFull
  <2>1. scan.id \in Ids
    BY <1>1
  <2>2. Idle \in [pass : 0 .. 2, slot : Nat, need : Nat, id : Ids] /\ Idle.pass = 0
    BY <2>1 DEF Idle
  <2> QED BY <1>5, <2>2 DEF WindowFull, TypeOK, ScanSound, BaseSound, LockFree,
                            ReservationsDisjoint, CommitConsistent, PoolExact
<1> QED BY <1>2, <1>3, <1>4, <1>5 DEF Scanning

\* A commit that backs some pages of a reservation, or stops half way.
LEMMA MprotectIInv ==
  ASSUME IInv, NEW i \in Ids, NEW f \in Page, NEW n \in Nat, Mprotect(i, f, n)
  PROVE  IInv'
<1> USE DEF IInv
<1>1. PICK stop \in f .. RangeEnd(f, n) : Back(Fresh(f, stop))
  BY DEF Mprotect
<1> DEFINE new == Fresh(f, stop)
<1>2. UNCHANGED <<used, foreign, scan, base, block, owned>>
  BY DEF Mprotect
<1>3. new \subseteq owned[i] /\ new \cap committed = {}
  <2>1. f .. (stop - 1) \subseteq f .. (RangeEnd(f, n) - 1)
    BY WindowAssumption DEF Page, RangeEnd
  <2>2. f .. (RangeEnd(f, n) - 1) \subseteq owned[i]
    BY DEF Mprotect, EngineRange
  <2> QED BY <2>1, <2>2 DEF Fresh
<1>4. new \subseteq used /\ new \cap foreign = {} /\ used \subseteq Page
  BY <1>1, <1>3 DEF ReservationsDisjoint, Back, TypeOK
<1> HIDE DEF new
<1>5. Back(new) /\ new \in SUBSET (Page \ committed)
  BY <1>1, <1>3, <1>4 DEF new
<1>6. /\ committed' = committed \cup new /\ committed' \subseteq Page
      /\ bump' \in 0 .. PoolPages
      /\ alias' \in [Page -> NoAlias .. (PoolPages - 1)]
      /\ committed' = {p \in Page : alias'[p] # NoAlias}
      /\ \A p \in committed' : alias'[p] < bump'
      /\ \A p, q \in committed' : alias'[p] = alias'[q] => p = q
      /\ PoolExact'
  BY <1>5, BackKeepsBooks
<1>7. TypeOK'
  BY <1>2, <1>6 DEF TypeOK
<1>8. ScanSound' /\ BaseSound' /\ ReservationsDisjoint'
  BY <1>2 DEF ScanSound, BaseSound, LockFree, ReservationsDisjoint
<1>9. committed' \subseteq used' /\ committed' \cap foreign' = {}
  BY <1>2, <1>4, <1>6 DEF CommitConsistent
<1>10. CommitConsistent'
  BY <1>6, <1>9 DEF CommitConsistent
<1> QED BY <1>6, <1>7, <1>8, <1>10

\* Taking a range back: what is committed stays reserved.
LEMMA MunmapIInv ==
  ASSUME IInv, NEW i \in Ids, NEW f \in Page, NEW n \in Nat, Munmap(i, f, n)
  PROVE  IInv'
<1> USE DEF IInv
<1> DEFINE gone == f .. (RangeEnd(f, n) - 1)
<1>1. /\ LockFree /\ gone \subseteq owned[i]
      /\ used' = used \ (gone \ committed)
      /\ owned' = [owned EXCEPT ![i] = @ \ gone]
      /\ base' = [base EXCEPT ![i] = IF owned'[i] = {} THEN NoBase ELSE @]
      /\ UNCHANGED <<committed, bump, alias, foreign, scan, block>>
  BY DEF Munmap, EngineRange
<1> HIDE DEF gone
<1>2. TypeOK'
  BY <1>1, WindowAssumption DEF TypeOK, NoBase
<1>3. ScanSound'
  BY <1>1 DEF ScanSound, LockFree
<1>4. BaseSound'
  BY <1>1 DEF BaseSound, TypeOK
<1>5. ReservationsDisjoint'
  BY <1>1 DEF ReservationsDisjoint, TypeOK
<1>6. CommitConsistent' /\ PoolExact'
  BY <1>1 DEF CommitConsistent, PoolExact
<1> QED BY <1>2, <1>3, <1>4, <1>5, <1>6

\* A thread stack that libnx maps or unmaps inside the window.
LEMMA StackIInv ==
  ASSUME IInv, NEW r \in SUBSET Page, StackMapped(r) \/ StackUnmapped(r)
  PROVE  IInv'
<1>1. /\ UNCHANGED <<used, committed, bump, alias, scan, base, block, owned>>
      /\ foreign' \subseteq Page /\ committed \cap foreign' = {}
  BY DEF IInv, TypeOK, CommitConsistent, StackMapped, StackUnmapped, Mapped
<1> QED BY <1>1 DEF IInv, TypeOK, ScanSound, BaseSound, LockFree, ReservationsDisjoint,
                    CommitConsistent, PoolExact

LEMMA NextIInv == IInv /\ [Next]_vars => IInv'
<1> SUFFICES ASSUME IInv, [Next]_vars PROVE IInv'
  OBVIOUS
<1>1. CASE UNCHANGED vars
  BY <1>1 DEF IInv, vars, TypeOK, ScanSound, BaseSound, LockFree, ReservationsDisjoint,
              CommitConsistent, PoolExact
<1>2. ASSUME NEW i \in Ids, NEW b \in Blocks, Mmap(i, b) PROVE IInv'
  BY <1>2, MmapIInv
<1>3. CASE Scanning
  BY <1>3, ScanningIInv
<1>4. ASSUME NEW i \in Ids, NEW f \in Page, NEW n \in 1 .. (Pages + EngineAlign),
             Mprotect(i, f, n) \/ Munmap(i, f, n)
      PROVE  IInv'
  <2>1. n \in Nat
    BY <1>4
  <2> QED BY <1>4, <2>1, MprotectIInv, MunmapIInv
<1>5. ASSUME NEW f \in Page, Stack(f) \subseteq Page,
             StackMapped(Stack(f)) \/ StackUnmapped(Stack(f))
      PROVE  IInv'
  BY <1>5, StackIInv
<1> QED BY <1>1, <1>2, <1>3, <1>4, <1>5 DEF Next

\* The arena's bitmaps, scan and reservations always have their types.
THEOREM ArenaTypeCorrect == Spec => []TypeOK
<1>1. IInv => TypeOK
  BY DEF IInv
<1> QED BY InitIInv, NextIInv, <1>1, PTL DEF Spec

\* mmap_fake never hands out a window page that the engine still owns.
THEOREM ArenaReservesOnce == Spec => []ReservationsDisjoint
<1>1. IInv => ReservationsDisjoint
  BY DEF IInv
<1> QED BY InitIInv, NextIInv, <1>1, PTL DEF Spec

\* oc_committed is the kernel's mapping, no pool page is mapped twice, and the
\* bump pointer counts exactly the backed pages: nothing leaks.
THEOREM ArenaBackingExact == Spec => []BackingExact
<1>1. IInv => BackingExact
  BY DEF IInv, BackingExact
<1> QED BY InitIInv, NextIInv, <1>1, PTL DEF Spec

-----------------------------------------------------------------------------
(* The aligned block that the engine keeps, when MMAP_ARENA_ALIGN is the   *)
(* engine's region granularity as config.h demands.                        *)

\* Arithmetic of multiples of m, which the prover needs one fact at a time.
LEMMA MultipleOf ==
  ASSUME NEW x \in Nat, NEW m \in Nat \ {0}, x % m = 0
  PROVE  x \div m \in Nat /\ x = (x \div m) * m
OBVIOUS

LEMMA ProductIsMultiple ==
  ASSUME NEW k \in Nat, NEW m \in Nat \ {0}
  PROVE  (k * m) % m = 0
OBVIOUS

LEMMA DivOfProduct ==
  ASSUME NEW k \in Nat, NEW m \in Nat \ {0}, NEW r \in 0 .. (m - 1)
  PROVE  (k * m + r) \div m = k
OBVIOUS

LEMMA ProductOrder ==
  ASSUME NEW j \in Int, NEW k \in Int, NEW m \in Nat \ {0}, j * m >= k * m - m + 1
  PROVE  j >= k
OBVIOUS

LEMMA NextMultiple ==
  ASSUME NEW x \in Nat, NEW m \in Nat \ {0}, x % m = 0
  PROVE  (x + m) % m = 0
<1>1. PICK k \in Nat : x = k * m
  BY MultipleOf
<1>2. x + m = (k + 1) * m /\ k + 1 \in Nat
  BY <1>1
<1> QED BY <1>2, ProductIsMultiple

LEMMA AlignedStays ==
  ASSUME NEW x \in Nat, NEW m \in Nat \ {0}, x % m = 0
  PROVE  AlignUp(x, m) = x
<1>1. PICK k \in Nat : x = k * m
  BY MultipleOf
<1>2. m - 1 \in 0 .. (m - 1)
  OBVIOUS
<1>3. (k * m + (m - 1)) \div m = k
  BY <1>2, DivOfProduct
<1>4. x + m - 1 = k * m + (m - 1)
  BY <1>1
<1> QED BY <1>1, <1>3, <1>4 DEF AlignUp

\* A tail one page short of the block cannot occur: window, slot and block
\* are whole slots.  This is why "avail < kept" may be off by one.
LEMMA TailHoldsBlock ==
  ASSUME NEW s \in Nat, NEW b \in Blocks, s <= Pages, s % Step = 0,
         Pages - s >= b - 1
  PROVE  s + b <= Pages
<1>1. Pages \in Nat /\ Step \in Nat \ {0} /\ Step >= 2 /\ b \in Nat /\ b % Step = 0
  BY WindowAssumption, EngineAssumption
<1>2. PICK p \in Nat : Pages = p * Step
  BY <1>1, WindowAssumption, MultipleOf
<1>3. PICK k \in Nat : s = k * Step
  BY <1>1, MultipleOf
<1>4. PICK c \in Nat : b = c * Step
  BY <1>1, MultipleOf
<1>5. (p - k) * Step = Pages - s
  BY <1>1, <1>2, <1>3
<1>6. (p - k) * Step >= c * Step - Step + 1
  BY <1>1, <1>4, <1>5
<1>7. p - k >= c
  BY <1>1, <1>6, ProductOrder
<1>8. (p - k) * Step >= c * Step
  BY <1>1, <1>7
<1> QED BY <1>1, <1>4, <1>5, <1>8

\* Slots and granted bases are aligned, and a granted block ends in the window.
AlignInv ==
  /\ ~ LockFree => scan.slot % Step = 0
  /\ \A i \in Ids : base[i] # NoBase => base[i] % Step = 0 /\ base[i] + block[i] <= Pages

LEMMA ZeroAligned == 0 % Step = 0
<1>1. Step \in Nat \ {0} /\ 0 * Step = 0
  BY WindowAssumption
<1> QED BY <1>1, ProductIsMultiple

\* One slot of the scan keeps the alignment, given that the block fits there.
LEMMA VisitAlignInv ==
  ASSUME EngineAlign = Step, IInv, AlignInv, ~ LockFree, NEW r, Visit(r),
         scan.slot + block[scan.id] <= Pages
  PROVE  AlignInv'
<1>1. /\ scan.slot \in Nat /\ scan.id \in Ids /\ scan.slot % Step = 0
      /\ Step \in Nat \ {0}
  BY WindowAssumption DEF IInv, TypeOK, AlignInv
<1>2. CASE Occupied(r) \/ RouteAround(r)
  <2>1. scan' = [scan EXCEPT !.slot = @ + Step] /\ UNCHANGED <<base, block>>
    BY <1>2 DEF Visit, Occupied, RouteAround, NextSlot
  <2>2. scan'.slot = scan.slot + Step
    BY <2>1 DEF IInv, TypeOK
  <2> QED BY <1>1, <2>1, <2>2, NextMultiple DEF AlignInv
<1>3. CASE Grant(r)
  <2>1. base' = [base EXCEPT ![scan.id] = scan.slot] /\ LockFree' /\ UNCHANGED block
    BY <1>3 DEF Visit, Grant, LockFree, Idle
  <2> QED BY <1>1, <2>1 DEF AlignInv, IInv, TypeOK
<1> QED BY <1>2, <1>3 DEF Visit

LEMMA NextAlignInv ==
  ASSUME EngineAlign = Step, IInv, AlignInv, [Next]_vars
  PROVE  AlignInv'
<1>1. /\ scan \in [pass : 0 .. 2, slot : Nat, need : Nat, id : Ids]
      /\ Pages \in Nat /\ Step \in Nat \ {0} /\ Step > 1
  BY WindowAssumption DEF IInv, TypeOK
<1>2. ASSUME ~ LockFree
      PROVE  /\ block[scan.id] \in Blocks /\ block[scan.id] \in Nat /\ block[scan.id] > 1
             /\ scan.need = block[scan.id] + Step - 1 /\ scan.slot % Step = 0
  <2>1. block[scan.id] \in Blocks /\ scan.need = block[scan.id] + Step - 1 /\ scan.slot % Step = 0
    BY <1>2 DEF IInv, ScanSound, AlignInv, Need
  <2>2. block[scan.id] \in Nat \ {0} /\ block[scan.id] % Step = 0
    BY <2>1, EngineAssumption
  <2>3. 1 % Step = 1
    BY <1>1
  <2> QED BY <2>1, <2>2, <2>3
<1>3. ASSUME NEW i \in Ids, NEW b \in Blocks, Mmap(i, b) PROVE AlignInv'
  <2>1. scan'.slot = 0 /\ base' = base /\ block' = [block EXCEPT ![i] = b] /\ base[i] = NoBase
    BY <1>3 DEF Mmap
  <2> QED BY <2>1, ZeroAligned DEF AlignInv, IInv, TypeOK
<1>4. CASE ProbeFull
  <2>1. ~ LockFree /\ scan.slot + scan.need <= Pages
    BY <1>4 DEF ProbeFull, LockFree
  <2>2. scan.slot + block[scan.id] <= Pages
    BY <1>1, <1>2, <2>1
  <2> QED BY <1>4, <2>1, <2>2, VisitAlignInv DEF ProbeFull
<1>5. CASE ProbeTail
  <2>1. ~ LockFree /\ scan.slot < Pages /\ Pages - scan.slot >= Kept(scan.need)
    BY <1>1, <1>2, <1>5 DEF ProbeTail, LockFree, TailSkipped, Kept
  <2>2. Kept(scan.need) = block[scan.id] - 1
    BY <1>1, <1>2, <2>1 DEF Kept
  <2>3. scan.slot + block[scan.id] <= Pages
    BY <1>1, <1>2, <2>1, <2>2, TailHoldsBlock
  <2> QED BY <1>5, <2>1, <2>3, VisitAlignInv DEF ProbeTail
<1>6. CASE EndFull \/ WindowFull
  <2>1. (scan'.slot = 0 \/ LockFree') /\ UNCHANGED <<base, block>>
    BY <1>6 DEF EndFull, WindowFull, LockFree, Idle
  <2> QED BY <2>1, ZeroAligned DEF AlignInv
<1>7. CASE SkipTail
  <2>1. ~ LockFree /\ scan' = [scan EXCEPT !.slot = @ + Step] /\ UNCHANGED <<base, block>>
    BY <1>7 DEF SkipTail, NextSlot, LockFree
  <2>2. scan'.slot = scan.slot + Step /\ scan.slot \in Nat
    BY <1>1, <2>1
  <2> QED BY <1>1, <1>2, <2>1, <2>2, NextMultiple DEF AlignInv
<1>8. ASSUME NEW i \in Ids, NEW f, NEW n, Mprotect(i, f, n) \/ Munmap(i, f, n) PROVE AlignInv'
  <2>1. /\ scan' = scan /\ block' = block
        /\ \A j \in Ids : base'[j] = base[j] \/ base'[j] = NoBase
    BY <1>8 DEF Mprotect, Munmap, IInv, TypeOK
  <2> QED BY <2>1 DEF AlignInv, LockFree
<1>9. ASSUME NEW r, StackMapped(r) \/ StackUnmapped(r) PROVE AlignInv'
  BY <1>9 DEF StackMapped, StackUnmapped, AlignInv, LockFree
<1>10. CASE UNCHANGED vars
  BY <1>10 DEF vars, AlignInv, LockFree
<1> QED BY <1>3, <1>4, <1>5, <1>6, <1>7, <1>8, <1>9, <1>10 DEF Next, Scanning

\* The block the engine keeps of an over-map lies in the window, although the
\* shim may have reserved one page less than the block (the tail of pass 2).
THEOREM ArenaKeptBlockInside ==
  ASSUME EngineAlign = Step
  PROVE  Spec => []KeptBlockInside
<1>1. Init => AlignInv
  BY DEF Init, AlignInv, LockFree, Idle, NoBase
<1>2. IInv /\ AlignInv /\ [Next]_vars => AlignInv'
  BY NextAlignInv
<1>3. IInv /\ AlignInv => KeptBlockInside
  <2> SUFFICES ASSUME IInv, AlignInv, NEW i \in Ids, base[i] # NoBase
               PROVE  AlignUp(base[i], EngineAlign) + block[i] <= Pages
    BY DEF KeptBlockInside
  <2>1. base[i] \in Nat /\ Step \in Nat \ {0}
    BY WindowAssumption DEF IInv, TypeOK, NoBase
  <2>2. AlignUp(base[i], Step) = base[i]
    BY <2>1, AlignedStays DEF AlignInv
  <2> QED BY <2>2 DEF AlignInv
<1> QED BY InitIInv, NextIInv, <1>1, <1>2, <1>3, PTL DEF Spec

-----------------------------------------------------------------------------
(* The window is a page allocator.                                         *)

LEMMA BackedIsCommitted == IInv => Allocator!Backed = committed
BY DEF IInv, CommitConsistent, Allocator!Backed, Allocator!Unbacked, NoAlias

\* A granted range is nobody's and has nothing behind it.
LEMMA VisitReserves ==
  ASSUME IInv, ~ LockFree, NEW r \in SUBSET Page, Visit(r)
  PROVE  Allocator!Reserve(scan.id) \/ UNCHANGED <<owned, alias>>
<1>1. CASE Occupied(r) \/ RouteAround(r)
  BY <1>1 DEF Visit, Occupied, RouteAround
<1>2. CASE Grant(r)
  <2>1. /\ r \cap used = {} /\ r \cap committed = {} /\ owned[scan.id] = {}
        /\ owned' = [owned EXCEPT ![scan.id] = r] /\ UNCHANGED alias
    BY <1>2 DEF Visit, Grant, Mapped, IInv, ScanSound
  <2>2. \A j \in Ids : r \cap owned[j] = {}
    BY <2>1 DEF IInv, ReservationsDisjoint
  <2>3. r \cap Allocator!Backed = {}
    BY <2>1, BackedIsCommitted
  <2> QED BY <2>1, <2>2, <2>3 DEF Allocator!Reserve
<1> QED BY <1>1, <1>2 DEF Visit

\* A commit, whole or stopped half way, backs pages that were unbacked.
LEMMA MprotectCommits ==
  ASSUME IInv, IInv', NEW i \in Ids, NEW f \in Page, NEW n \in Nat, Mprotect(i, f, n)
  PROVE  Allocator!Commit(i)
<1>1. PICK stop \in f .. RangeEnd(f, n) : Back(Fresh(f, stop))
  BY DEF Mprotect
<1> DEFINE new == Fresh(f, stop)
<1>2. new \subseteq owned[i] /\ new \cap committed = {}
  <2>1. f .. (stop - 1) \subseteq f .. (RangeEnd(f, n) - 1)
    BY WindowAssumption DEF Page, RangeEnd
  <2>2. f .. (RangeEnd(f, n) - 1) \subseteq owned[i]
    BY DEF Mprotect, EngineRange
  <2> QED BY <2>1, <2>2 DEF Fresh
<1>3. new \in SUBSET (Page \ committed)
  BY <1>2 DEF IInv, TypeOK
<1> HIDE DEF new
<1>4. \A p \in Page : p \notin new => alias'[p] = alias[p]
  BY <1>1, <1>3, BackKeepsBooks DEF IInv, new
<1>5. \A p \in Page : alias'[p] # alias[p] => p \in owned[i] \ Allocator!Backed
  BY <1>2, <1>4, BackedIsCommitted
<1>6. \A p, q \in Page : alias'[p] = alias'[q] => p = q \/ alias'[p] = NoAlias
  BY DEF IInv, CommitConsistent
<1>7. alias' \in [Page -> Int]
  BY WindowAssumption DEF IInv, TypeOK, NoAlias
<1>8. UNCHANGED owned
  BY DEF Mprotect
<1> QED BY <1>5, <1>6, <1>7, <1>8 DEF Allocator!Commit, Allocator!Unbacked, NoAlias

\* Every window page is served as the abstract allocator would serve it.
THEOREM ArenaIsAllocator == Spec => ImplementsAllocator
<1>1. Init => Allocator!Init
  BY DEF Init, Allocator!Init, Allocator!Unbacked, NoAlias
<1>2. ASSUME IInv, IInv', [Next]_vars PROVE [Allocator!Next]_<<owned, alias>>
  <2>1. ASSUME NEW i \in Ids, NEW b \in Blocks, Mmap(i, b) PROVE UNCHANGED <<owned, alias>>
    BY <2>1 DEF Mmap
  <2>2. CASE ProbeFull
    <3>1. ~ LockFree /\ scan.id \in Ids /\ Visit(scan.slot .. (scan.slot + scan.need - 1))
      BY <1>2, <2>2 DEF ProbeFull, LockFree, IInv, TypeOK
    <3>2. scan.slot .. (scan.slot + scan.need - 1) \in SUBSET Page
      <4>1. scan \in [pass : 0 .. 2, slot : Nat, need : Nat, id : Ids] /\ Pages \in Nat
        BY <1>2, WindowAssumption DEF IInv, TypeOK
      <4>2. scan.slot + scan.need <= Pages
        BY <2>2 DEF ProbeFull
      <4> QED BY <4>1, <4>2 DEF Page
    <3> QED BY <1>2, <3>1, <3>2, VisitReserves DEF Allocator!Next
  <2>3. CASE ProbeTail
    <3>1. ~ LockFree /\ scan.id \in Ids /\ Visit(scan.slot .. (Pages - 1))
      BY <1>2, <2>3 DEF ProbeTail, LockFree, IInv, TypeOK
    <3>2. scan.slot .. (Pages - 1) \in SUBSET Page
      BY <1>2, WindowAssumption DEF Page, IInv, TypeOK
    <3> QED BY <1>2, <3>1, <3>2, VisitReserves DEF Allocator!Next
  <2>4. CASE EndFull \/ SkipTail \/ WindowFull
    BY <2>4 DEF EndFull, SkipTail, WindowFull
  <2>5. ASSUME NEW i \in Ids, NEW f \in Page, NEW n \in 1 .. (Pages + EngineAlign),
               Mprotect(i, f, n)
        PROVE  Allocator!Next
    <3>1. n \in Nat
      BY <2>5
    <3> QED BY <1>2, <2>5, <3>1, MprotectCommits DEF Allocator!Next
  <2>6. ASSUME NEW i \in Ids, NEW f \in Page, NEW n \in 1 .. (Pages + EngineAlign),
               Munmap(i, f, n)
        PROVE  Allocator!Next
    <3>1. /\ f .. (RangeEnd(f, n) - 1) \subseteq owned[i] /\ UNCHANGED alias
          /\ owned' = [owned EXCEPT ![i] = @ \ (f .. (RangeEnd(f, n) - 1))]
      BY <2>6 DEF Munmap, EngineRange
    <3> QED BY <3>1 DEF Allocator!Next, Allocator!Release
  <2>7. ASSUME NEW r, StackMapped(r) \/ StackUnmapped(r) PROVE UNCHANGED <<owned, alias>>
    BY <2>7 DEF StackMapped, StackUnmapped
  <2>8. CASE UNCHANGED vars
    BY <2>8 DEF vars
  <2> QED BY <1>2, <2>1, <2>2, <2>3, <2>4, <2>5, <2>6, <2>7, <2>8 DEF Next, Scanning
<1> QED BY InitIInv, NextIInv, <1>1, <1>2, PTL DEF Spec, ImplementsAllocator, Allocator!Spec

-----------------------------------------------------------------------------
(* The render loop and the clock thread (RenderLoop).                      *)

LoopPlaces == {"loop", "render", "captured", "vsync", "clock", "enter", "read", "apply",
               "after", "sleep", "unload"}
ClkPlaces == {"check", "vsync", "ended", "look", "last", "now", "try", "read", "apply"}
LoopStates ==
  /\ mainAt \in [at : LoopPlaces, seen : 0 .. Cap]
  /\ clk \in [at : ClkPlaces, seen : 0 .. Cap]
  /\ lock \in {None, "main", "clk"} /\ tm \in BOOLEAN
  /\ lastTick \in 0 .. (Stall + 1) /\ game \in 0 .. Cap /\ vs \in 0 .. (2 * Period - 1)
  /\ news \in SUBSET {"vsync", "clock"} /\ due \in (-Period) .. Period /\ quit \in BOOLEAN
  /\ burst \in 0 .. Cap

\* Who reads the time under g_clock_lock has it until the engine is told.
LockSound ==
  /\ mainAt.at \in {"read", "apply"} <=> lock = "main"
  /\ clk.at \in {"read", "apply"} <=> lock = "clk"

\* What was presented too early is still to be waited for.
PaceSound == burst <= Period + due /\ (mainAt.at # "sleep" => due <= 0)

LoopInv == LoopStates /\ LockSound /\ Rendering!Forward /\ PaceSound

\* What the sizes of the loop are.
LEMMA LoopSizes ==
  /\ Period \in Nat \ {0} /\ Stall \in Nat /\ Cap \in Nat
  /\ Cap > Stall /\ Cap > 2 * Period /\ None \notin {"main", "clk"}
BY RenderingAssumption DEF Rendering!RenderAssumption

\* Less than two frame periods are one whole period or none.
LEMMA WholePeriods ==
  ASSUME vs \in 0 .. (2 * Period - 1)
  PROVE  vs - Rendering!Bumps * Period \in 0 .. (2 * Period - 1)
<1>1. PICK p \in Nat \ {0} : p = Period
  BY LoopSizes
<1>2. PICK d : d = vs \div p
  OBVIOUS
<1>3. d \in Int /\ vs = p * d + (vs % p) /\ vs % p \in 0 .. (p - 1)
  BY <1>1, <1>2
<1>4. d * p = p * d
  BY <1>1, <1>3
<1>5. vs - d * p = vs % p
  BY ONLY <1>1, <1>3, <1>4, vs \in 0 .. (2 * Period - 1), p = Period, p \in Nat \ {0}
<1> QED BY <1>1, <1>2, <1>3, <1>5 DEF Rendering!Bumps

\* The loop as it begins.
LEMMA LoopInit == Rendering!Init => LoopInv
<1> SUFFICES ASSUME Rendering!Init PROVE LoopInv
  OBVIOUS
<1>1. /\ mainAt = [at |-> "loop", seen |-> 0] /\ clk = [at |-> "check", seen |-> 0]
      /\ lock = None /\ tm = FALSE /\ lastTick = Stall + 1 /\ game = Cap /\ vs = 0 /\ news = {}
      /\ due = 0 /\ quit = FALSE /\ burst = 0
  BY DEF Rendering!Init, Rendering!At
<1>2. LoopStates
  <2>1. mainAt \in [at : LoopPlaces, seen : 0 .. Cap] /\ clk \in [at : ClkPlaces, seen : 0 .. Cap]
    BY <1>1, LoopSizes DEF LoopPlaces, ClkPlaces
  <2>2. /\ lastTick \in 0 .. (Stall + 1) /\ game \in 0 .. Cap /\ vs \in 0 .. (2 * Period - 1)
        /\ due \in (-Period) .. Period /\ burst \in 0 .. Cap
    BY <1>1, LoopSizes
  <2> QED BY <1>1, <2>1, <2>2 DEF LoopStates
<1>3. LockSound /\ Rendering!Forward /\ PaceSound
  BY <1>1, LoopSizes DEF LockSound, Rendering!Forward, PaceSound
<1> QED BY <1>2, <1>3 DEF LoopInv

\* A time that gets older stays within the ages.
LEMMA Ages ==
  /\ \A a \in 0 .. Cap : Rendering!Older(a) \in 0 .. Cap
  /\ \A a, b \in 0 .. Cap : a <= b => Rendering!Older(a) <= Rendering!Older(b)
  /\ \A a \in 0 .. (Stall + 1) : Rendering!OlderTick(a) \in 0 .. (Stall + 1)
  /\ \A a \in 0 .. (2 * Period - 1) : Rendering!OlderVsync(a) \in 0 .. (2 * Period - 1)
<1>1. \A a \in 0 .. Cap : Rendering!Older(a) \in 0 .. Cap
  BY LoopSizes DEF Rendering!Older, Rendering!Least
<1>2. \A a, b \in 0 .. Cap : a <= b => Rendering!Older(a) <= Rendering!Older(b)
  BY LoopSizes DEF Rendering!Older, Rendering!Least
<1>3. \A a \in 0 .. (Stall + 1) : Rendering!OlderTick(a) \in 0 .. (Stall + 1)
  BY LoopSizes DEF Rendering!OlderTick, Rendering!Least
<1>4. \A a \in 0 .. (2 * Period - 1) : Rendering!OlderVsync(a) \in 0 .. (2 * Period - 1)
  BY LoopSizes DEF Rendering!OlderVsync
<1> QED BY <1>1, <1>2, <1>3, <1>4

\* Time goes on.
LEMMA ElapseStep == LoopInv /\ Rendering!Elapse => LoopInv'
<1> SUFFICES ASSUME LoopInv, Rendering!Elapse PROVE LoopInv'
  OBVIOUS
<1>1. /\ mainAt' = Rendering!Holding(mainAt) /\ clk' = Rendering!Holding(clk)
      /\ lastTick' = Rendering!OlderTick(lastTick) /\ game' = Rendering!Older(game)
      /\ vs' = Rendering!OlderVsync(vs) /\ due' = Rendering!Greatest(due - 1, -Period)
      /\ burst' = Rendering!Greatest(burst - 1, 0) /\ UNCHANGED <<lock, tm, news, quit>>
  BY DEF Rendering!Elapse
<1>2. LoopStates /\ LockSound /\ Rendering!Forward /\ PaceSound
  BY DEF LoopInv
<1>3. /\ mainAt' \in [at : LoopPlaces, seen : 0 .. Cap] /\ mainAt'.at = mainAt.at
      /\ mainAt.at = "apply" => mainAt'.seen = Rendering!Older(mainAt.seen)
  BY <1>1, <1>2, Ages DEF Rendering!Holding, Rendering!At, LoopStates
<1>4. /\ clk' \in [at : ClkPlaces, seen : 0 .. Cap] /\ clk'.at = clk.at
      /\ clk.at = "apply" => clk'.seen = Rendering!Older(clk.seen)
  BY <1>1, <1>2, Ages DEF Rendering!Holding, Rendering!At, LoopStates
<1>5. Rendering!Forward'
  BY <1>1, <1>2, <1>3, <1>4, Ages DEF Rendering!Forward, LoopStates
<1>6. due' \in (-Period) .. Period /\ burst' \in 0 .. Cap
  BY <1>1, <1>2, LoopSizes DEF LoopStates, Rendering!Greatest
<1>7. PaceSound'
  BY <1>1, <1>2, <1>3, LoopSizes DEF LoopStates, PaceSound, Rendering!Greatest
<1>8. LoopStates'
  BY <1>1, <1>2, <1>3, <1>4, <1>6, Ages DEF LoopStates
<1> QED BY <1>1, <1>2, <1>3, <1>4, <1>5, <1>7, <1>8 DEF LoopInv, LockSound

\* A step of the main thread that neither the clock nor the pace depends on.
LEMMA MainMoves ==
  ASSUME LoopInv, NEW from \in LoopPlaces \ {"read", "apply"},
         NEW to \in LoopPlaces \ {"read", "apply"},
         Rendering!Goes(from, to), from = "sleep" => due <= 0,
         UNCHANGED <<clk, lock, lastTick, game, vs, due, burst>>,
         tm' \in BOOLEAN, quit' \in BOOLEAN, news' \in SUBSET {"vsync", "clock"}
  PROVE  LoopInv'
<1>1. mainAt.at = from /\ mainAt' = [at |-> to, seen |-> 0] /\ 0 \in 0 .. Cap
  BY LoopSizes DEF Rendering!Goes, Rendering!At
<1>2. LoopStates'
  BY <1>1 DEF LoopInv, LoopStates
<1>3. LockSound' /\ Rendering!Forward'
  BY <1>1 DEF LoopInv, LockSound, Rendering!Forward
<1>4. PaceSound'
  BY <1>1 DEF LoopInv, PaceSound
<1> QED BY <1>2, <1>3, <1>4 DEF LoopInv

\* The frame begins, the engine acts in it and returns.
LEMMA FrameStep ==
  LoopInv /\ (Rendering!NextFrame \/ Rendering!EngineActs \/ Rendering!WaitOver
                \/ Rendering!RenderReturns \/ Rendering!SleepEnds) => LoopInv'
<1> SUFFICES ASSUME LoopInv, Rendering!NextFrame \/ Rendering!EngineActs \/ Rendering!WaitOver
                               \/ Rendering!RenderReturns \/ Rendering!SleepEnds
             PROVE  LoopInv'
  OBVIOUS
<1>1. /\ tm \in BOOLEAN /\ quit \in BOOLEAN /\ news \in SUBSET {"vsync", "clock"}
      /\ {} \in SUBSET {"vsync", "clock"}
  BY DEF LoopInv, LoopStates
<1>2. CASE Rendering!NextFrame
  BY <1>1, <1>2, MainMoves DEF Rendering!NextFrame, LoopPlaces
<1>3. CASE Rendering!EngineActs
  BY <1>1, <1>3, MainMoves DEF Rendering!EngineActs, LoopPlaces
<1>4. CASE Rendering!WaitOver
  <2>1. mainAt.at \in {"vsync", "clock"} /\ Rendering!Goes(mainAt.at, "render")
    BY <1>1, <1>4 DEF Rendering!WaitOver
  <2> QED BY <1>1, <1>4, <2>1, MainMoves DEF Rendering!WaitOver, LoopPlaces
<1>5. CASE Rendering!RenderReturns
  BY <1>1, <1>5, MainMoves DEF Rendering!RenderReturns, LoopPlaces
<1>6. CASE Rendering!SleepEnds
  BY <1>1, <1>6, MainMoves DEF Rendering!SleepEnds, LoopPlaces
<1> QED BY <1>2, <1>3, <1>4, <1>5, <1>6

\* What a frame adds to both sides.
LEMMA Sums ==
  ASSUME NEW b \in Int, NEW c \in Int, NEW d \in Int, NEW e \in Int, NEW p \in Int,
         b <= p + d, c <= b + p, d + p <= e
  PROVE  c <= p + e
OBVIOUS

\* The hook in TimeManager::Update, and the frame limiter.
LEMMA HookStep ==
  LoopInv /\ (Rendering!HookStamp \/ Rendering!HookLock \/ Rendering!HookRead \/ Rendering!HookTick
                \/ Rendering!Limit) => LoopInv'
<1> SUFFICES ASSUME LoopInv, Rendering!HookStamp \/ Rendering!HookLock \/ Rendering!HookRead
                               \/ Rendering!HookTick \/ Rendering!Limit
             PROVE  LoopInv'
  OBVIOUS
<1> USE LoopSizes DEF LoopInv, LoopStates, LoopPlaces, ClkPlaces, Rendering!Goes, Rendering!At
<1>1. CASE Rendering!HookStamp
  BY <1>1 DEF Rendering!HookStamp, Rendering!Overtaken, LockSound, Rendering!Forward, PaceSound
<1>2. CASE Rendering!HookLock
  BY <1>2 DEF Rendering!HookLock, LockSound, Rendering!Forward, PaceSound
<1>3. CASE Rendering!HookRead
  BY <1>3 DEF Rendering!HookRead, LockSound, Rendering!Forward, PaceSound
<1>4. CASE Rendering!HookTick
  BY <1>4 DEF Rendering!HookTick, LockSound, Rendering!Forward, PaceSound
<1>5. CASE Rendering!Limit
  <2>1. mainAt.at = "after" /\ due \in (-Period) .. 0 /\ burst <= Period + due
    BY <1>5 DEF Rendering!Limit, PaceSound
  <2>2. /\ burst' \in 0 .. Cap /\ burst' <= burst + Period
    BY <1>5, <2>1 DEF Rendering!Limit, Rendering!Least
  <2>3. /\ due' \in (-Period) .. Period /\ due' >= due + Period
        /\ mainAt' \in {[at |-> "sleep", seen |-> 0], [at |-> "loop", seen |-> 0]}
        /\ mainAt'.at = "loop" => due' <= 0
    BY <1>5, <2>1 DEF Rendering!Limit
  <2>4. UNCHANGED <<clk, lock, tm, lastTick, game, vs, news, quit>>
    BY <1>5 DEF Rendering!Limit
  <2>5. burst' <= Period + due'
    <3>1. /\ burst \in Int /\ burst' \in Int /\ due \in Int /\ due' \in Int /\ Period \in Int
      BY <2>1, <2>2, <2>3
    <3>2. burst <= Period + due /\ burst' <= burst + Period /\ due + Period <= due'
      BY <2>1, <2>2, <2>3
    <3> HIDE DEF LoopInv
    <3> QED BY <3>1, <3>2, Sums
  <2>6. PaceSound'
    BY <2>3, <2>5 DEF PaceSound
  <2> QED BY <2>1, <2>2, <2>3, <2>4, <2>6 DEF LockSound, Rendering!Forward
<1> QED BY <1>1, <1>2, <1>3, <1>4, <1>5

\* The clock thread.
LEMMA ClkStepSound == LoopInv /\ Rendering!ClkStep => LoopInv'
<1> SUFFICES ASSUME LoopInv, Rendering!ClkStep PROVE LoopInv'
  OBVIOUS
<1> USE LoopSizes DEF LoopInv, LoopStates, LoopPlaces, ClkPlaces, Rendering!ClkGoes, Rendering!At,
          Rendering!mainVars
<1>1. CASE Rendering!ClkLoop
  BY <1>1 DEF Rendering!ClkLoop, LockSound, Rendering!Forward, PaceSound
<1>2. CASE Rendering!ClkVsync
  <2>1. vs' \in 0 .. (2 * Period - 1)
    BY <1>2, WholePeriods DEF Rendering!ClkVsync
  <2>2. clk' \in {[at |-> "look", seen |-> 0], [at |-> "check", seen |-> 0]} /\ clk.at = "vsync"
    BY <1>2 DEF Rendering!ClkVsync
  <2>3. news' \in SUBSET {"vsync", "clock"} /\ UNCHANGED <<lock, game, quit, mainAt, tm, lastTick,
                                                           due, burst>>
    BY <1>2 DEF Rendering!ClkVsync
  <2> QED BY <2>1, <2>2, <2>3 DEF LockSound, Rendering!Forward, PaceSound
<1>3. CASE Rendering!ClkReadOne
  BY <1>3 DEF Rendering!ClkReadOne, LockSound, Rendering!Forward, PaceSound
<1>4. CASE Rendering!ClkReadTwo
  BY <1>4 DEF Rendering!ClkReadTwo, LockSound, Rendering!Forward, PaceSound
<1>5. CASE Rendering!ClkTry
  BY <1>5 DEF Rendering!ClkTry, Rendering!LockFree, LockSound, Rendering!Forward, PaceSound
<1>6. CASE Rendering!ClkRead
  BY <1>6 DEF Rendering!ClkRead, LockSound, Rendering!Forward, PaceSound
<1>7. CASE Rendering!ClkTick
  BY <1>7 DEF Rendering!ClkTick, LockSound, Rendering!Forward, PaceSound
<1> QED BY <1>1, <1>2, <1>3, <1>4, <1>5, <1>6, <1>7 DEF Rendering!ClkStep

\* Every step of the loop and of the clock thread keeps the invariant.
LEMMA LoopStep == LoopInv /\ [Rendering!Next]_renderingVars => LoopInv'
<1>1. LoopInv /\ UNCHANGED renderingVars => LoopInv'
  BY DEF renderingVars, LoopInv, LoopStates, LockSound, Rendering!Forward, PaceSound
<1> QED BY <1>1, ElapseStep, FrameStep, HookStep, ClkStepSound
        DEF Rendering!Next, Rendering!MainStep

\* What the run checks of them follows.
LEMMA LoopFollows == LoopInv => Rendering!TypeOK /\ Rendering!ClockSound
BY LoopSizes DEF LoopInv, LoopStates, PaceSound, Rendering!TypeOK, Rendering!ClockSound,
                 Rendering!Paced

-----------------------------------------------------------------------------
(* The window and its surfaces (Surface).                                  *)

\* There is one surface at most, which is kept and handed out again.
SurfacesSound ==
  /\ kept \in 0 .. MaxSurfaces /\ held \in {Showing!NoSurface, kept}
  /\ alive = IF kept = Showing!NoSurface THEN {} ELSE {kept}
  /\ frames \in 0 .. ShownFrames /\ size = screen

\* A window with a surface has been cut, to the size set last; and once Mesa has
\* settled the crop stays.
WindowCut ==
  /\ geom = window.dims \/ (window.dims = Showing!NoSize /\ kept = Showing!NoSurface)
  /\ window = [dims |-> window.dims, crop |-> window.crop]
  /\ frames > Settles => window.crop = window.dims
  /\ frames > 0 => seen.crop = seen.dims

CursorSound ==
  /\ gl.on = before.on
  /\ \A b \in Showing!Saved : gl.bound[b] = before.bound[b]

ShowInv == SurfacesSound /\ WindowCut /\ CursorSound

\* What the sizes of the window are.
LEMMA ShowSizes ==
  /\ Settles \in Nat /\ Reasserts \in Nat /\ Settles < Reasserts /\ ShownFrames \in Nat
  /\ MaxSurfaces \in Nat \ {0}
BY ShowingAssumption DEF Showing!SurfaceAssumption

\* The window as it begins.
LEMMA ShowInit == Showing!Init => ShowInv
<1> SUFFICES ASSUME Showing!Init PROVE ShowInv
  OBVIOUS
<1>1. /\ size = screen /\ window = [dims |-> Showing!NoSize, crop |-> Showing!NoSize]
      /\ kept = 0 /\ alive = {} /\ held = 0 /\ frames = 0 /\ before = gl
  BY DEF Showing!Init, Showing!NoSurface
<1>2. SurfacesSound
  BY <1>1, ShowSizes DEF SurfacesSound, Showing!NoSurface
<1>3. WindowCut
  BY <1>1, ShowSizes DEF WindowCut, Showing!NoSurface
<1>4. CursorSound
  BY <1>1 DEF CursorSound
<1> QED BY <1>2, <1>3, <1>4 DEF ShowInv

\* A window that is cut to a size.
LEMMA WindowSet ==
  ASSUME ShowInv, geom' = window'.dims,
         window' = [dims |-> window'.dims, crop |-> window'.crop], window'.crop = window'.dims,
         UNCHANGED <<frames, seen>>
  PROVE  WindowCut'
BY DEF ShowInv, WindowCut

\* The size is set, by the surface's format or by the engine.
LEMMA GeometryStep ==
  ASSUME ShowInv, NEW s, Showing!FromSurface \/ Showing!SetBuffersGeometry(s)
  PROVE  ShowInv'
<1>1. PICK z : geom' = z /\ window' = [dims |-> z, crop |-> z]
  BY DEF Showing!FromSurface, Showing!SetBuffersGeometry, Showing!SetGeom
<1>2. UNCHANGED <<screen, size, kept, alive, held, frames, gl, before, seen>>
  BY DEF Showing!FromSurface, Showing!SetBuffersGeometry, Showing!drawn
<1>3. WindowCut'
  BY <1>1, <1>2, WindowSet
<1> QED BY <1>2, <1>3 DEF ShowInv, SurfacesSound, CursorSound

\* eglCreateWindowSurface: the surface there is, one made anew, or none.
LEMMA CreateStep == ShowInv /\ Showing!Create => ShowInv'
<1> SUFFICES ASSUME ShowInv, Showing!Create PROVE ShowInv'
  OBVIOUS
<1>1. /\ window.dims # Showing!NoSize
      /\ UNCHANGED <<screen, size, geom, frames, gl, before, seen>>
  BY DEF Showing!Create, Showing!drawn
<1>2. CursorSound'
  BY <1>1 DEF ShowInv, CursorSound
<1>3. window = [dims |-> window.dims, crop |-> window.crop] /\ geom = window.dims
  BY <1>1 DEF ShowInv, WindowCut
<1>4. CASE kept # Showing!NoSurface
  <2>1. held' = kept /\ UNCHANGED <<kept, alive, window>>
    BY <1>4 DEF Showing!Create, Showing!SurfaceAgain
  <2> QED BY <1>1, <1>2, <2>1 DEF ShowInv, SurfacesSound, WindowCut
<1>5. CASE kept = Showing!NoSurface
  <2>1. window' = [dims |-> geom, crop |-> geom]
    <3>1. \E c : window' = Showing!Reassert([window EXCEPT !.crop = c])
      <4>1. window = [window EXCEPT !.crop = window.crop]
        BY <1>3
      <4> QED BY <1>5, <4>1 DEF Showing!Create, Showing!SurfaceAgain
    <3> QED BY <1>3, <3>1 DEF Showing!Reassert
  <2>2. WindowCut'
    BY <1>1, <2>1, WindowSet
  <2>3. \/ \E s \in 1 .. MaxSurfaces : kept' = s /\ held' = s /\ alive' = alive \cup {s}
        \/ UNCHANGED <<kept, alive, held>>
    BY <1>5 DEF Showing!Create, Showing!SurfaceAgain
  <2>4. SurfacesSound'
    BY <1>1, <1>5, <2>3, ShowSizes DEF ShowInv, SurfacesSound, Showing!NoSurface
  <2> QED BY <1>2, <2>2, <2>4 DEF ShowInv
<1> QED BY <1>4, <1>5

\* The surface is given back, and the frame is ended by the game.
LEMMA DestroyStep == ShowInv /\ (Showing!Destroy \/ Showing!EndFrame) => ShowInv'
<1>1. ShowInv /\ Showing!Destroy => ShowInv'
  BY DEF Showing!Destroy, Showing!screenVars, Showing!drawn, Showing!NoSurface, ShowInv,
         SurfacesSound, WindowCut, CursorSound
<1>2. ShowInv /\ Showing!EndFrame => ShowInv'
  BY DEF Showing!EndFrame, Showing!screenVars, ShowInv, SurfacesSound, WindowCut, CursorSound
<1> QED BY <1>1, <1>2

\* A frame is presented: the crop is right when it counts, and the cursor is
\* drawn without a trace.
LEMMA SwapStep ==
  ASSUME ShowInv, NEW cursor \in BOOLEAN, Showing!Swap(cursor)
  PROVE  ShowInv'
<1>1. /\ held # Showing!NoSurface /\ frames < ShownFrames /\ frames' = frames + 1
      /\ UNCHANGED <<screen, size, geom, kept, alive, held>>
      /\ gl' = (IF cursor THEN Showing!AfterCursor ELSE gl) /\ before' = gl
  BY DEF Showing!Swap
<1>2. SurfacesSound'
  BY <1>1, ShowSizes DEF ShowInv, SurfacesSound
<1>3. CursorSound'
  <2>1. /\ Showing!AfterCursor.on = gl.on
        /\ \A b \in Showing!Saved : Showing!AfterCursor.bound[b] = gl.bound[b]
    BY DEF Showing!AfterCursor, Showing!Restored, Showing!Turned, Showing!Bindings
  <2> QED BY <1>1, <2>1 DEF CursorSound
<1>4. WindowCut'
  <2>1. /\ window = [dims |-> window.dims, crop |-> window.crop] /\ geom = window.dims
        /\ frames \in Nat /\ (frames > Settles => window.crop = window.dims)
    BY <1>1 DEF ShowInv, WindowCut, SurfacesSound
  <2>2. PICK w : w = IF frames < Reasserts THEN Showing!Reassert(window) ELSE window
    OBVIOUS
  <2>3. w = [dims |-> geom, crop |-> geom]
    BY <2>1, <2>2, ShowSizes DEF Showing!Reassert
  <2>4. PICK c : /\ seen' = w /\ window' = [w EXCEPT !.crop = c]
                 /\ c = w.crop \/ frames < Settles
    BY <2>2 DEF Showing!Swap
  <2>5. window' = [dims |-> geom, crop |-> c] /\ (frames' > Settles => c = geom)
    BY <1>1, <2>1, <2>3, <2>4, ShowSizes
  <2> QED BY <1>1, <2>1, <2>3, <2>4, <2>5 DEF WindowCut
<1> QED BY <1>2, <1>3, <1>4 DEF ShowInv

\* Every step of the window keeps the invariant.
LEMMA ShowStep == ShowInv /\ [Showing!Next]_showingVars => ShowInv'
<1>1. ShowInv /\ UNCHANGED showingVars => ShowInv'
  BY DEF showingVars, ShowInv, SurfacesSound, WindowCut, CursorSound
<1> QED BY <1>1, GeometryStep, CreateStep, DestroyStep, SwapStep DEF Showing!Next

\* What the run checks of it follows.
LEMMA ShowFollows == ShowInv => Showing!TypeOK /\ Showing!ShownWhole
<1> SUFFICES ASSUME ShowInv PROVE Showing!TypeOK /\ Showing!ShownWhole
  OBVIOUS
<1>1. Showing!Cardinality(alive) <= 1
  <2>1. Showing!Cardinality(alive) = Cardinality(alive)
    BY DEF Showing!Cardinality, Cardinality
  <2>2. alive = {} \/ alive = {kept}
    BY DEF ShowInv, SurfacesSound
  <2>3. Cardinality({}) = 0 /\ Cardinality({kept}) = 1
    BY FS_EmptySet, FS_Singleton
  <2> QED BY <2>1, <2>2, <2>3
<1>2. Showing!TypeOK
  BY ShowSizes DEF ShowInv, SurfacesSound, Showing!TypeOK, Showing!NoSurface
<1> QED BY <1>1, <1>2 DEF ShowInv, SurfacesSound, WindowCut, CursorSound, Showing!ShownWhole,
                          Showing!NoSurface, Showing!Bindings

-----------------------------------------------------------------------------
(* The registry and the watchdog (Watchdog).                               *)

RegistryStates ==
  /\ thread \in [Users -> {"none", "starting", "running", "ending"}]
  /\ self \in [Users -> 0 .. MaxSlots]
  /\ slots \in [1 .. MaxSlots -> [used : BOOLEAN, who : Users \cup {None}]]
  /\ wd \in [at : {"sleep", "list", "scan", "pause", "resume", "print"}, i : 0 .. MaxSlots,
             h : Users \cup {None}]
  /\ paused \in SUBSET Users /\ stdio \in Users \cup {None}

\* A slot in use and the thread it is of name each other; only a running thread
\* has one.
SlotsSound ==
  /\ \A t \in Users : self[t] # 0 =>
       thread[t] = "running" /\ slots[self[t]].used /\ slots[self[t]].who = t
  /\ \A i \in 1 .. MaxSlots : slots[i].used => slots[i].who \in Users /\ self[slots[i].who] = i

\* The watchdog looks at a slot that stays in use while it does.
LookSound ==
  /\ wd.at \in {"pause", "resume"} =>
       wd.i > 0 /\ slots[wd.i].used /\ slots[wd.i].who = wd.h
  /\ paused \subseteq (IF wd.at = "resume" THEN {wd.h} ELSE {})

WatchInv == RegistryStates /\ SlotsSound /\ LookSound

\* What the sizes of the registry are.
LEMMA WatchSizes == MaxSlots \in Nat \ {0}
BY WatchingAssumption DEF Watching!WatchdogAssumption

\* No two slots are the first free one.
LEMMA OneIsFree ==
  ASSUME WatchInv
  PROVE  /\ Watching!FirstFree \subseteq 1 .. MaxSlots
         /\ \A i \in Watching!FirstFree : ~ slots[i].used
         /\ \A i, j \in Watching!FirstFree : i = j
<1>1. /\ Watching!FirstFree \subseteq 1 .. MaxSlots
      /\ \A i \in Watching!FirstFree : ~ slots[i].used /\ \A j \in 1 .. (i - 1) : slots[j].used
  BY DEF Watching!FirstFree, Watching!Slots
<1>2. ASSUME NEW i \in Watching!FirstFree, NEW j \in Watching!FirstFree, i < j
      PROVE  FALSE
  <2>1. i \in 1 .. MaxSlots /\ j \in 1 .. MaxSlots
    BY <1>1
  <2>2. i \in 1 .. (j - 1)
    BY <1>2, <2>1, WatchSizes
  <2> QED BY <1>1, <2>2
<1> QED BY <1>1, <1>2, WatchSizes

\* The registry as it begins.
LEMMA WatchInit == Watching!Init => WatchInv
<1> SUFFICES ASSUME Watching!Init PROVE WatchInv
  OBVIOUS
<1>1. /\ thread = [t \in Users |-> "none"] /\ self = [t \in Users |-> 0]
      /\ slots = [i \in 1 .. MaxSlots |-> [used |-> FALSE, who |-> None]]
      /\ wd = [at |-> "sleep", i |-> 0, h |-> None] /\ stdio = None /\ paused = {}
  BY DEF Watching!Init, Watching!Slots, Watching!Free, Watching!Asleep
<1>2. RegistryStates
  BY <1>1, WatchSizes DEF RegistryStates
<1>3. SlotsSound /\ LookSound
  BY <1>1 DEF SlotsSound, LookSound
<1> QED BY <1>2, <1>3 DEF WatchInv

\* slot_alloc: a thread that runs gets a slot of its own, or keeps it, or finds none.
LEMMA RegisteredKeeps ==
  ASSUME WatchInv, NEW t \in Users, Watching!Registered(t),
         thread' \in [Users -> {"none", "starting", "running", "ending"}],
         thread'[t] = "running", \A u \in Users \ {t} : thread'[u] = thread[u],
         UNCHANGED <<wd, stdio, paused>>
  PROVE  WatchInv'
<1> DEFINE F == Watching!FirstFree
<1>1. /\ F \subseteq 1 .. MaxSlots /\ \A i \in F : ~ slots[i].used /\ \A j \in F : i = j
  BY OneIsFree
<1>2. RegistryStates /\ SlotsSound /\ LookSound
  BY DEF WatchInv
<1>3. PICK O : O = Watching!Own(t)
  OBVIOUS
<1>4. /\ slots' = [i \in 1 .. MaxSlots |-> IF i \in O THEN [used |-> TRUE, who |-> t] ELSE slots[i]]
      /\ self' = [self EXCEPT ![t] = IF O = {} THEN 0 ELSE CHOOSE i \in O : TRUE]
  BY <1>3 DEF Watching!Registered, Watching!Slots
<1>5. \/ self[t] # 0 /\ O = {self[t]} /\ self[t] \in 1 .. MaxSlots
      \/ self[t] = 0 /\ O = {}
      \/ self[t] = 0 /\ \E i \in 1 .. MaxSlots : O = {i} /\ ~ slots[i].used
  <2>1. self[t] \in 0 .. MaxSlots
    BY <1>2 DEF RegistryStates
  <2>2. CASE self[t] # 0
    BY <1>3, <2>1, <2>2, WatchSizes DEF Watching!Own
  <2>3. CASE self[t] = 0
    <3>1. O = F
      BY <1>3, <2>3 DEF Watching!Own
    <3>2. F = {} \/ \E i \in F : F = {i}
      BY <1>1
    <3> QED BY <1>1, <2>3, <3>1, <3>2
  <2> QED BY <2>2, <2>3
<1> HIDE DEF F
<1>6. CASE O = {}
  <2>1. slots' = slots /\ self' = self
    BY <1>2, <1>4, <1>5, <1>6 DEF RegistryStates
  <2> QED BY <1>2, <1>5, <1>6, <2>1 DEF WatchInv, RegistryStates, SlotsSound, LookSound
<1>7. ASSUME NEW n \in 1 .. MaxSlots, O = {n}, self[t] = n \/ (self[t] = 0 /\ ~ slots[n].used)
      PROVE  WatchInv'
  <2>1. (CHOOSE i \in O : TRUE) = n
    BY <1>7
  <2>2. slots' = [slots EXCEPT ![n] = [used |-> TRUE, who |-> t]] /\ self' = [self EXCEPT ![t] = n]
    BY <1>2, <1>4, <1>7, <2>1 DEF RegistryStates
  <2>3. RegistryStates'
    BY <1>2, <2>2, WatchSizes DEF RegistryStates
  <2>4. SlotsSound'
    BY <1>2, <1>7, <2>2 DEF RegistryStates, SlotsSound
  <2>5. LookSound'
    BY <1>2, <1>7, <2>2, WatchSizes DEF RegistryStates, SlotsSound, LookSound
  <2> QED BY <2>3, <2>4, <2>5 DEF WatchInv
<1> QED BY <1>5, <1>6, <1>7

\* A thread starts, registers, and waits.
LEMMA RunStep ==
  ASSUME WatchInv, NEW t \in Users,
         Watching!Start(t) \/ Watching!Register(t) \/ Watching!WaitEnter(t)
  PROVE  WatchInv'
<1>1. /\ thread \in [Users -> {"none", "starting", "running", "ending"}]
      /\ \A u \in Users : self[u] # 0 => thread[u] = "running"
  BY DEF WatchInv, RegistryStates, SlotsSound
<1>2. CASE Watching!Start(t)
  BY <1>1, <1>2 DEF Watching!Start, WatchInv, RegistryStates, SlotsSound, LookSound
<1>3. CASE Watching!Register(t)
  BY <1>1, <1>3, RegisteredKeeps DEF Watching!Register
<1>4. CASE Watching!WaitEnter(t)
  BY <1>1, <1>4, RegisteredKeeps DEF Watching!WaitEnter
<1> QED BY <1>2, <1>3, <1>4

\* A slot that is given back.
LEMMA GivenBack ==
  ASSUME NEW s \in [used : BOOLEAN, who : Users \cup {None}], NEW r, r = [s EXCEPT !.used = FALSE]
  PROVE  r = [used |-> FALSE, who |-> s.who]
OBVIOUS

\* A thread gives its slot back, ends, and prints.
LEMMA EndStep ==
  ASSUME WatchInv, NEW t \in Users,
         \/ Watching!Unregister(t) \/ Watching!End(t)
         \/ Watching!PrintBegin(t) \/ Watching!PrintEnd(t)
  PROVE  WatchInv'
<1> USE DEF WatchInv
<1>1. CASE Watching!Unregister(t)
  <2>1. /\ wd.at \notin {"pause", "resume"} /\ UNCHANGED <<wd, stdio, paused>>
        /\ self' = [self EXCEPT ![t] = 0] /\ thread' = [thread EXCEPT ![t] = "ending"]
    BY <1>1 DEF Watching!Unregister, Watching!Looking
  <2>2. CASE self[t] = 0
    BY <1>1, <2>1, <2>2 DEF Watching!Unregister, RegistryStates, SlotsSound, LookSound
  <2>3. CASE self[t] # 0
    <3>1. PICK n \in 1 .. MaxSlots : n = self[t]
      BY <2>3, WatchSizes DEF RegistryStates
    <3>2. slots' = [slots EXCEPT ![n] = [used |-> FALSE, who |-> slots[n].who]]
      <4>1. slots' = [slots EXCEPT ![n].used = FALSE]
        BY <1>1, <2>3, <3>1 DEF Watching!Unregister
      <4>2. slots[n] \in [used : BOOLEAN, who : Users \cup {None}]
        BY DEF RegistryStates
      <4>3. PICK r : r = [slots[n] EXCEPT !.used = FALSE]
        OBVIOUS
      <4>4. r = [used |-> FALSE, who |-> slots[n].who]
        BY <4>2, <4>3, GivenBack
      <4> QED BY <4>1, <4>3, <4>4
    <3>3. RegistryStates'
      BY <2>1, <3>2, WatchSizes DEF RegistryStates
    <3>4. SlotsSound'
      BY <2>1, <3>1, <3>2 DEF RegistryStates, SlotsSound
    <3> QED BY <2>1, <3>3, <3>4 DEF LookSound
  <2> QED BY <2>2, <2>3
<1>2. CASE Watching!End(t)
  BY <1>2 DEF Watching!End, RegistryStates, SlotsSound, LookSound
<1>3. CASE Watching!PrintBegin(t)
  BY <1>3 DEF Watching!PrintBegin, RegistryStates, SlotsSound, LookSound
<1>4. CASE Watching!PrintEnd(t)
  BY <1>4 DEF Watching!PrintEnd, RegistryStates, SlotsSound, LookSound
<1> QED BY <1>1, <1>2, <1>3, <1>4

\* The watchdog goes on and the registry stays.
LEMMA WatchdogMoves ==
  ASSUME WatchInv, UNCHANGED <<thread, self, slots, stdio>>, paused' \subseteq Users, LookSound',
         wd' \in [at : {"sleep", "list", "scan", "pause", "resume", "print"}, i : 0 .. MaxSlots,
                  h : Users \cup {None}]
  PROVE  WatchInv'
BY DEF WatchInv, RegistryStates, SlotsSound

\* The watchdog, and the frames that keep it asleep.
LEMMA WatchdogStep ==
  ASSUME WatchInv,
         Watching!Frame \/ Watching!SixSeconds \/ Watching!Poll \/ Watching!WdStep
  PROVE  WatchInv'
<1>1. RegistryStates /\ SlotsSound /\ LookSound
  BY DEF WatchInv
<1>2. ASSUME UNCHANGED <<thread, self, slots, wd, stdio, paused>> PROVE WatchInv'
  BY <1>2 DEF WatchInv, RegistryStates, SlotsSound, LookSound
<1>3. CASE Watching!Frame \/ Watching!SixSeconds
  BY <1>2, <1>3 DEF Watching!Frame, Watching!SixSeconds
<1>4. ASSUME UNCHANGED <<thread, self, slots, stdio, paused>>, paused = {},
             NEW at0 \in {"sleep", "list", "scan", "print"},
             NEW h0 \in Users \cup {None}, NEW i0 \in 0 .. MaxSlots,
             wd' = [at |-> at0, i |-> i0, h |-> h0]
      PROVE  WatchInv'
  <2>1. LookSound'
    BY <1>4 DEF LookSound
  <2> QED BY <1>4, <2>1, WatchdogMoves
<1>5. wd = [at |-> wd.at, i |-> wd.i, h |-> wd.h] /\ wd.i \in 0 .. MaxSlots
        /\ wd.h \in Users \cup {None}
  BY <1>1 DEF RegistryStates
<1>6. ASSUME NEW from, NEW to \in {"sleep", "list", "scan", "print"}, Watching!Goes(from, to)
      PROVE  wd.at = from /\ wd' = [at |-> to, i |-> wd.i, h |-> wd.h]
  BY <1>5, <1>6 DEF Watching!Goes
<1>7. CASE Watching!Poll
  <2>1. wd' \in {[wd EXCEPT !.at = "list"], Watching!Asleep} /\ wd.at = "sleep"
        /\ UNCHANGED <<thread, self, slots, stdio, paused>>
    BY <1>7 DEF Watching!Poll
  <2>2. paused = {}
    BY <1>1, <2>1 DEF LookSound
  <2>3. CASE wd' = [wd EXCEPT !.at = "list"]
    <3>1. wd' = [at |-> "list", i |-> wd.i, h |-> wd.h]
      BY <1>5, <2>3
    <3> QED BY <1>4, <1>5, <2>1, <2>2, <3>1
  <2>4. CASE wd' = [at |-> "sleep", i |-> 0, h |-> None]
    BY <1>4, <2>1, <2>2, <2>4, WatchSizes
  <2> QED BY <2>1, <2>3, <2>4 DEF Watching!Asleep
<1>8. CASE Watching!PrintList \/ Watching!PrintContext
  <2>1. PICK from \in {"list", "print"} : Watching!PrintLines(from, "scan")
    BY <1>8 DEF Watching!PrintList, Watching!PrintContext
  <2>2. Watching!Goes(from, "scan") /\ UNCHANGED <<thread, self, slots, stdio, paused>>
    BY <2>1 DEF Watching!PrintLines
  <2>3. wd.at = from /\ wd' = [at |-> "scan", i |-> wd.i, h |-> wd.h]
    BY <1>6, <2>2
  <2>4. paused = {}
    BY <1>1, <2>1, <2>3 DEF LookSound
  <2> QED BY <1>4, <1>5, <2>2, <2>3, <2>4
<1>9. CASE Watching!NextSlot
  <2>1. wd.at = "scan" /\ paused = {} /\ UNCHANGED <<thread, self, slots, stdio, paused>>
    BY <1>1, <1>9 DEF Watching!NextSlot, LookSound
  <2>2. CASE wd.i = MaxSlots
    <3>1. wd' = [at |-> "sleep", i |-> 0, h |-> None]
      BY <1>9, <2>2 DEF Watching!NextSlot, Watching!Asleep
    <3> QED BY <1>4, <2>1, <3>1, WatchSizes
  <2>3. CASE wd.i # MaxSlots
    <3>1. PICK n \in 1 .. MaxSlots : n = wd.i + 1
      BY <1>1, <2>3, WatchSizes DEF RegistryStates
    <3>2. wd' = [at |-> IF slots[n].used THEN "pause" ELSE "scan", i |-> n, h |-> slots[n].who]
      BY <1>9, <2>3, <3>1 DEF Watching!NextSlot
    <3>3. LookSound'
      BY <2>1, <3>2, WatchSizes DEF LookSound
    <3>4. n \in 0 .. MaxSlots /\ slots[n].who \in Users \cup {None}
      BY <1>1, WatchSizes DEF RegistryStates
    <3> QED BY <2>1, <3>2, <3>3, <3>4, WatchdogMoves
  <2> QED BY <2>2, <2>3
<1>10. CASE Watching!Pause
  <2>1. /\ wd.at = "pause" /\ wd.i > 0 /\ slots[wd.i].used /\ slots[wd.i].who = wd.h /\ paused = {}
        /\ UNCHANGED <<thread, self, slots, stdio>>
    BY <1>1, <1>10 DEF Watching!Pause, LookSound
  <2>2. CASE wd.h \in Users /\ thread[wd.h] # "none"
    <3>1. wd' = [at |-> "resume", i |-> wd.i, h |-> wd.h] /\ paused' = {wd.h}
      BY <1>10, <1>5, <2>1, <2>2 DEF Watching!Pause, Watching!Goes
    <3>2. LookSound'
      BY <2>1, <3>1 DEF LookSound
    <3> QED BY <1>5, <2>1, <2>2, <3>1, <3>2, WatchdogMoves
  <2>3. CASE ~ (wd.h \in Users /\ thread[wd.h] # "none")
    <3>1. Watching!Goes("pause", "print") /\ UNCHANGED paused
      BY <1>10, <2>3 DEF Watching!Pause
    <3>2. wd' = [at |-> "print", i |-> wd.i, h |-> wd.h]
      BY <1>6, <3>1
    <3> QED BY <1>4, <1>5, <2>1, <3>1, <3>2
  <2> QED BY <2>2, <2>3
<1>11. CASE Watching!Resume
  <2>1. /\ Watching!Goes("resume", "print") /\ paused' = paused \ {slots[wd.i].who}
        /\ UNCHANGED <<thread, self, slots, stdio>>
    BY <1>11 DEF Watching!Resume
  <2>2. wd.at = "resume" /\ wd' = [at |-> "print", i |-> wd.i, h |-> wd.h]
    BY <1>6, <2>1
  <2>3. paused' = {}
    BY <1>1, <2>1, <2>2 DEF LookSound
  <2>4. LookSound'
    BY <2>2, <2>3 DEF LookSound
  <2> QED BY <1>5, <2>1, <2>2, <2>3, <2>4, WatchdogMoves
<1> QED BY <1>3, <1>7, <1>8, <1>9, <1>10, <1>11 DEF Watching!WdStep

\* Every step of the threads and the watchdog keeps the invariant.
LEMMA WatchStep == WatchInv /\ [Watching!Next]_watchingVars => WatchInv'
<1>1. WatchInv /\ UNCHANGED watchingVars => WatchInv'
  BY DEF watchingVars, WatchInv, RegistryStates, SlotsSound, LookSound
<1> QED BY <1>1, RunStep, EndStep, WatchdogStep DEF Watching!Next

\* What the run checks of them follows.
LEMMA WatchFollows == WatchInv => Watching!TypeOK /\ Watching!SlotsApart
BY DEF WatchInv, RegistryStates, SlotsSound, LookSound, Watching!TypeOK, Watching!SlotsApart,
       Watching!Slots

-----------------------------------------------------------------------------
(* The overlay and its publisher (Overlay).                                *)

Steps == {"none", "loop", "look", "read", "time", "sum", "rate", "show", "wait", "last", "gone"}
Within == {"read", "time", "sum", "rate", "show"}
Frames == [at : {"out", "first", "late", "next", "keep", "clear"}, i : 0 .. (Ring - 1),
           left : SUBSET (0 .. (Ring - 1))]
Publishers == [at : Steps, tries : 0 .. (Retry - 1), frames : Nat, recent : BOOLEAN,
               sum : SUBSET Nat, i : 0 .. Ring]
OverlayStates ==
  /\ salty \in {"absent", "busy", "up"} /\ wipes \in Nat
  /\ shared \in [mapped : BOOLEAN, marked : BOOLEAN] /\ mine \in BOOLEAN
  /\ shown \in [spans : SUBSET Nat, frames : Nat, active : BOOLEAN]
  /\ counted \in 0 .. MaxFrames /\ since \in BOOLEAN /\ still \in BOOLEAN
  /\ ticks \in [0 .. (Ring - 1) -> Nat] /\ span \in Nat
  /\ inFrame \in Frames /\ pub \in Publishers
  /\ owner \in {"new", "made", "running", "stopping", "ended"}

\* A pause makes a new span, of which a frame is counted next.
SpansSound ==
  /\ span > 0 /\ \A i \in 0 .. (Ring - 1) : ticks[i] <= span
  /\ IF inFrame.at \in {"first", "late", "next"}
     THEN counted < MaxFrames /\ span <= counted + 2 ELSE span <= counted + 1
  /\ still => since
  /\ inFrame.at \in {"out", "first", "next", "keep"} =>
       \A i \in 0 .. (Ring - 1) : ticks[i] \in {0, span}
  /\ inFrame.at = "clear" =>
       inFrame.left # {} /\ \A i \in (0 .. (Ring - 1)) \ inFrame.left : ticks[i] = 0

\* The publisher runs from the start to the stop, after which the page is closed.
OwnerSound ==
  /\ owner \in {"new", "made"} => pub.at = "none"
  /\ owner = "running" => pub.at \notin {"none", "last", "gone"}
  /\ owner = "stopping" => pub.at # "none"
  /\ owner = "ended" => pub.at \in {"none", "gone"} /\ ~ shared.mapped /\ ~ mine
  /\ owner # "ended" => /\ shared.marked => mine
                        /\ mine => shared.mapped

\* What is written goes to a page that is there, of frames that were counted, and
\* nothing is left of a rate when the publisher is gone.
PublisherSound ==
  /\ pub.at \in Within => mine /\ shared.mapped
  /\ pub.at = "sum" => pub.i < Ring
  /\ pub.frames <= counted /\ shown.frames <= counted
  /\ pub.at \in {"none", "gone"} /\ shared.marked => shown.spans = {} /\ ~ shown.active

OverlayInv == OverlayStates /\ SpansSound /\ OwnerSound /\ PublisherSound

\* What the sizes of the overlay are.
LEMMA OverlaySizes == Ring \in Nat \ {0} /\ Retry \in Nat \ {0} /\ MaxFrames \in Nat \ {0}
BY OverlayingAssumption DEF Overlaying!OverlayAssumption

\* What the steps of the overlay leave alone, and the values of its records.
LEMMA OverlayRecords ==
  ASSUME OverlayInv
  PROVE  /\ shared = [mapped |-> shared.mapped, marked |-> shared.marked]
         /\ shown = [spans |-> shown.spans, frames |-> shown.frames, active |-> shown.active]
         /\ pub.tries + 1 \in Nat /\ counted \in Nat /\ counted <= MaxFrames
<1>1. /\ shared \in [mapped : BOOLEAN, marked : BOOLEAN] /\ counted \in 0 .. MaxFrames
      /\ shown \in [spans : SUBSET Nat, frames : Nat, active : BOOLEAN] /\ pub \in Publishers
  BY DEF OverlayInv, OverlayStates
<1>2. pub.tries \in 0 .. (Retry - 1)
  BY <1>1 DEF Publishers
<1>3. shared = [mapped |-> shared.mapped, marked |-> shared.marked]
  BY <1>1
<1>4. shown = [spans |-> shown.spans, frames |-> shown.frames, active |-> shown.active]
  BY <1>1
<1> QED BY <1>1, <1>2, <1>3, <1>4, OverlaySizes

\* The overlay as it begins.
LEMMA OverlayInit == Overlaying!Init => OverlayInv
<1> SUFFICES ASSUME Overlaying!Init PROVE OverlayInv
  OBVIOUS
<1>1. /\ salty \in {"absent", "busy", "up"} /\ wipes = 0
      /\ shared = [mapped |-> FALSE, marked |-> FALSE] /\ mine = FALSE
      /\ shown = [spans |-> {}, frames |-> 0, active |-> FALSE]
      /\ counted = 0 /\ since = FALSE /\ still = FALSE /\ span = 1
      /\ ticks = [i \in 0 .. (Ring - 1) |-> 0]
      /\ inFrame = [at |-> "out", i |-> 0, left |-> {}] /\ owner = "new"
      /\ pub = [at |-> "none", tries |-> 0, frames |-> 0, recent |-> FALSE, sum |-> {}, i |-> 0]
  BY DEF Overlaying!Init, Overlaying!Blank, Overlaying!Indices, Overlaying!Between,
         Overlaying!NoPublisher
<1>2. inFrame \in Frames
  BY <1>1, OverlaySizes DEF Frames
<1>3. pub \in Publishers
  BY <1>1, OverlaySizes DEF Publishers, Steps
<1>4. OverlayStates
  <2>1. shared \in [mapped : BOOLEAN, marked : BOOLEAN]
    BY <1>1
  <2>2. shown \in [spans : SUBSET Nat, frames : Nat, active : BOOLEAN]
    BY <1>1
  <2>3. ticks \in [0 .. (Ring - 1) -> Nat] /\ counted \in 0 .. MaxFrames /\ span \in Nat
    BY <1>1, OverlaySizes
  <2> QED BY <1>1, <1>2, <1>3, <2>1, <2>2, <2>3 DEF OverlayStates
<1>5. SpansSound
  BY <1>1, OverlaySizes DEF SpansSound
<1>6. OwnerSound /\ PublisherSound
  BY <1>1, OverlaySizes DEF OwnerSound, PublisherSound, Within
<1> QED BY <1>4, <1>5, <1>6 DEF OverlayInv

\* SaltyNX comes, or wipes its page.
LEMMA SaltyStep == OverlayInv /\ (Overlaying!SaltyComes \/ Overlaying!Wipe) => OverlayInv'
<1>1. ASSUME OverlayInv, Overlaying!SaltyComes PROVE OverlayInv'
  BY <1>1 DEF Overlaying!SaltyComes, Overlaying!shared, Overlaying!counted, OverlayInv,
      OverlayStates,
              SpansSound, OwnerSound, PublisherSound
<1>2. ASSUME OverlayInv, Overlaying!Wipe PROVE OverlayInv'
  <2>1. /\ shared' = [mapped |-> shared.mapped, marked |-> FALSE]
        /\ shown' = [spans |-> {}, frames |-> 0, active |-> FALSE] /\ wipes' = wipes + 1
        /\ UNCHANGED <<salty, mine, counted, since, still, ticks, span, inFrame, owner, pub>>
    <3>1. /\ shared' = [shared EXCEPT !.marked = FALSE] /\ shown' = Overlaying!Blank
          /\ wipes' = wipes + 1
          /\ UNCHANGED <<salty, mine, counted, since, still, ticks, span, inFrame, owner, pub>>
      BY <1>2 DEF Overlaying!Wipe, Overlaying!counted
    <3> QED BY <1>2, <3>1, OverlayRecords DEF Overlaying!Blank
  <2>2. OverlayStates'
    BY <1>2, <2>1 DEF OverlayInv, OverlayStates
  <2>3. SpansSound'
    BY <1>2, <2>1 DEF OverlayInv, SpansSound
  <2>4. OwnerSound' /\ PublisherSound'
    BY <1>2, <2>1, OverlayRecords DEF OverlayInv, OwnerSound, PublisherSound, Within
  <2> QED BY <2>2, <2>3, <2>4 DEF OverlayInv
<1> QED BY <1>1, <1>2

\* An attach gives a block of a page that is there, or none.
LEMMA AttachGives ==
  ASSUME OverlayInv, owner # "ended", Overlaying!Attach
  PROVE  /\ shared' \in [mapped : BOOLEAN, marked : BOOLEAN] /\ mine' \in BOOLEAN
         /\ (shared'.marked => mine') /\ (mine' => shared'.mapped)
         /\ shown' = shown \/ shown' = [spans |-> {}, frames |-> 0, active |-> FALSE]
         /\ shown.spans = {} /\ ~ shown.active
              => shown'.spans = {} /\ ~ shown'.active
         /\ shown'.frames <= counted
<1>1. /\ shared \in [mapped : BOOLEAN, marked : BOOLEAN] /\ counted \in Nat
      /\ (shared.marked => mine) /\ (mine => shared.mapped) /\ mine \in BOOLEAN
      /\ shown.frames <= counted
  BY DEF OverlayInv, OverlayStates, OwnerSound, PublisherSound
<1>2. CASE shared.marked
  BY <1>1, <1>2 DEF Overlaying!Attach
<1>3. CASE ~ shared.marked
  <2>1. PICK b \in BOOLEAN, m \in BOOLEAN :
          b = (salty = "up") /\ m = (shared.mapped \/ salty # "absent")
    BY <1>1
  <2>2. /\ shared' = [mapped |-> m, marked |-> b] /\ mine' = b
        /\ shown' = [spans |-> {}, frames |-> 0, active |-> FALSE]
    BY <1>3, <2>1 DEF Overlaying!Attach, Overlaying!Blank
  <2>3. b => m
    BY <2>1
  <2> QED BY <1>1, <2>2, <2>3
<1> QED BY <1>2, <1>3

\* saltynx_start and saltynx_stop.
LEMMA OwnerStep ==
  OverlayInv /\ (Overlaying!StartAttaches \/ Overlaying!StartThread \/ Overlaying!Stop
                   \/ Overlaying!StopEnds) => OverlayInv'
<1> SUFFICES ASSUME OverlayInv PROVE
      (Overlaying!StartAttaches \/ Overlaying!StartThread \/ Overlaying!Stop \/ Overlaying!StopEnds)
        => OverlayInv'
  OBVIOUS
<1>1. OverlayStates /\ SpansSound /\ OwnerSound /\ PublisherSound
  BY DEF OverlayInv
<1>2. CASE Overlaying!StartAttaches
  <2>1. /\ owner = "new" /\ owner' = "made" /\ Overlaying!Attach
        /\ UNCHANGED <<salty, wipes, counted, since, still, ticks, span, inFrame, pub>>
    BY <1>2 DEF Overlaying!StartAttaches, Overlaying!world, Overlaying!counted
  <2>2. pub.at = "none" /\ shown \in [spans : SUBSET Nat, frames : Nat, active : BOOLEAN]
    BY <1>1, <2>1 DEF OwnerSound, OverlayStates
  <2>3. /\ shared' \in [mapped : BOOLEAN, marked : BOOLEAN] /\ mine' \in BOOLEAN
        /\ (shared'.marked => mine') /\ (mine' => shared'.mapped)
        /\ shown' = shown \/ shown' = [spans |-> {}, frames |-> 0, active |-> FALSE]
        /\ shown.spans = {} /\ ~ shown.active => shown'.spans = {} /\ ~ shown'.active
        /\ shown'.frames <= counted
    BY <2>1, <2>2, AttachGives
  <2>4. shown' \in [spans : SUBSET Nat, frames : Nat, active : BOOLEAN]
    <3>1. [spans |-> {}, frames |-> 0, active |-> FALSE]
            \in [spans : SUBSET Nat, frames : Nat, active : BOOLEAN]
      OBVIOUS
    <3> QED BY <2>2, <2>3, <3>1
  <2>5. OverlayStates'
    BY <1>1, <2>1, <2>3, <2>4 DEF OverlayStates
  <2>6. SpansSound'
    BY <1>1, <2>1 DEF SpansSound
  <2>7. ~ shared.marked => shown'.spans = {} /\ ~ shown'.active
    BY <2>1 DEF Overlaying!Attach, Overlaying!Blank
  <2>8. OwnerSound' /\ PublisherSound'
    BY <1>1, <2>1, <2>2, <2>3, <2>7 DEF OwnerSound, PublisherSound, Within
  <2> QED BY <2>5, <2>6, <2>8 DEF OverlayInv
<1>3. CASE Overlaying!StartThread
  <2>1. /\ owner = "made" /\ pub.at = "none"
        /\ UNCHANGED <<salty, wipes, shown, counted, since, still, ticks, span, inFrame>>
    BY <1>1, <1>3 DEF Overlaying!StartThread, Overlaying!world, Overlaying!counted, OwnerSound
  <2>2. SpansSound'
    BY <1>1, <2>1 DEF SpansSound
  <2>3. CASE owner' = "running" /\ pub' = [Overlaying!NoPublisher EXCEPT !.at = "loop"]
               /\ UNCHANGED <<shared, mine>>
    <3>1. pub' = [at |-> "loop", tries |-> 0, frames |-> 0, recent |-> FALSE, sum |-> {}, i |-> 0]
      BY <2>3 DEF Overlaying!NoPublisher
    <3>2. pub' \in Publishers
      BY <3>1, OverlaySizes DEF Publishers, Steps
    <3>3. OverlayStates'
      BY <1>1, <2>1, <2>3, <3>2 DEF OverlayStates
    <3>4. OwnerSound' /\ PublisherSound'
      BY <1>1, <2>1, <2>3, <3>1, OverlayRecords DEF OwnerSound, PublisherSound, Within
    <3> QED BY <2>2, <3>3, <3>4 DEF OverlayInv
  <2>4. CASE owner' = "ended" /\ mine' = FALSE /\ shared' = [shared EXCEPT !.mapped = FALSE]
               /\ UNCHANGED pub
    <3>1. shared' = [mapped |-> FALSE, marked |-> shared.marked]
      BY <2>4, OverlayRecords
    <3>2. OverlayStates'
      BY <1>1, <2>1, <2>4, <3>1 DEF OverlayStates
    <3>3. OwnerSound' /\ PublisherSound'
      BY <1>1, <2>1, <2>4, <3>1 DEF OwnerSound, PublisherSound, Within
    <3> QED BY <2>2, <3>2, <3>3 DEF OverlayInv
  <2> QED BY <1>3, <2>3, <2>4 DEF Overlaying!StartThread
<1>4. CASE Overlaying!Stop
  <2>1. /\ owner = "running" /\ owner' = "stopping"
        /\ UNCHANGED <<salty, wipes, shared, mine, shown, counted, since, still, ticks, span,
                       inFrame,
                       pub>>
    BY <1>4 DEF Overlaying!Stop, Overlaying!world, Overlaying!counted, Overlaying!shared
  <2> QED BY <1>1, <2>1 DEF OverlayInv, OverlayStates, SpansSound, OwnerSound, PublisherSound
<1>5. CASE Overlaying!StopEnds
  <2>1. /\ owner = "stopping" /\ owner' = "ended" /\ pub.at = "gone" /\ mine' = FALSE
        /\ shared' = [shared EXCEPT !.mapped = FALSE]
        /\ UNCHANGED <<salty, wipes, shown, counted, since, still, ticks, span, inFrame, pub>>
    BY <1>5 DEF Overlaying!StopEnds, Overlaying!Closed, Overlaying!world, Overlaying!counted
  <2>2. shared' = [mapped |-> FALSE, marked |-> shared.marked]
    BY <2>1, OverlayRecords
  <2>3. OverlayStates'
    BY <1>1, <2>1, <2>2 DEF OverlayStates
  <2>4. SpansSound'
    BY <1>1, <2>1 DEF SpansSound
  <2>5. OwnerSound' /\ PublisherSound'
    BY <1>1, <2>1, <2>2 DEF OwnerSound, PublisherSound, Within
  <2> QED BY <2>3, <2>4, <2>5 DEF OverlayInv
<1> QED BY <1>2, <1>3, <1>4, <1>5

\* saltynx_frame and the second between two frames: durations and spans.
LEMMA FramesMove ==
  ASSUME OverlayInv, OverlayStates', SpansSound', counted <= counted',
         UNCHANGED <<shared, mine, shown, owner, pub>>
  PROVE  OverlayInv'
<1>1. pub.frames \in Nat /\ shown.frames \in Nat /\ counted \in Nat /\ counted' \in Nat
  BY OverlaySizes DEF OverlayInv, OverlayStates, Publishers
<1>2. OwnerSound' /\ PublisherSound'
  BY <1>1 DEF OverlayInv, OwnerSound, PublisherSound, Within
<1> QED BY <1>2 DEF OverlayInv

\* The presenting thread counts a frame and keeps its duration.
LEMMA FramesStep ==
  OverlayInv /\ (Overlaying!Second \/ Overlaying!FrameExchanges \/ Overlaying!FrameCounts
                   \/ Overlaying!FrameKeeps \/ Overlaying!FrameClears) => OverlayInv'
<1> SUFFICES ASSUME OverlayInv PROVE
      (Overlaying!Second \/ Overlaying!FrameExchanges \/ Overlaying!FrameCounts
         \/ Overlaying!FrameKeeps \/ Overlaying!FrameClears) => OverlayInv'
  OBVIOUS
<1>1. OverlayStates /\ SpansSound
  BY DEF OverlayInv
<1>2. /\ counted \in Nat /\ counted <= MaxFrames /\ span \in Nat
      /\ inFrame.i \in 0 .. (Ring - 1) /\ inFrame.left \in SUBSET (0 .. (Ring - 1))
  BY <1>1, OverlaySizes DEF OverlayStates, Frames
<1> USE DEF Overlaying!world, Overlaying!shared, Overlaying!counted
<1>3. CASE Overlaying!Second
  <2>1. /\ since /\ still' = TRUE
        /\ UNCHANGED <<salty, wipes, shared, mine, shown, counted, since, ticks, span, inFrame,
                       owner,
                       pub>>
    BY <1>3 DEF Overlaying!Second
  <2>2. OverlayStates' /\ SpansSound'
    BY <1>1, <2>1 DEF OverlayStates, SpansSound
  <2> QED BY <1>2, <2>1, <2>2, FramesMove
<1>4. CASE Overlaying!FrameExchanges
  <2>1. /\ inFrame.at = "out" /\ counted < MaxFrames /\ since' = TRUE /\ still' = FALSE
        /\ span' = (IF still THEN span + 1 ELSE span)
        /\ UNCHANGED <<salty, wipes, shared, mine, shown, counted, ticks, owner, pub>>
    BY <1>4 DEF Overlaying!FrameExchanges
  <2>2. PICK a \in {"first", "late", "next"} : /\ inFrame' = [at |-> a, i |-> 0, left |-> {}]
                                               /\ a = "late" <=> still
    <3>1. still => since
      BY <1>1 DEF SpansSound
    <3> QED BY <1>4, <3>1 DEF Overlaying!FrameExchanges
  <2>3. inFrame' \in Frames
    BY <2>2, OverlaySizes DEF Frames
  <2>4. OverlayStates'
    <3>1. span' \in Nat /\ since' \in BOOLEAN /\ still' \in BOOLEAN
      <4>1. span' = span + 1 \/ span' = span
        BY <2>1
      <4>2. span' \in Nat
        BY <1>2, <4>1
      <4>3. since' = TRUE /\ still' = FALSE
        BY <2>1
      <4> QED BY <4>2, <4>3
    <3> QED BY <1>1, <2>1, <2>3, <3>1 DEF OverlayStates
  <2>5. \A i \in 0 .. (Ring - 1) : ticks[i] \in Nat /\ ticks[i] <= span /\ ticks[i] \in {0, span}
    BY <1>1, <2>1 DEF OverlayStates, SpansSound
  <2>6. span <= counted + 1 /\ span > 0
    BY <1>1, <2>1 DEF SpansSound
  <2>7. SpansSound'
    BY <1>2, <2>1, <2>2, <2>5, <2>6 DEF SpansSound
  <2> QED BY <1>2, <2>1, <2>4, <2>7, FramesMove
<1>5. CASE Overlaying!FrameCounts
  <2>1. /\ inFrame.at \in {"first", "late", "next"} /\ counted' = counted + 1
        /\ UNCHANGED <<salty, wipes, shared, mine, shown, since, still, ticks, span, owner, pub>>
    BY <1>5 DEF Overlaying!FrameCounts
  <2>2. PICK a \in {"out", "clear", "keep"}, l \in SUBSET (0 .. (Ring - 1)) :
          /\ inFrame' = [at |-> a, i |-> counted % Ring, left |-> l]
          /\ a = "clear" <=> inFrame.at = "late"
          /\ a = "clear" => l = 0 .. (Ring - 1)
    <3>1. /\ inFrame' = [ at |-> CASE inFrame.at = "first" -> "out"
                                   [] inFrame.at = "late" -> "clear"
                                   [] OTHER -> "keep",
                          i |-> counted % Ring,
                          left |-> IF inFrame.at = "late" THEN 0 .. (Ring - 1) ELSE {} ]
      BY <1>5 DEF Overlaying!FrameCounts, Overlaying!Dropped, Overlaying!Indices
    <3>2. CASE inFrame.at = "first"
      BY <3>1, <3>2
    <3>3. CASE inFrame.at = "late"
      BY <3>1, <3>3
    <3>4. CASE inFrame.at = "next"
      BY <3>1, <3>4
    <3> QED BY <2>1, <3>2, <3>3, <3>4
  <2>3. inFrame' \in Frames
    BY <1>2, <2>2, OverlaySizes DEF Frames
  <2>4. counted < MaxFrames /\ span <= counted + 2
    BY <1>1, <2>1 DEF SpansSound
  <2>5. OverlayStates'
    <3>1. counted' \in 0 .. MaxFrames
      BY <1>2, <2>1, <2>4, OverlaySizes
    <3> QED BY <1>1, <2>1, <2>3, <3>1 DEF OverlayStates
  <2>6. 0 \in 0 .. (Ring - 1)
    BY OverlaySizes
  <2>7. SpansSound'
    <3>1. span <= counted' + 1 /\ inFrame'.at = a /\ inFrame'.left = l
      BY <1>2, <2>1, <2>2, <2>4
    <3>2. /\ span > 0 /\ (still => since) /\ \A i \in 0 .. (Ring - 1) : ticks[i] <= span
          /\ a # "clear" => \A i \in 0 .. (Ring - 1) : ticks[i] \in {0, span}
      BY <1>1, <2>1, <2>2 DEF SpansSound
    <3>3. /\ span' = span /\ ticks' = ticks /\ still' = still /\ since' = since
          /\ a \notin {"first", "late", "next"}
      BY <2>1, <2>2
    <3> QED BY <2>2, <2>6, <3>1, <3>2, <3>3 DEF SpansSound
  <2> QED BY <1>2, <2>1, <2>5, <2>7, FramesMove
<1>6. CASE Overlaying!FrameKeeps
  <2>1. /\ inFrame.at = "keep" /\ ticks' = [ticks EXCEPT ![inFrame.i] = span]
        /\ inFrame' = [at |-> "out", i |-> 0, left |-> {}]
        /\ UNCHANGED <<salty, wipes, shared, mine, shown, counted, since, still, span, owner, pub>>
    BY <1>6 DEF Overlaying!FrameKeeps, Overlaying!Between
  <2>2. inFrame' \in Frames
    BY <2>1, OverlaySizes DEF Frames
  <2>3. OverlayStates'
    BY <1>1, <1>2, <2>1, <2>2 DEF OverlayStates
  <2>4. SpansSound'
    BY <1>1, <1>2, <2>1 DEF OverlayStates, SpansSound
  <2> QED BY <1>2, <2>1, <2>3, <2>4, FramesMove
<1>7. CASE Overlaying!FrameClears
  <2>1. PICK n \in inFrame.left :
          /\ ticks' = [ticks EXCEPT ![n] = 0]
          /\ inFrame' = IF inFrame.left = {n} THEN [at |-> "out", i |-> 0, left |-> {}]
                        ELSE [inFrame EXCEPT !.left = @ \ {n}]
    BY <1>7 DEF Overlaying!FrameClears, Overlaying!Between
  <2>2. /\ inFrame.at = "clear"
        /\ UNCHANGED <<salty, wipes, shared, mine, shown, counted, since, still, span, owner, pub>>
    BY <1>7 DEF Overlaying!FrameClears
  <2>3. \/ inFrame.left = {n} /\ inFrame' = [at |-> "out", i |-> 0, left |-> {}]
        \/ /\ inFrame.left # {n}
           /\ inFrame' = [at |-> "clear", i |-> inFrame.i, left |-> inFrame.left \ {n}]
    <3>1. inFrame = [at |-> inFrame.at, i |-> inFrame.i, left |-> inFrame.left]
      BY <1>1 DEF OverlayStates, Frames
    <3> QED BY <2>1, <2>2, <3>1
  <2>4. inFrame' \in Frames
    <3>1. inFrame.i \in 0 .. (Ring - 1) /\ inFrame.left \ {n} \in SUBSET (0 .. (Ring - 1))
      BY <1>2 DEF Frames
    <3>2. 0 \in 0 .. (Ring - 1)
      BY OverlaySizes
    <3> QED BY <2>3, <3>1, <3>2 DEF Frames
  <2>5. n \in 0 .. (Ring - 1) /\ ticks' \in [0 .. (Ring - 1) -> Nat]
    BY <1>1, <1>2, <2>1 DEF OverlayStates
  <2>6. OverlayStates'
    BY <1>1, <2>2, <2>4, <2>5 DEF OverlayStates
  <2>7. \A i \in 0 .. (Ring - 1) : ticks'[i] = IF i = n THEN 0 ELSE ticks[i]
    BY <1>1, <2>1 DEF OverlayStates
  <2>8. SpansSound'
    <3>1. /\ \A i \in 0 .. (Ring - 1) : ticks[i] <= span
          /\ \A i \in (0 .. (Ring - 1)) \ inFrame.left : ticks[i] = 0
          /\ span > 0 /\ span <= counted + 1 /\ (still => since)
      BY <1>1, <2>2 DEF SpansSound
    <3>2. \A i \in 0 .. (Ring - 1) : ticks'[i] <= span
      BY <1>2, <2>7, <3>1
    <3>3. CASE inFrame.left = {n}
      <4>1. \A i \in 0 .. (Ring - 1) : ticks'[i] = 0
        BY <2>7, <3>1, <3>3
      <4> QED BY <2>2, <2>3, <3>1, <3>2, <3>3, <4>1 DEF SpansSound
    <3>4. CASE inFrame.left # {n}
      <4>1. inFrame' = [at |-> "clear", i |-> inFrame.i, left |-> inFrame.left \ {n}]
        BY <2>3, <3>4
      <4>2. inFrame'.left # {} /\ \A i \in (0 .. (Ring - 1)) \ inFrame'.left : ticks'[i] = 0
        BY <2>1, <2>7, <3>1, <3>4, <4>1
      <4> QED BY <2>2, <3>1, <3>2, <4>1, <4>2 DEF SpansSound
    <3> QED BY <3>3, <3>4
  <2> QED BY <1>2, <2>2, <2>6, <2>8, FramesMove
<1> QED BY <1>3, <1>4, <1>5, <1>6, <1>7

\* The publisher goes on: where it is, what it read, and what is shown.
LEMMA PublisherMoves ==
  ASSUME OverlayInv, pub' \in Publishers, OwnerSound', PublisherSound',
         shared' \in [mapped : BOOLEAN, marked : BOOLEAN], mine' \in BOOLEAN,
         shown' \in [spans : SUBSET Nat, frames : Nat, active : BOOLEAN],
         UNCHANGED <<salty, wipes, counted, since, still, ticks, span, inFrame, owner>>
  PROVE  OverlayInv'
<1>1. SpansSound'
  BY DEF OverlayInv, SpansSound
<1>2. OverlayStates'
  BY DEF OverlayInv, OverlayStates
<1> QED BY <1>1, <1>2 DEF OverlayInv

\* It goes to another step while the page stays as it is.
LEMMA PublisherSteps ==
  ASSUME OverlayInv, pub' \in Publishers, pub'.frames <= counted,
         pub.at \notin {"none", "last", "gone"}, pub'.at \notin {"none", "gone"},
         pub'.at = "last" <=> (owner = "stopping" /\ pub'.at = "last"),
         pub'.at \in Within => pub.at \in Within \/ (mine /\ shared.mapped),
         pub'.at = "sum" => pub'.i < Ring,
         UNCHANGED <<salty, wipes, shared, mine, counted, since, still, ticks, span, inFrame,
                     owner>>,
         shown' \in [spans : SUBSET Nat, frames : Nat, active : BOOLEAN], shown'.frames <= counted
  PROVE  OverlayInv'
<1>1. OwnerSound'
  BY DEF OverlayInv, OwnerSound
<1>2. PublisherSound'
  BY DEF OverlayInv, PublisherSound
<1>3. /\ shared \in [mapped : BOOLEAN, marked : BOOLEAN] /\ mine \in BOOLEAN
  BY DEF OverlayInv, OverlayStates
<1> QED BY <1>1, <1>2, <1>3, PublisherMoves

\* It is at another step.
LEMMA Elsewhere ==
  ASSUME NEW p \in Publishers, NEW q, NEW a \in Steps, q = [p EXCEPT !.at = a]
  PROVE  q \in Publishers /\ q.at = a /\ q.frames = p.frames /\ q.i = p.i
BY DEF Publishers

\* It is at another step and counts its attempts.
LEMMA ElsewhereTried ==
  ASSUME NEW p \in Publishers, NEW q, NEW a \in Steps, NEW n \in 0 .. (Retry - 1),
         q = [p EXCEPT !.at = a, !.tries = n]
  PROVE  q \in Publishers /\ q.at = a /\ q.frames = p.frames /\ q.i = p.i
BY DEF Publishers

\* It is at another step and has read how many frames there are.
LEMMA ElsewhereRead ==
  ASSUME NEW p \in Publishers, NEW q, NEW a \in Steps, NEW n \in Nat,
         q = [p EXCEPT !.at = a, !.frames = n]
  PROVE  q \in Publishers /\ q.at = a /\ q.frames = n /\ q.i = p.i
BY DEF Publishers

\* The publisher begins a turn: it ends, publishes, or attaches now and then.
LEMMA TurnStep == OverlayInv /\ Overlaying!Loop => OverlayInv'
<1> SUFFICES ASSUME OverlayInv, Overlaying!Loop PROVE OverlayInv'
  OBVIOUS
<1>1. /\ pub.at = "loop" /\ pub \in Publishers
      /\ UNCHANGED <<salty, wipes, counted, since, still, ticks, span, inFrame, owner>>
  BY DEF Overlaying!Loop, Overlaying!world, Overlaying!counted, OverlayInv, OverlayStates
<1>2. /\ pub.frames <= counted /\ shown.frames <= counted
      /\ shown \in [spans : SUBSET Nat, frames : Nat, active : BOOLEAN]
      /\ owner \in {"running", "stopping"}
  BY <1>1 DEF OverlayInv, OverlayStates, PublisherSound, OwnerSound
<1>3. "last" \in Steps /\ "read" \in Steps /\ "look" \in Steps
  BY DEF Steps
<1>4. CASE owner = "stopping"
  <2>1. pub' = [pub EXCEPT !.at = "last"] /\ UNCHANGED <<shared, mine, shown>>
    BY <1>4 DEF Overlaying!Loop, Overlaying!shared
  <2>2. pub' \in Publishers /\ pub'.at = "last" /\ pub'.frames = pub.frames
    BY <1>1, <1>3, <2>1, Elsewhere
  <2> QED BY <1>1, <1>2, <1>4, <2>1, <2>2, PublisherSteps DEF Within
<1>5. CASE owner # "stopping" /\ Overlaying!Live
  <2>1. pub' = [pub EXCEPT !.at = "read"] /\ UNCHANGED <<shared, mine, shown>>
    BY <1>5 DEF Overlaying!Loop, Overlaying!shared
  <2>2. pub' \in Publishers /\ pub'.at = "read" /\ pub'.frames = pub.frames
    BY <1>1, <1>3, <2>1, Elsewhere
  <2>3. mine /\ shared.mapped
    BY <1>2, <1>5 DEF Overlaying!Live, OverlayInv, OwnerSound
  <2> QED BY <1>1, <1>2, <2>1, <2>2, <2>3, PublisherSteps DEF Within
<1>6. CASE owner # "stopping" /\ ~ Overlaying!Live
  <2>1. PICK n \in 0 .. (Retry - 1) : n = (pub.tries + 1) % Retry
    BY OverlayRecords, OverlaySizes
  <2>2. pub' = [pub EXCEPT !.at = "look", !.tries = n]
    BY <1>6, <2>1 DEF Overlaying!Loop
  <2>3. pub' \in Publishers /\ pub'.at = "look" /\ pub'.frames = pub.frames
    BY <1>1, <1>3, <2>2, ElsewhereTried
  <2>4. Overlaying!Attach \/ UNCHANGED <<shared, mine, shown>>
    BY <1>6 DEF Overlaying!Loop, Overlaying!shared
  <2>5. CASE UNCHANGED <<shared, mine, shown>>
    BY <1>1, <1>2, <2>3, <2>5, PublisherSteps DEF Within
  <2>6. CASE Overlaying!Attach
    <3>1. /\ shared' \in [mapped : BOOLEAN, marked : BOOLEAN] /\ mine' \in BOOLEAN
          /\ (shared'.marked => mine') /\ (mine' => shared'.mapped)
          /\ shown' = shown \/ shown' = [spans |-> {}, frames |-> 0, active |-> FALSE]
          /\ shown'.frames <= counted
      BY <1>2, <2>6, AttachGives
    <3>2. shown' \in [spans : SUBSET Nat, frames : Nat, active : BOOLEAN]
      <4>1. [spans |-> {}, frames |-> 0, active |-> FALSE]
              \in [spans : SUBSET Nat, frames : Nat, active : BOOLEAN]
        OBVIOUS
      <4> QED BY <1>2, <3>1, <4>1
    <3>3. OwnerSound'
      BY <1>1, <1>2, <2>3, <3>1 DEF OverlayInv, OwnerSound
    <3>4. PublisherSound'
      BY <1>1, <1>2, <2>3, <3>1 DEF PublisherSound, Within
    <3> QED BY <1>1, <2>3, <3>1, <3>2, <3>3, <3>4, PublisherMoves
  <2> QED BY <2>4, <2>5, <2>6
<1> QED BY <1>4, <1>5, <1>6

\* It begins to sum the durations.
LEMMA TimeRead ==
  ASSUME NEW p \in Publishers, NEW q, NEW b \in BOOLEAN,
         q = [p EXCEPT !.at = "sum", !.recent = b, !.sum = {}, !.i = 0]
  PROVE  q \in Publishers /\ q.at = "sum" /\ q.frames = p.frames /\ q.i = 0
<1>1. PICK r : r = [p EXCEPT !.at = "sum", !.recent = b]
  OBVIOUS
<1>2. r \in Publishers /\ r.at = "sum" /\ r.frames = p.frames
  BY <1>1 DEF Publishers, Steps
<1>3. q = [r EXCEPT !.sum = {}, !.i = 0]
  BY <1>1
<1>4. {} \in SUBSET Nat /\ 0 \in 0 .. Ring
  BY OverlaySizes
<1> QED BY <1>2, <1>3, <1>4 DEF Publishers

\* publish reads the count, the times and every duration.
LEMMA ReadStep ==
  OverlayInv /\ (Overlaying!Look \/ Overlaying!ReadFrames \/ Overlaying!ReadTime \/ Overlaying!Sum
                   \/ Overlaying!Wait) => OverlayInv'
<1> SUFFICES ASSUME OverlayInv PROVE
      (Overlaying!Look \/ Overlaying!ReadFrames \/ Overlaying!ReadTime \/ Overlaying!Sum
         \/ Overlaying!Wait) => OverlayInv'
  OBVIOUS
<1>1. /\ pub \in Publishers /\ pub.frames <= counted /\ shown.frames <= counted /\ counted \in Nat
      /\ shown \in [spans : SUBSET Nat, frames : Nat, active : BOOLEAN]
  BY OverlaySizes DEF OverlayInv, OverlayStates, PublisherSound
<1>2. ASSUME Overlaying!Published
      PROVE  UNCHANGED <<salty, wipes, shared, mine, shown, counted, since, still, ticks, span,
                         inFrame,
                         owner>>
  BY <1>2 DEF Overlaying!Published, Overlaying!world, Overlaying!shared, Overlaying!counted
<1>3. /\ "read" \in Steps /\ "wait" \in Steps /\ "time" \in Steps /\ "sum" \in Steps
      /\ "rate" \in Steps /\ "loop" \in Steps
  BY DEF Steps
<1>4. CASE Overlaying!Look
  <2>1. pub.at = "look" /\ Overlaying!Published
    BY <1>4 DEF Overlaying!Look, Overlaying!PubAt
  <2>2. CASE Overlaying!Live
    <3>1. pub' = [pub EXCEPT !.at = "read"]
      BY <1>4, <2>2 DEF Overlaying!Look, Overlaying!PubAt
    <3>2. pub' \in Publishers /\ pub'.at = "read" /\ pub'.frames = pub.frames
      BY <1>1, <1>3, <3>1, Elsewhere
    <3>3. mine /\ shared.mapped
      BY <2>1, <2>2 DEF Overlaying!Live, OverlayInv, OwnerSound
    <3> QED BY <1>1, <1>2, <2>1, <3>2, <3>3, PublisherSteps DEF Within
  <2>3. CASE ~ Overlaying!Live
    <3>1. pub' = [pub EXCEPT !.at = "wait"]
      BY <1>4, <2>3 DEF Overlaying!Look, Overlaying!PubAt
    <3>2. pub' \in Publishers /\ pub'.at = "wait" /\ pub'.frames = pub.frames
      BY <1>1, <1>3, <3>1, Elsewhere
    <3> QED BY <1>1, <1>2, <2>1, <3>2, PublisherSteps DEF Within
  <2> QED BY <2>2, <2>3
<1>5. CASE Overlaying!ReadFrames
  <2>1. pub.at = "read" /\ Overlaying!Published
    BY <1>5 DEF Overlaying!ReadFrames
  <2>2. PICK n \in Nat : n = counted
    BY <1>1
  <2>3. pub' = [pub EXCEPT !.at = "time", !.frames = n]
    BY <1>5, <2>2 DEF Overlaying!ReadFrames
  <2>4. pub \in Publishers /\ "time" \in Steps
    BY <1>1, <1>3
  <2>5. pub' \in Publishers /\ pub'.at = "time" /\ pub'.frames = n
    BY <2>3, <2>4 DEF Publishers
  <2>6. pub'.frames <= counted
    BY <2>2, <2>5
  <2> QED BY <1>1, <1>2, <2>1, <2>5, <2>6, PublisherSteps DEF Within
<1>6. CASE Overlaying!ReadTime
  <2>1. PICK b \in BOOLEAN : b = (since /\ ~ still)
    OBVIOUS
  <2>2. /\ pub.at = "time" /\ Overlaying!Published
        /\ pub' = [pub EXCEPT !.at = "sum", !.recent = b, !.sum = {}, !.i = 0]
    BY <1>6, <2>1 DEF Overlaying!ReadTime
  <2>3. pub' \in Publishers /\ pub'.at = "sum" /\ pub'.frames = pub.frames /\ pub'.i = 0
    BY <1>1, <1>3, <2>2, TimeRead
  <2> QED BY <1>1, <1>2, <2>2, <2>3, OverlaySizes, PublisherSteps DEF Within
<1>7. CASE Overlaying!Sum
  <2>1. pub.at = "sum" /\ Overlaying!Published
    BY <1>7 DEF Overlaying!Sum
  <2>2. pub.i \in 0 .. (Ring - 1)
    <3>1. pub.i \in 0 .. Ring /\ pub.i < Ring
      BY <1>1, <2>1 DEF OverlayInv, PublisherSound, Publishers
    <3>2. Ring \in Nat
      BY OverlaySizes
    <3> QED BY ONLY <3>1, <3>2
  <2>3. ticks[pub.i] \in Nat /\ pub.sum \in SUBSET Nat
    BY <1>1, <2>2 DEF OverlayInv, OverlayStates, Publishers
  <2>4. PICK s \in SUBSET Nat : s = pub.sum \cup ({ticks[pub.i]} \ {0})
    BY <2>3
  <2>5. PICK a \in {"rate", "sum"} : a = (IF pub.i + 1 = Ring THEN "rate" ELSE "sum")
    OBVIOUS
  <2>6. pub' = [pub EXCEPT !.sum = s, !.i = pub.i + 1, !.at = a]
    BY <1>7, <2>4, <2>5 DEF Overlaying!Sum
  <2>7. pub' \in Publishers /\ pub'.at = a /\ pub'.frames = pub.frames /\ pub'.i = pub.i + 1
    <3>1. a \in Steps
      BY DEF Steps
    <3>2. pub \in Publishers
      BY <1>1
    <3>3. pub.i + 1 \in 0 .. Ring
      <4>1. Ring \in Nat
        BY OverlaySizes
      <4> QED BY ONLY <2>2, <4>1
    <3>4. PICK r : r = [pub EXCEPT !.sum = s, !.i = pub.i + 1]
      OBVIOUS
    <3>5. r \in Publishers /\ r.i = pub.i + 1 /\ r.frames = pub.frames
      BY <3>2, <3>3, <3>4 DEF Publishers
    <3>6. pub' = [r EXCEPT !.at = a]
      BY <2>6, <3>4
    <3> QED BY <3>1, <3>5, <3>6 DEF Publishers
  <2>8. pub'.at = "sum" => pub'.i < Ring
    <3>1. a = "sum" => pub.i + 1 # Ring
      BY <2>5
    <3>2. PICK k \in 0 .. (Ring - 1) : k = pub.i
      BY <2>2
    <3>3. k + 1 # Ring => k + 1 < Ring
      BY OverlaySizes
    <3> QED BY <2>7, <3>1, <3>2, <3>3
  <2> QED BY <1>1, <1>2, <2>1, <2>7, <2>8, PublisherSteps DEF Within
<1>8. CASE Overlaying!Wait
  <2>1. pub.at = "wait" /\ pub' = [pub EXCEPT !.at = "loop"] /\ Overlaying!Published
    BY <1>8 DEF Overlaying!Wait, Overlaying!PubAt
  <2>2. pub' \in Publishers /\ pub'.at = "loop" /\ pub'.frames = pub.frames
    BY <1>1, <1>3, <2>1, Elsewhere
  <2> QED BY <1>1, <1>2, <2>1, <2>2, PublisherSteps DEF Within
<1> QED BY <1>4, <1>5, <1>6, <1>7, <1>8

\* publish writes the block, and the last turn clears it.
LEMMA WriteStep ==
  OverlayInv /\ (Overlaying!ShowRate \/ Overlaying!ShowFrames \/ Overlaying!Last) => OverlayInv'
<1> SUFFICES ASSUME OverlayInv PROVE
      (Overlaying!ShowRate \/ Overlaying!ShowFrames \/ Overlaying!Last) => OverlayInv'
  OBVIOUS
<1>1. /\ pub \in Publishers /\ pub.frames <= counted /\ shown.frames <= counted /\ counted \in Nat
      /\ shown \in [spans : SUBSET Nat, frames : Nat, active : BOOLEAN]
      /\ shared \in [mapped : BOOLEAN, marked : BOOLEAN] /\ mine \in BOOLEAN
  BY OverlaySizes DEF OverlayInv, OverlayStates, PublisherSound
<1>2. {"show", "wait", "gone"} \subseteq Steps
  BY DEF Steps
<1> USE DEF Overlaying!PubAt, Overlaying!world, Overlaying!counted
<1>3. CASE Overlaying!ShowRate
  <2>1. PICK s \in SUBSET Nat : s = IF pub.recent THEN pub.sum ELSE {}
    BY <1>1 DEF Publishers
  <2>2. /\ pub.at = "rate" /\ pub' = [pub EXCEPT !.at = "show"]
        /\ shown' = [shown EXCEPT !.spans = s]
        /\ UNCHANGED <<salty, wipes, shared, mine, counted, since, still, ticks, span, inFrame,
                       owner>>
    BY <1>3, <2>1 DEF Overlaying!ShowRate
  <2>3. pub' \in Publishers /\ pub'.at = "show" /\ pub'.frames = pub.frames
    BY <1>1, <1>2, <2>2, Elsewhere
  <2>4. /\ shown' \in [spans : SUBSET Nat, frames : Nat, active : BOOLEAN]
        /\ shown'.frames = shown.frames
    BY <1>1, <2>1, <2>2
  <2> QED BY <1>1, <2>2, <2>3, <2>4, PublisherSteps DEF Within
<1>4. CASE Overlaying!ShowFrames
  <2>1. PICK b \in BOOLEAN : b = (pub.frames # 0)
    OBVIOUS
  <2>2. /\ pub.at = "show" /\ pub' = [pub EXCEPT !.at = "wait"]
        /\ shown' = [shown EXCEPT !.frames = pub.frames, !.active = b]
        /\ UNCHANGED <<salty, wipes, shared, mine, counted, since, still, ticks, span, inFrame,
                       owner>>
    BY <1>4, <2>1 DEF Overlaying!ShowFrames
  <2>3. pub' \in Publishers /\ pub'.at = "wait" /\ pub'.frames = pub.frames /\ pub.frames \in Nat
    <3>1. pub' \in Publishers /\ pub'.at = "wait" /\ pub'.frames = pub.frames
      BY <1>1, <1>2, <2>2, Elsewhere
    <3> QED BY <1>1, <3>1 DEF Publishers
  <2>4. /\ shown' \in [spans : SUBSET Nat, frames : Nat, active : BOOLEAN]
        /\ shown'.frames = pub.frames
    BY <1>1, <2>1, <2>2, <2>3
  <2> QED BY <1>1, <2>2, <2>3, <2>4, PublisherSteps DEF Within
<1>5. CASE Overlaying!Last
  <2>1. /\ pub.at = "last" /\ pub' = [pub EXCEPT !.at = "gone"]
        /\ UNCHANGED <<salty, wipes, shared, mine, counted, since, still, ticks, span, inFrame,
                       owner>>
    BY <1>5 DEF Overlaying!Last
  <2>2. pub' \in Publishers /\ pub'.at = "gone" /\ pub'.frames = pub.frames
    BY <1>1, <1>2, <2>1, Elsewhere
  <2>3. owner = "stopping" /\ (shared.marked => Overlaying!Live)
    BY <2>1 DEF OverlayInv, OverlayStates, OwnerSound, Overlaying!Live
  <2>4. shown' = (IF Overlaying!Live THEN [shown EXCEPT !.spans = {}, !.active = FALSE] ELSE shown)
    BY <1>5 DEF Overlaying!Last, Overlaying!Goodbye
  <2>5. /\ shown' \in [spans : SUBSET Nat, frames : Nat, active : BOOLEAN]
        /\ shown'.frames = shown.frames
        /\ shared.marked => shown'.spans = {} /\ ~ shown'.active
    <3>1. CASE Overlaying!Live
      <4>1. shown' = [shown EXCEPT !.spans = {}, !.active = FALSE]
        BY <2>4, <3>1
      <4> QED BY <1>1, <4>1
    <3>2. CASE ~ Overlaying!Live
      BY <1>1, <2>3, <2>4, <3>2
    <3> QED BY <3>1, <3>2
  <2>6. OwnerSound'
    BY <2>1, <2>2, <2>3 DEF OverlayInv, OwnerSound
  <2>7. PublisherSound'
    BY <1>1, <2>1, <2>2, <2>5 DEF PublisherSound, Within
  <2> QED BY <1>1, <2>1, <2>2, <2>5, <2>6, <2>7, PublisherMoves
<1> QED BY <1>3, <1>4, <1>5

\* Every step of the overlay keeps the invariant.
LEMMA OverlayStep == OverlayInv /\ [Overlaying!Next]_overlayingVars => OverlayInv'
<1>1. OverlayInv /\ UNCHANGED overlayingVars => OverlayInv'
  <2> SUFFICES ASSUME OverlayInv, UNCHANGED overlayingVars PROVE OverlayInv'
    OBVIOUS
  <2>1. OverlayStates'
    BY DEF overlayingVars, OverlayInv, OverlayStates
  <2>2. SpansSound' /\ OwnerSound' /\ PublisherSound'
    BY DEF overlayingVars, OverlayInv, SpansSound, OwnerSound, PublisherSound
  <2> QED BY <2>1, <2>2 DEF OverlayInv
<1> QED BY <1>1, SaltyStep, OwnerStep, FramesStep, TurnStep, ReadStep, WriteStep DEF Overlaying!Next

\* What the run checks of it follows.
LEMMA OverlayFollows == OverlayInv => Overlaying!TypeOK /\ Overlaying!OverlayHonest
<1> SUFFICES ASSUME OverlayInv PROVE Overlaying!TypeOK /\ Overlaying!OverlayHonest
  OBVIOUS
<1>1. OverlayStates /\ SpansSound /\ OwnerSound /\ PublisherSound
  BY DEF OverlayInv
<1>2. ticks \in [0 .. (Ring - 1) -> 0 .. (MaxFrames + 1)]
  <2>1. span \in Nat /\ span <= MaxFrames + 1
    <3>1. span \in Nat /\ ((span <= counted + 2 /\ counted < MaxFrames) \/ span <= counted + 1)
      BY <1>1 DEF OverlayStates, SpansSound
    <3> QED BY <3>1, OverlayRecords, OverlaySizes
  <2>2. \A i \in 0 .. (Ring - 1) : ticks[i] \in Nat /\ ticks[i] <= span
    BY <1>1 DEF OverlayStates, SpansSound
  <2>3. ASSUME NEW i \in 0 .. (Ring - 1) PROVE ticks[i] \in 0 .. (MaxFrames + 1)
    <3>1. PICK n \in Nat : n = ticks[i] /\ n <= span
      BY <2>2
    <3>2. PICK m \in Nat : m = span /\ m <= MaxFrames + 1
      BY <2>1
    <3>3. n <= MaxFrames + 1
      <4>1. n <= m /\ m <= MaxFrames + 1
        BY <3>1, <3>2
      <4>2. MaxFrames \in Nat
        BY OverlaySizes
      <4> QED BY <4>1, <4>2
    <3>4. n \in 0 .. (MaxFrames + 1)
      BY <3>3, OverlaySizes
    <3> QED BY <3>1, <3>4
  <2> QED BY <1>1, <2>3 DEF OverlayStates
<1>3. Overlaying!TypeOK
  BY <1>1, <1>2 DEF OverlayStates, Frames, Publishers, Overlaying!TypeOK, Overlaying!Indices
<1>4. Overlaying!OverlayHonest
  BY <1>1 DEF SpansSound, OwnerSound, PublisherSound, Within, Overlaying!OverlayHonest,
              Overlaying!Indices
<1> QED BY <1>3, <1>4

-----------------------------------------------------------------------------
(* The loader (Loader).                                                    *)

Mods == Loading!Mods
LoadSteps == {"load", "relr", "map", "permit", "init", "run", "fatal"}
Images == [first : Nat, size : Nat, code : SUBSET Nat, view : {"none", "source", "mapped"},
           file : BOOLEAN]

\* How many modules so_list has by now, and of how many the imports are bound.
Listed == CASE at.step \in {"load", "fatal"} -> at.i - 1
            [] at.step = "relr" -> at.i
            [] OTHER -> Len(Modules)
Bound == IF at.step \in {"load", "fatal", "relr"} THEN at.i - 1 ELSE Len(Modules)

LoadStates ==
  /\ at \in [step : LoadSteps, i : 1 .. Len(Modules)]
  /\ list \in Seq(Mods) /\ Len(list) = Listed
  /\ \A i \in 1 .. Listed : list[i] = Modules[i]
  /\ mod \in [Mods -> Images] /\ DOMAIN slot = Mods /\ DOMAIN page = Mods

\* What an import of the i-th module means: the shim of its name, or the first of the
\* modules before it that exports it.
Definers(i, s) == { j \in 1 .. (i - 1) : s \in Defines[Modules[j]] }
Meaning(i, s) == IF s \in Shims THEN "shim"
                 ELSE IF Definers(i, s) = {} THEN "poison"
                 ELSE Modules[Loading!Min(Definers(i, s))]
SlotsBound ==
  /\ \A m \in Mods : \A s \in Imports[m] : slot[m][s] \in Mods \cup {None, "shim", "poison"}
  /\ \A i \in 1 .. Bound : \A s \in Imports[Modules[i]] : slot[Modules[i]][s] = Meaning(i, s)

\* The images follow each other in the order they are listed.
ImageEnd(i) == mod[Modules[i]].first + mod[Modules[i]].size
ImagesApart ==
  /\ \A i, j \in 1 .. Listed : i < j => ImageEnd(i) <= mod[Modules[j]].first
  /\ \A i \in 1 .. Listed : ImageEnd(i) <= Zone

\* What a pass of so_finalize has been over has its permission, and no other page.
Permitted(i) == at.step \in {"init", "run"} \/ (at.step \in {"map", "permit"} /\ i < at.i)
PageOfPass(m, p) ==
  IF p \in mod[m].code
  THEN IF pass.pass = "w" \/ p < pass.pg THEN "rx" ELSE "code"
  ELSE IF pass.pass = "w" /\ p < pass.pg THEN "rw" ELSE "code"
PagesPermitted ==
  /\ pass \in [pass : {"x", "w"}, pg : Nat]
  /\ \A i \in 1 .. Len(Modules) : Permitted(i) =>
       /\ mod[Modules[i]].view = "mapped"
       /\ \A p \in 0 .. (mod[Modules[i]].size - 1) :
            page[Modules[i]][p] = IF p \in mod[Modules[i]].code THEN "rx" ELSE "rw"
  /\ at.step = "permit" =>
       /\ pass.pg <= mod[Modules[at.i]].size
       /\ \A p \in 0 .. (mod[Modules[at.i]].size - 1) :
            page[Modules[at.i]][p] = PageOfPass(Modules[at.i], p)

\* Constructors run in order, while the copies of the files are there.
RanInOrder ==
  /\ ran \in Seq([m : Mods, file : BOOLEAN])
  /\ Len(ran) = (CASE at.step = "init" -> at.i - 1 [] at.step = "run" -> Len(Modules)
                   [] OTHER -> 0)
  /\ \A i \in 1 .. Len(ran) : ran[i].m = Modules[i] /\ ran[i].file
  /\ at.step # "run" => \A i \in 1 .. Listed : mod[Modules[i]].file

\* The bitmaps since an address count from where it left; every entry behind has
\* relocated the words it names.
Behind == relr.i - 1
Since(a) == /\ a \in 1 .. Behind /\ relr.table[a].kind = "address"
            /\ \A j \in (a + 1) .. Behind : relr.table[j].kind = "bitmap"
            /\ relr.where = relr.table[a].at + 1 + Bits * (Behind - a)
Named(w) == { i \in 1 .. Behind : Loading!Names(relr.table, i, w) }
RelrSound ==
  at.step = "relr" =>
    /\ relr.table \in Tables /\ relr.i \in 1 .. (Len(relr.table) + 1)
    /\ relr = [table |-> relr.table, i |-> relr.i, where |-> relr.where, hits |-> relr.hits]
    /\ Behind > 0 => \E a \in 1 .. Behind : Since(a)
    /\ relr.hits \in [0 .. (2 * Bits) -> Nat]
    /\ \A w \in 0 .. (2 * Bits) : relr.hits[w] = Cardinality(Named(w))

LoadInv ==
  LoadStates /\ SlotsBound /\ ImagesApart /\ PagesPermitted /\ RanInOrder /\ RelrSound

\* What the modules and the sizes of the loader are.
LEMMA LoadSizes ==
  /\ Modules \in Seq(Mods) /\ Len(Modules) \in Nat \ {0} /\ DOMAIN Modules = 1 .. Len(Modules)
  /\ \A i \in 1 .. Len(Modules) : Modules[i] \in Mods
  /\ \A i, j \in 1 .. Len(Modules) : Modules[i] = Modules[j] => i = j
  /\ \A m \in Mods : \E i \in 1 .. Len(Modules) : m = Modules[i]
  /\ {None, "shim", "stub"} \cap Mods = {} /\ None \notin {"shim", "stub"}
  /\ ModuleSizes \subseteq Nat /\ Zone \in Nat /\ Bits \in Nat
<1>1. Loading!LoaderAssumption
  BY LoadingAssumption
<1>2. Modules \in Seq(Mods) /\ Modules # <<>>
  BY <1>1 DEF Loading!LoaderAssumption, Mods
<1>3. Len(Modules) \in Nat \ {0} /\ DOMAIN Modules = 1 .. Len(Modules)
      /\ \A i \in 1 .. Len(Modules) : Modules[i] \in Mods
  BY <1>2
<1>4. \A m \in Mods : \E i \in 1 .. Len(Modules) : m = Modules[i]
  BY <1>3 DEF Mods, Loading!Mods, Loading!ToSet
<1> QED BY <1>1, <1>2, <1>3, <1>4 DEF Loading!LoaderAssumption, Mods

\* The least of a set of places.
LEMMA LeastPlace ==
  ASSUME NEW S, S \subseteq Nat, S # {}
  PROVE  Loading!Min(S) \in S /\ \A y \in S : Loading!Min(S) <= y
BY MinIsLeast DEF Min, Loading!Min

\* If a set has no less than the other, but the least, they have the same least.
LEMMA SameLeast ==
  ASSUME NEW S, NEW T, T \subseteq Nat, S \subseteq T, S # {},
         NEW k \in Nat, \A x \in S : x < k, \A x \in T : x < k => x \in S
  PROVE  Loading!Min(S) = Loading!Min(T)
<1>1. S \subseteq Nat /\ T # {}
  OBVIOUS
<1>2. PICK a \in S : a = Loading!Min(S) /\ \A y \in S : a <= y
  BY <1>1, LeastPlace
<1>3. PICK b \in T : b = Loading!Min(T) /\ \A y \in T : b <= y
  BY <1>1, LeastPlace
<1>4. a \in Nat /\ b \in Nat /\ a < k /\ b <= a
  BY <1>1, <1>2, <1>3
<1>5. b \in S
  BY <1>3, <1>4
<1>6. a <= b
  BY <1>2, <1>5
<1> QED BY <1>2, <1>3, <1>4, <1>6

\* The loader as it begins.
LEMMA LoadInit == Loading!Init => LoadInv
<1> SUFFICES ASSUME Loading!Init PROVE LoadInv
  OBVIOUS
<1>1. /\ at = [step |-> "load", i |-> 1] /\ list = <<>> /\ ran = <<>>
      /\ mod = [m \in Mods |-> [first |-> 0, size |-> 0, code |-> {}, view |-> "none",
                                file |-> FALSE]]
      /\ slot = [m \in Mods |-> [s \in Imports[m] |-> None]] /\ page = [m \in Mods |-> <<>>]
      /\ pass = [pass |-> "x", pg |-> 0]
  BY DEF Loading!Init, Loading!At, Loading!NoModule, Mods
<1>2. Len(Modules) \in Nat \ {0}
  BY LoadSizes
<1>3. at.step = "load" /\ at.i = 1 /\ Listed = 0 /\ Bound = 0 /\ 1 .. 0 = {}
  BY <1>1 DEF Listed, Bound
<1>4. mod \in [Mods -> Images]
  <2>1. [first |-> 0, size |-> 0, code |-> {}, view |-> "none", file |-> FALSE] \in Images
    BY DEF Images
  <2> QED BY <1>1, <2>1
<1>5. LoadStates
  BY <1>1, <1>2, <1>3, <1>4 DEF LoadStates, LoadSteps
<1>6. SlotsBound
  BY <1>1, <1>3 DEF SlotsBound
<1>7. ImagesApart
  BY <1>3 DEF ImagesApart
<1>8. PagesPermitted
  BY <1>1, <1>3 DEF PagesPermitted, Permitted
<1>9. RanInOrder
  BY <1>1, <1>3 DEF RanInOrder
<1>10. RelrSound
  BY <1>3 DEF RelrSound
<1> QED BY <1>5, <1>6, <1>7, <1>8, <1>9, <1>10 DEF LoadInv

\* so_load puts an image behind the last.
LEMMA SoLoadStep == LoadInv /\ Loading!SoLoad => LoadInv'
<1> SUFFICES ASSUME LoadInv, Loading!SoLoad PROVE LoadInv'
  OBVIOUS
<1>1. /\ at \in [step : LoadSteps, i : 1 .. Len(Modules)] /\ at.step = "load"
      /\ list \in Seq(Mods) /\ Len(list) = at.i - 1
      /\ \A i \in 1 .. (at.i - 1) : list[i] = Modules[i]
      /\ mod \in [Mods -> Images] /\ DOMAIN slot = Mods /\ DOMAIN page = Mods
  BY DEF Loading!SoLoad, LoadInv, LoadStates, Listed
<1>2. PICK k \in 1 .. Len(Modules) : k = at.i
  BY <1>1
<1>3. PICK m \in Mods : m = Modules[k]
  <2>1. Modules[k] \in Mods
    BY LoadSizes
  <2> QED BY <2>1
<1>4. PICK n \in ModuleSizes : \E code \in SUBSET (0 .. (n - 1)), table \in Tables :
        /\ Loading!Fits(n)
        /\ mod' = [mod EXCEPT ![m] = [first |-> Loading!ZoneBase, size |-> n, code |-> code,
                                      view |-> "source", file |-> TRUE]]
        /\ page' = [page EXCEPT ![m] = [p \in 0 .. (n - 1) |-> "source"]]
        /\ relr' = [table |-> table, i |-> 1, where |-> 0,
                    hits |-> [w \in 0 .. (2 * Bits) |-> 0]]
  BY <1>2, <1>3 DEF Loading!SoLoad, Loading!M
<1>5. PICK code \in SUBSET (0 .. (n - 1)), table \in Tables :
        /\ Loading!Fits(n)
        /\ mod' = [mod EXCEPT ![m] = [first |-> Loading!ZoneBase, size |-> n, code |-> code,
                                      view |-> "source", file |-> TRUE]]
        /\ page' = [page EXCEPT ![m] = [p \in 0 .. (n - 1) |-> "source"]]
        /\ relr' = [table |-> table, i |-> 1, where |-> 0,
                    hits |-> [w \in 0 .. (2 * Bits) |-> 0]]
  BY <1>4
<1>6. /\ list' = Append(list, m) /\ at' = [step |-> "relr", i |-> k]
      /\ UNCHANGED <<slot, pass, ran>>
  BY <1>2, <1>3 DEF Loading!SoLoad, Loading!At, Loading!M
<1>7. /\ at'.step = "relr" /\ at'.i = k
      /\ Listed = k - 1 /\ Listed' = k /\ Bound' = k - 1 /\ Bound = k - 1
  BY <1>1, <1>2, <1>6 DEF Listed, Bound
<1>8. n \in Nat /\ code \in SUBSET Nat /\ Len(Modules) \in Nat \ {0} /\ k \in Nat
  <2>1. ModuleSizes \subseteq Nat /\ Len(Modules) \in Nat \ {0}
    BY LoadSizes
  <2>2. n \in Nat /\ k \in Nat
    BY <2>1
  <2> QED BY <2>1, <2>2
<1>9. PICK z \in Nat : /\ z = Loading!ZoneBase /\ z + n <= Zone
                       /\ \A i \in 1 .. (k - 1) : ImageEnd(i) <= z
  <2>1. Loading!ZoneBase \in Nat /\ \A i \in 1 .. (k - 1) : ImageEnd(i) <= Loading!ZoneBase
    <3>1. CASE k = 1
      <4>1. list = <<>> /\ 1 .. (k - 1) = {}
        BY <1>1, <1>2, <3>1
      <4> QED BY <4>1 DEF Loading!ZoneBase
    <3>2. CASE k > 1
      <4>1. k - 1 \in 1 .. (k - 1) /\ list # <<>> /\ Loading!Last(list) = Modules[k - 1]
        BY <1>1, <1>2, <1>8, <3>2 DEF Loading!Last
      <4>2. Loading!ZoneBase = ImageEnd(k - 1)
        BY <4>1 DEF Loading!ZoneBase, ImageEnd
      <4>3. \A i \in 1 .. (k - 1) : mod[Modules[i]].first \in Nat /\ mod[Modules[i]].size \in Nat
        <5> TAKE i \in 1 .. (k - 1)
        <5>1. Modules[i] \in Mods
          BY <1>8, LoadSizes
        <5> QED BY <1>1, <5>1 DEF Images
      <4>4. \A i \in 1 .. (k - 1) : i < k - 1 => ImageEnd(i) <= mod[Modules[k - 1]].first
        BY <1>7, <4>1 DEF LoadInv, ImagesApart
      <4>5. \A i \in 1 .. (k - 1) : ImageEnd(i) <= ImageEnd(k - 1)
        <5> TAKE i \in 1 .. (k - 1)
        <5>1. CASE i = k - 1
          BY <4>3, <5>1 DEF ImageEnd
        <5>2. CASE i < k - 1
          <6>1. ImageEnd(i) <= mod[Modules[k - 1]].first
            BY <4>4, <5>2
          <6>2. PICK e \in Nat : e = ImageEnd(i)
            BY <4>3 DEF ImageEnd
          <6>3. PICK f \in Nat : f = mod[Modules[k - 1]].first
            BY <4>1, <4>3
          <6>4. PICK g \in Nat : g = mod[Modules[k - 1]].size
            BY <4>1, <4>3
          <6>5. ImageEnd(k - 1) = f + g
            BY <6>3, <6>4 DEF ImageEnd
          <6> QED BY <6>1, <6>2, <6>3, <6>5
        <5> QED BY <1>8, <5>1, <5>2
      <4>6. ImageEnd(k - 1) \in Nat
        BY <4>1, <4>3 DEF ImageEnd
      <4> QED BY <4>2, <4>5, <4>6
    <3> QED BY <1>8, <3>1, <3>2
  <2>2. PICK y \in Nat : y = Loading!ZoneBase
    BY <2>1
  <2>3. n <= Zone - y
    BY <1>5, <2>2 DEF Loading!Fits, Loading!ZoneLeft
  <2>4. y + n <= Zone
    BY <1>8, <2>3, LoadSizes
  <2> QED BY <2>1, <2>2, <2>4
<1>10. /\ mod'[m] = [first |-> z, size |-> n, code |-> code, view |-> "source", file |-> TRUE]
       /\ \A q \in Mods \ {m} : mod'[q] = mod[q] /\ page'[q] = page[q]
       /\ page'[m] = [p \in 0 .. (n - 1) |-> "source"]
  BY <1>1, <1>5, <1>9
<1>11. \A i \in 1 .. Len(Modules) : i # k => Modules[i] \in Mods \ {m}
  BY <1>3, LoadSizes
<1>12. LoadStates'
  <2>1. mod' \in [Mods -> Images]
    <3>1. [first |-> z, size |-> n, code |-> code, view |-> "source", file |-> TRUE] \in Images
      BY <1>8 DEF Images
    <3> QED BY <1>1, <1>5, <1>9, <3>1
  <2>2. at' \in [step : LoadSteps, i : 1 .. Len(Modules)]
    BY <1>6 DEF LoadSteps
  <2>3. list' \in Seq(Mods) /\ Len(list') = k
    BY <1>1, <1>2, <1>6
  <2>4. \A i \in 1 .. k : list'[i] = Modules[i]
    BY <1>1, <1>2, <1>3, <1>6, <1>8
  <2>5. DOMAIN slot' = Mods /\ DOMAIN page' = Mods
    BY <1>1, <1>5, <1>6
  <2> QED BY <1>7, <2>1, <2>2, <2>3, <2>4, <2>5 DEF LoadStates
<1>13. SlotsBound'
  BY <1>6, <1>7 DEF LoadInv, SlotsBound, Meaning, Definers
<1>14. ImagesApart'
  <2>1. /\ ImageEnd(k)' = z + n /\ mod'[Modules[k]].first = z
        /\ \A i \in 1 .. (k - 1) : /\ ImageEnd(i)' = ImageEnd(i)
                                   /\ mod'[Modules[i]].first = mod[Modules[i]].first
    BY <1>3, <1>8, <1>10, <1>11 DEF ImageEnd
  <2>2. /\ \A i, j \in 1 .. (k - 1) : i < j => ImageEnd(i) <= mod[Modules[j]].first
        /\ \A i \in 1 .. (k - 1) : ImageEnd(i) <= Zone
    BY <1>7 DEF LoadInv, ImagesApart
  <2>3. \A i, j \in 1 .. k : i < j => ImageEnd(i)' <= mod'[Modules[j]].first
    <3> TAKE i, j \in 1 .. k
    <3> HAVE i < j
    <3>1. i \in 1 .. (k - 1)
      BY <1>8
    <3>2. CASE j = k
      BY <1>9, <2>1, <3>1, <3>2
    <3>3. CASE j # k
      <4>1. j \in 1 .. (k - 1)
        BY <1>8, <3>3
      <4> QED BY <2>1, <2>2, <3>1, <4>1
    <3> QED BY <3>2, <3>3
  <2>4. \A i \in 1 .. k : ImageEnd(i)' <= Zone
    <3> TAKE i \in 1 .. k
    <3>1. CASE i = k
      BY <1>9, <2>1, <3>1
    <3>2. CASE i # k
      <4>1. i \in 1 .. (k - 1)
        BY <1>8, <3>2
      <4> QED BY <2>1, <2>2, <4>1
    <3> QED BY <3>1, <3>2
  <2> QED BY <1>7, <2>3, <2>4 DEF ImagesApart
<1>15. PagesPermitted'
  BY <1>6, <1>7 DEF LoadInv, PagesPermitted, Permitted
<1>16. RanInOrder'
  <2>1. \A i \in 1 .. k : mod'[Modules[i]].file
    <3> TAKE i \in 1 .. k
    <3>1. CASE i = k
      BY <1>3, <1>10, <3>1
    <3>2. CASE i # k
      <4>1. i \in 1 .. (k - 1) /\ i \in 1 .. Len(Modules)
        BY <1>8, <3>2
      <4>2. mod[Modules[i]].file
        BY <1>1, <1>7, <4>1 DEF LoadInv, RanInOrder
      <4> QED BY <1>10, <1>11, <3>2, <4>1, <4>2
    <3> QED BY <3>1, <3>2
  <2> QED BY <1>1, <1>6, <1>7, <2>1 DEF LoadInv, RanInOrder
<1>17. RelrSound'
  <2>1. /\ relr'.table = table /\ relr'.i = 1 /\ relr'.hits = [w \in 0 .. (2 * Bits) |-> 0]
        /\ relr' = [table |-> relr'.table, i |-> relr'.i, where |-> relr'.where,
                    hits |-> relr'.hits]
    BY <1>5
  <2>2. Len(table) \in Nat
    BY LoadingAssumption DEF Loading!RelrAssumption
  <2>3. Behind' = 0 /\ \A w \in 0 .. (2 * Bits) : Named(w)' = {}
    BY <2>1 DEF Behind, Named
  <2>4. relr'.hits \in [0 .. (2 * Bits) -> Nat]
    BY <2>1
  <2>5. \A w \in 0 .. (2 * Bits) : relr'.hits[w] = Cardinality(Named(w)')
    BY <2>1, <2>3, FS_EmptySet
  <2>6. relr'.table \in Tables /\ relr'.i \in 1 .. (Len(relr'.table) + 1)
    BY <2>1, <2>2
  <2>7. ~ (Behind' > 0)
    BY <2>3
  <2> QED BY <2>1, <2>4, <2>5, <2>6, <2>7 DEF RelrSound
<1> QED BY <1>12, <1>13, <1>14, <1>15, <1>16, <1>17 DEF LoadInv

\* A module that cannot be loaded ends the program.
LEMMA LoadFailsStep == LoadInv /\ Loading!LoadFails => LoadInv'
<1> SUFFICES ASSUME LoadInv, Loading!LoadFails PROVE LoadInv'
  OBVIOUS
<1>1. /\ at.step = "load" /\ at' = [step |-> "fatal", i |-> at.i] /\ at.i \in 1 .. Len(Modules)
      /\ UNCHANGED <<list, mod, slot, page, pass, relr, ran>>
  BY DEF Loading!LoadFails, Loading!At, LoadInv, LoadStates
<1>2. at'.step = "fatal" /\ at'.i = at.i /\ Listed' = Listed /\ Bound' = Bound
  BY <1>1 DEF Listed, Bound
<1>3. LoadStates'
  BY <1>1, <1>2 DEF LoadInv, LoadStates, LoadSteps
<1>4. SlotsBound'
  BY <1>1, <1>2 DEF LoadInv, SlotsBound, Meaning, Definers
<1>5. ImagesApart'
  BY <1>1, <1>2 DEF LoadInv, ImagesApart, ImageEnd
<1>6. PagesPermitted'
  BY <1>1, <1>2 DEF LoadInv, PagesPermitted, Permitted
<1>7. RanInOrder'
  BY <1>1, <1>2 DEF LoadInv, RanInOrder
<1>8. RelrSound'
  BY <1>2 DEF RelrSound
<1> QED BY <1>3, <1>4, <1>5, <1>6, <1>7, <1>8 DEF LoadInv

\* so_process_relr moves in the table and in the image only.
LEMMA RelrMoves ==
  ASSUME LoadInv, at.step = "relr", RelrSound', UNCHANGED <<at, list, mod, slot, page, pass, ran>>
  PROVE  LoadInv'
<1>1. Listed' = Listed /\ Bound' = Bound
  BY DEF Listed, Bound
<1>2. LoadStates'
  BY <1>1 DEF LoadInv, LoadStates
<1>3. SlotsBound'
  BY <1>1 DEF LoadInv, SlotsBound, Meaning, Definers
<1>4. ImagesApart'
  BY <1>1 DEF LoadInv, ImagesApart, ImageEnd
<1>5. PagesPermitted' /\ RanInOrder'
  BY <1>1 DEF LoadInv, PagesPermitted, Permitted, RanInOrder
<1> QED BY <1>2, <1>3, <1>4, <1>5 DEF LoadInv

\* What the entry it is at is, and the tables are.
LEMMA RelrEntry ==
  ASSUME LoadInv, at.step = "relr", relr.i <= Len(relr.table)
  PROVE  /\ relr.table \in Tables /\ Len(relr.table) \in Nat /\ relr.i \in 1 .. Len(relr.table)
         /\ Behind \in Nat /\ relr.i = Behind + 1
         /\ relr.table[1].kind = "address"
         /\ \A i \in 1 .. Len(relr.table) :
              IF relr.table[i].kind = "address" THEN relr.table[i].at \in Nat
              ELSE relr.table[i].kind = "bitmap" /\ relr.table[i].bits \subseteq 1 .. Bits
<1>1. relr.table \in Tables /\ relr.i \in 1 .. (Len(relr.table) + 1)
  BY DEF LoadInv, RelrSound
<1>2. PICK t \in Tables : t = relr.table
  BY <1>1
<1>3. /\ t \in Seq(Loading!ToSet(t)) /\ (t # <<>> => t[1].kind = "address")
      /\ \A i \in DOMAIN t : IF t[i].kind = "address" THEN t[i].at \in Nat
                             ELSE t[i].kind = "bitmap" /\ t[i].bits \subseteq 1 .. Bits
  BY LoadingAssumption DEF Loading!RelrAssumption
<1>4. DOMAIN t = 1 .. Len(t) /\ Len(t) \in Nat
  BY <1>3
<1>5. relr.i \in 1 .. Len(t) /\ t # <<>>
  BY <1>1, <1>2, <1>4
<1> QED BY <1>2, <1>3, <1>4, <1>5 DEF Behind

\* An entry is counted once more when it has been passed.
LEMMA EntryCounted ==
  ASSUME LoadInv, at.step = "relr", relr.i <= Len(relr.table),
         relr'.table = relr.table, relr'.i = relr.i + 1, NEW w \in 0 .. (2 * Bits),
         relr'.hits[w] = relr.hits[w] + (IF Loading!Names(relr.table, relr.i, w) THEN 1 ELSE 0)
  PROVE  relr'.hits[w] = Cardinality(Named(w)')
<1>1. Behind \in Nat /\ relr.i = Behind + 1
  BY RelrEntry
<1>2. PICK k \in Nat \ {0} : k = relr.i /\ Behind = k - 1 /\ Behind' = k
  <2>1. PICK n \in Nat : n = Behind /\ relr.i = n + 1
    BY <1>1
  <2>2. relr'.i = (n + 1) + 1
    BY <2>1
  <2>3. Behind' = n + 1
    BY ONLY <2>2, n \in Nat DEF Behind
  <2>4. n + 1 \in Nat \ {0} /\ n = (n + 1) - 1
    BY ONLY n \in Nat
  <2> QED BY <2>1, <2>3, <2>4
<1>3. relr.hits[w] = Cardinality(Named(w))
  BY DEF LoadInv, RelrSound
<1>4. Named(w)' = Named(w) \cup (IF Loading!Names(relr.table, k, w) THEN {k} ELSE {})
  BY <1>2 DEF Named
<1>5. IsFiniteSet(Named(w)) /\ k \notin Named(w)
  <2>1. Named(w) \subseteq 1 .. (k - 1) /\ k \notin 1 .. (k - 1)
    BY <1>2 DEF Named
  <2>2. IsFiniteSet(1 .. (k - 1))
    <3>1. 1 \in Int /\ k - 1 \in Int
      OBVIOUS
    <3> QED BY ONLY <3>1, FS_Interval
  <2> QED BY <2>1, <2>2, FS_Subset
<1>6. CASE Loading!Names(relr.table, k, w)
  <2>1. Cardinality(Named(w) \cup {k}) = Cardinality(Named(w)) + 1
    BY <1>5, FS_AddElement
  <2> QED BY <1>2, <1>3, <1>4, <1>6, <2>1
<1>7. CASE ~ Loading!Names(relr.table, k, w)
  <2>1. Named(w)' = Named(w)
    BY <1>4, <1>7
  <2>2. Cardinality(Named(w)) \in Nat
    BY <1>5, FS_CardinalityType
  <2> QED BY <1>2, <1>3, <1>7, <2>1, <2>2
<1> QED BY <1>6, <1>7

\* An address relocates its word.
LEMMA AddressStep == LoadInv /\ Loading!AddressEntry => LoadInv'
<1> SUFFICES ASSUME LoadInv, Loading!AddressEntry PROVE LoadInv'
  OBVIOUS
<1>1. /\ at.step = "relr" /\ relr.i <= Len(relr.table) /\ relr.table[relr.i].kind = "address"
      /\ UNCHANGED <<at, list, mod, slot, page, pass, ran>>
  BY DEF Loading!AddressEntry
<1>2. PICK k \in 1 .. Len(relr.table) : k = relr.i /\ relr.table[k].at \in Nat
  BY <1>1, RelrEntry
<1>3. PICK t : t = relr.table
  OBVIOUS
<1>4. PICK x \in Nat : x = t[k].at
  BY <1>2, <1>3
<1>5. /\ relr.hits \in [0 .. (2 * Bits) -> Nat] /\ relr.i \in Nat
      /\ relr = [table |-> relr.table, i |-> relr.i, where |-> relr.where, hits |-> relr.hits]
      /\ t \in Tables /\ Len(t) \in Nat
  BY <1>1, <1>3, RelrEntry DEF LoadInv, RelrSound
<1>6. PICK h : h = [w \in 0 .. (2 * Bits) |-> relr.hits[w] + (IF w \in {x} THEN 1 ELSE 0)]
  OBVIOUS
<1>7. /\ relr'.table = t /\ relr'.i = k + 1 /\ relr'.where = x + 1 /\ relr'.hits = h
      /\ relr' = [table |-> relr'.table, i |-> relr'.i, where |-> relr'.where,
                  hits |-> relr'.hits]
  <2>1. Loading!Relocated(relr.hits, {x}) = h
    BY <1>5, <1>6 DEF Loading!Relocated
  <2>2. relr' = [relr EXCEPT !.hits = h, !.where = x + 1, !.i = k + 1]
    BY <1>2, <1>3, <1>4, <2>1 DEF Loading!AddressEntry
  <2> QED BY <1>3, <1>5, <2>2
<1>8. Since(k)' /\ Behind' = k
  <2>1. Behind' = k
    BY <1>2, <1>7 DEF Behind
  <2>2. (k + 1) .. k = {} /\ k - k = 0 /\ Bits * 0 = 0 /\ k \in 1 .. k
    BY LoadSizes
  <2>3. relr'.where = relr'.table[k].at + 1 + Bits * (Behind' - k)
    BY <1>4, <1>7, <2>1, <2>2
  <2> QED BY <1>1, <1>2, <1>3, <1>7, <2>1, <2>2, <2>3 DEF Since
<1>9. relr'.hits \in [0 .. (2 * Bits) -> Nat]
  <2>1. PICK f \in [0 .. (2 * Bits) -> Nat] : f = relr.hits
    BY <1>5
  <2>2. h = [w \in 0 .. (2 * Bits) |-> f[w] + (IF w \in {x} THEN 1 ELSE 0)]
    BY <1>6, <2>1
  <2>3. ASSUME NEW w \in 0 .. (2 * Bits) PROVE f[w] + (IF w \in {x} THEN 1 ELSE 0) \in Nat
    <3>1. PICK c \in Nat : c = IF w \in {x} THEN 1 ELSE 0
      OBVIOUS
    <3>2. f[w] \in Nat
      BY <2>1
    <3> QED BY <3>1, <3>2
  <2> QED BY <1>7, <2>2, <2>3
<1>10. ASSUME NEW w \in 0 .. (2 * Bits) PROVE relr'.hits[w] = Cardinality(Named(w)')
  <2>1. Loading!Names(t, k, w) <=> w = x
    BY <1>1, <1>2, <1>3, <1>4 DEF Loading!Names
  <2>2. relr'.hits[w] = relr.hits[w] + (IF Loading!Names(t, k, w) THEN 1 ELSE 0)
    BY <1>6, <1>7, <2>1
  <2> QED BY <1>1, <1>2, <1>3, <1>7, <2>2, EntryCounted
<1>11. RelrSound'
  <2>1. relr'.i \in 1 .. (Len(relr'.table) + 1)
    BY <1>2, <1>3, <1>5, <1>7
  <2>2. \E a \in 1 .. Behind' : Since(a)'
    BY <1>2, <1>8
  <2> QED BY <1>5, <1>7, <1>9, <1>10, <2>1, <2>2 DEF RelrSound
<1> QED BY <1>1, <1>11, RelrMoves

\* The place a bitmap counts from is that of the last address before it.
LEMMA AnchorIs ==
  ASSUME NEW t, NEW k \in Nat, NEW a \in 1 .. (k - 1), t[a].kind = "address",
         \A j \in (a + 1) .. k : t[j].kind = "bitmap"
  PROVE  Loading!Anchor(t, k) = a
<1> DEFINE P(b) == t[b].kind = "address" /\ \A j \in (b + 1) .. k : t[j].kind = "bitmap"
<1>1. a \in 1 .. k /\ P(a)
  OBVIOUS
<1>2. ASSUME NEW b \in 1 .. k, P(b) PROVE b = a
  <2>1. CASE b < a
    <3>1. a \in (b + 1) .. k
      BY <2>1
    <3> QED BY <1>1, <1>2, <3>1
  <2>2. CASE b > a
    <3>1. b \in (a + 1) .. k
      BY <2>2
    <3> QED BY <1>1, <1>2, <3>1
  <2> QED BY <2>1, <2>2
<1>3. Loading!Anchor(t, k) = CHOOSE b \in 1 .. k : P(b)
  BY DEF Loading!Anchor
<1> HIDE DEF P
<1> QED BY <1>1, <1>2, <1>3

\* One bitmap more is Bits words more.
LEMMA BitsMore ==
  ASSUME NEW x \in Int, NEW n \in Int, NEW m \in Int, NEW b \in Nat, b = Bits, m = x + 1 + b * n
  PROVE  m + b = x + 1 + b * (n + 1)
<1>1. b * (n + 1) = b * n + b
  OBVIOUS
<1>2. PICK y \in Int : y = b * n
  OBVIOUS
<1> QED BY <1>1, <1>2

\* A bitmap relocates the words of its bits.
LEMMA BitmapStep == LoadInv /\ Loading!BitmapEntry => LoadInv'
<1> SUFFICES ASSUME LoadInv, Loading!BitmapEntry PROVE LoadInv'
  OBVIOUS
<1>1. /\ at.step = "relr" /\ relr.i <= Len(relr.table) /\ relr.table[relr.i].kind = "bitmap"
      /\ UNCHANGED <<at, list, mod, slot, page, pass, ran>>
  BY DEF Loading!BitmapEntry
<1>2. PICK k \in 1 .. Len(relr.table) : k = relr.i /\ relr.table[k].bits \subseteq 1 .. Bits
  BY <1>1, RelrEntry
<1>3. PICK t : t = relr.table
  OBVIOUS
<1>4. /\ relr.hits \in [0 .. (2 * Bits) -> Nat] /\ k \in Nat /\ Len(t) \in Nat /\ t \in Tables
      /\ relr = [table |-> relr.table, i |-> relr.i, where |-> relr.where, hits |-> relr.hits]
      /\ Behind = k - 1 /\ t[1].kind = "address" /\ Bits \in Nat
  <2>1. /\ relr.hits \in [0 .. (2 * Bits) -> Nat]
        /\ relr = [table |-> relr.table, i |-> relr.i, where |-> relr.where, hits |-> relr.hits]
    BY <1>1 DEF LoadInv, RelrSound
  <2>2. Len(t) \in Nat /\ t \in Tables /\ t[1].kind = "address"
    BY <1>1, <1>3, RelrEntry
  <2>3. k \in Nat /\ Behind = k - 1
    <3>1. k \in Nat /\ Behind \in Nat /\ k = Behind + 1
      BY <1>1, <1>2, RelrEntry
    <3> QED BY <3>1
  <2> QED BY <2>1, <2>2, <2>3, LoadSizes
<1>5. PICK a \in 1 .. (k - 1) :
        /\ t[a].kind = "address" /\ \A j \in (a + 1) .. (k - 1) : t[j].kind = "bitmap"
        /\ relr.where = t[a].at + 1 + Bits * ((k - 1) - a)
  <2>1. k # 1
    BY <1>1, <1>2, <1>3, <1>4
  <2>2. \E a \in 1 .. Behind : Since(a)
    BY <1>1, <1>2, <1>4, <2>1 DEF LoadInv, RelrSound
  <2> QED BY <1>3, <1>4, <2>2 DEF Since
<1>6. PICK x \in Nat : x = t[a].at
  <2>1. a \in 1 .. Len(relr.table)
    BY <1>2, <1>3, <1>4
  <2> QED BY <1>1, <1>3, <1>5, <2>1, RelrEntry
<1>7. \A j \in (a + 1) .. k : t[j].kind = "bitmap"
  <2>1. t[k].kind = "bitmap"
    BY <1>1, <1>2, <1>3
  <2>2. \A j \in (a + 1) .. k : j = k \/ j \in (a + 1) .. (k - 1)
    BY <1>4
  <2> QED BY <1>5, <2>1, <2>2
<1>8. PICK z \in Int : z = relr.where /\ z = x + 1 + Bits * ((k - 1) - a)
  <2>1. PICK m \in Int : m = (k - 1) - a
    BY <1>4, <1>5
  <2>2. x + 1 + Bits * m \in Int
    BY ONLY x \in Nat, m \in Int, <1>4
  <2>3. relr.where = x + 1 + Bits * m
    BY <1>5, <1>6, <2>1
  <2> QED BY <2>1, <2>2, <2>3
<1>9. /\ relr'.table = t /\ relr'.i = k + 1 /\ relr'.where = z + Bits
      /\ relr'.hits = [w \in 0 .. (2 * Bits) |->
                         relr.hits[w] + (IF \E b \in t[k].bits : w = z + b - 1 THEN 1 ELSE 0)]
      /\ relr' = [table |-> relr'.table, i |-> relr'.i, where |-> relr'.where,
                  hits |-> relr'.hits]
  <2>1. PICK h : h = Loading!Relocated(relr.hits,
                                      { relr.where + b - 1 : b \in relr.table[relr.i].bits })
    OBVIOUS
  <2>2. relr' = [relr EXCEPT !.hits = h, !.where = relr.where + Bits, !.i = relr.i + 1]
    BY <2>1 DEF Loading!BitmapEntry, Loading!Span
  <2>3. DOMAIN relr.hits = 0 .. (2 * Bits)
    BY <1>4
  <2>4. h = [w \in 0 .. (2 * Bits) |->
               relr.hits[w] + (IF \E b \in t[k].bits : w = z + b - 1 THEN 1 ELSE 0)]
    BY <1>2, <1>3, <1>8, <2>1, <2>3 DEF Loading!Relocated
  <2>5. /\ relr'.table = t /\ relr'.i = k + 1 /\ relr'.where = z + Bits /\ relr'.hits = h
        /\ relr' = [table |-> relr'.table, i |-> relr'.i, where |-> relr'.where,
                    hits |-> relr'.hits]
    BY <1>2, <1>3, <1>4, <1>8, <2>2
  <2> QED BY <2>4, <2>5
<1>10. Behind' = k
  BY <1>4, <1>9 DEF Behind
<1>11. Since(a)'
  <2>1. z + Bits = x + 1 + Bits * (((k - 1) - a) + 1)
    BY <1>4, <1>8, BitsMore
  <2>2. ((k - 1) - a) + 1 = k - a
    BY <1>4
  <2>3. relr'.where = relr'.table[a].at + 1 + Bits * (Behind' - a)
    BY <1>6, <1>9, <1>10, <2>1, <2>2
  <2>4. a \in 1 .. Behind'
    BY <1>4, <1>10
  <2> QED BY <1>5, <1>7, <1>9, <1>10, <2>3, <2>4 DEF Since
<1>12. relr'.hits \in [0 .. (2 * Bits) -> Nat]
  <2>1. ASSUME NEW w \in 0 .. (2 * Bits)
        PROVE  relr.hits[w] + (IF \E b \in t[k].bits : w = z + b - 1 THEN 1 ELSE 0) \in Nat
    <3>1. relr.hits[w] \in Nat
      BY <1>4
    <3> QED BY <3>1
  <2> QED BY <1>9, <2>1
<1>13. ASSUME NEW w \in 0 .. (2 * Bits) PROVE relr'.hits[w] = Cardinality(Named(w)')
  <2>1. Loading!Names(t, k, w) <=> \E b \in t[k].bits : w = z + b - 1
    <3>1. Loading!Anchor(t, k) = a
      BY <1>4, <1>5, <1>7, AnchorIs
    <3>2. (k - a) - 1 = (k - 1) - a
      BY <1>4
    <3>3. t[k].kind # "address"
      BY <1>1, <1>2, <1>3
    <3> QED BY <1>6, <1>8, <3>1, <3>2, <3>3 DEF Loading!Names
  <2>2. relr'.hits[w] = relr.hits[w] + (IF Loading!Names(t, k, w) THEN 1 ELSE 0)
    BY <1>9, <2>1
  <2> QED BY <1>1, <1>2, <1>3, <1>9, <2>2, EntryCounted
<1>14. RelrSound'
  <2>1. relr'.i \in 1 .. (Len(relr'.table) + 1)
    <3>1. k + 1 \in 1 .. (Len(t) + 1)
      <4>1. k \in 1 .. Len(t) /\ Len(t) \in Nat
        BY <1>2, <1>3, <1>4
      <4> QED BY ONLY <4>1
    <3> QED BY <1>9, <3>1
  <2>2. \E b \in 1 .. Behind' : Since(b)'
    BY <1>4, <1>10, <1>11
  <2> QED BY <1>4, <1>9, <1>12, <1>13, <2>1, <2>2 DEF RelrSound
<1> QED BY <1>1, <1>14, RelrMoves

\* What a module imports is bound once it is loaded, and means that from then on.
LEMMA ResolvedIs ==
  ASSUME LoadInv, at.step = "relr", NEW s \in Imports[Modules[at.i]]
  PROVE  /\ Loading!Poisoned(Loading!ResolveSymbol(Modules[at.i], s)) = Meaning(at.i, s)
         /\ Meaning(at.i, s) \in Mods \cup {"shim", "poison"}
<1>1. PICK k \in 1 .. Len(Modules) : k = at.i
  BY DEF LoadInv, LoadStates
<1>2. /\ list \in Seq(Mods) /\ Len(list) = k /\ \A i \in 1 .. k : list[i] = Modules[i]
      /\ Len(Modules) \in Nat
  BY <1>1, LoadSizes DEF LoadInv, LoadStates, Listed
<1>3. CASE s \in Shims
  <2>1. Loading!ResolveSymbol(Modules[at.i], s) = "shim" /\ "shim" # None
    BY <1>3, LoadSizes DEF Loading!ResolveSymbol
  <2> QED BY <1>3, <2>1 DEF Loading!Poisoned, Meaning
<1>4. CASE s \notin Shims
  <2> DEFINE E == { i \in { i \in DOMAIN list : list[i] # Modules[k] } :
                      Loading!Exports(list[i], s) }
             F == { j \in 1 .. (k - 1) : s \in Defines[Modules[j]] }
  <2>1. E = F
    <3>1. DOMAIN list = 1 .. k
      BY <1>2
    <3>2. \A i \in 1 .. k : list[i] # Modules[k] <=> i \in 1 .. (k - 1)
      BY <1>2, LoadSizes
    <3>3. \A i \in DOMAIN list : (list[i] # Modules[k] /\ Loading!Exports(list[i], s)) <=> i \in F
      BY <1>2, <3>1, <3>2 DEF Loading!Exports
    <3>4. F \subseteq DOMAIN list
      BY <3>1
    <3> QED BY <3>3, <3>4
  <2>2. Loading!ResolveSymbol(Modules[at.i], s) = IF F = {} THEN None ELSE list[Loading!Min(F)]
    BY <1>1, <1>4, <2>1 DEF Loading!ResolveSymbol, Loading!FoundIn
  <2>3. Definers(k, s) = F
    BY DEF Definers
  <2> HIDE DEF E, F
  <2>4. CASE F = {}
    BY <1>1, <1>4, <2>2, <2>3, <2>4 DEF Loading!Poisoned, Meaning
  <2>5. CASE F # {}
    <3>1. Loading!Min(F) \in F
      <4>1. F \subseteq Nat
        BY <1>2 DEF F
      <4> QED BY <2>5, <4>1, LeastPlace
    <3>2. PICK x \in 1 .. (k - 1) : x = Loading!Min(F)
      BY <3>1 DEF F
    <3>3. x \in 1 .. k /\ list[x] = Modules[x] /\ Modules[x] \in Mods /\ Modules[x] # None
      <4>1. x \in 1 .. k /\ x \in 1 .. Len(Modules)
        BY <1>2
      <4> QED BY <1>2, <4>1, LoadSizes
    <3>4. Loading!ResolveSymbol(Modules[at.i], s) = Modules[x]
      BY <2>2, <2>5, <3>2, <3>3
    <3>5. Meaning(k, s) = Modules[x]
      BY <1>4, <2>3, <2>5, <3>2 DEF Meaning
    <3> QED BY <1>1, <3>3, <3>4, <3>5 DEF Loading!Poisoned
  <2> QED BY <2>4, <2>5
<1> QED BY <1>3, <1>4

\* so_resolve binds the imports of the module that was loaded.
LEMMA ResolveStep == LoadInv /\ Loading!Resolve => LoadInv'
<1> SUFFICES ASSUME LoadInv, Loading!Resolve PROVE LoadInv'
  OBVIOUS
<1>1. /\ at.step = "relr" /\ at \in [step : LoadSteps, i : 1 .. Len(Modules)]
      /\ UNCHANGED <<list, mod, page, pass, relr, ran>> /\ DOMAIN slot = Mods
  BY DEF Loading!Resolve, LoadInv, LoadStates
<1>2. PICK k \in 1 .. Len(Modules) : k = at.i
  BY <1>1
<1>3. PICK m \in Mods : m = Modules[k]
  <2>1. Modules[k] \in Mods
    BY LoadSizes
  <2> QED BY <2>1
<1>4. PICK f : f = [s \in Imports[m] |-> Loading!Poisoned(Loading!ResolveSymbol(m, s))]
  OBVIOUS
<1>5. slot' = [slot EXCEPT ![m] = f]
  BY <1>2, <1>3, <1>4 DEF Loading!Resolve, Loading!M
<1>6. \A s \in Imports[m] : f[s] = Meaning(k, s) /\ Meaning(k, s) \in Mods \cup {"shim", "poison"}
  BY <1>1, <1>2, <1>3, <1>4, ResolvedIs
<1>7. Len(Modules) \in Nat \ {0} /\ k \in Nat
  BY LoadSizes
<1>8. /\ at' \in [step : LoadSteps, i : 1 .. Len(Modules)]
      /\ \/ at'.step = "load" /\ at'.i = k + 1
         \/ at'.step = "map" /\ at'.i = 1 /\ k = Len(Modules)
  <2>1. CASE k < Len(Modules)
    <3>1. at' = [step |-> "load", i |-> k + 1] /\ k + 1 \in 1 .. Len(Modules)
      BY <1>2, <1>7, <2>1 DEF Loading!Resolve, Loading!At
    <3> QED BY <3>1 DEF LoadSteps
  <2>2. CASE ~ (k < Len(Modules))
    <3>1. at' = [step |-> "map", i |-> 1] /\ 1 \in 1 .. Len(Modules) /\ k = Len(Modules)
      BY <1>2, <1>7, <2>2 DEF Loading!Resolve, Loading!At
    <3> QED BY <3>1 DEF LoadSteps
  <2> QED BY <2>1, <2>2
<1>9. Listed = k /\ Listed' = k /\ Bound = k - 1 /\ Bound' = k
  BY <1>1, <1>2, <1>7, <1>8 DEF Listed, Bound
<1>10. LoadStates'
  <2>1. DOMAIN slot' = Mods
    BY <1>1, <1>5
  <2> QED BY <1>1, <1>8, <1>9, <2>1 DEF LoadInv, LoadStates
<1>11. SlotsBound'
  <2>1. slot'[m] = f /\ \A n \in Mods \ {m} : slot'[n] = slot[n]
    BY <1>1, <1>5
  <2>2. ASSUME NEW n \in Mods, NEW s \in Imports[n]
        PROVE  slot'[n][s] \in Mods \cup {None, "shim", "poison"}
    <3>1. CASE n = m
      BY <1>6, <2>1, <3>1
    <3>2. CASE n # m
      BY <2>1, <3>2 DEF LoadInv, SlotsBound
    <3> QED BY <3>1, <3>2
  <2>3. ASSUME NEW i \in 1 .. k, NEW s \in Imports[Modules[i]]
        PROVE  slot'[Modules[i]][s] = Meaning(i, s)
    <3>1. CASE i = k
      BY <1>3, <1>6, <2>1, <3>1
    <3>2. CASE i # k
      <4>1. i \in 1 .. (k - 1) /\ i \in 1 .. Len(Modules)
        BY <1>7, <3>2
      <4>2. slot[Modules[i]][s] = Meaning(i, s)
        BY <1>9, <4>1 DEF LoadInv, SlotsBound
      <4>3. Modules[i] \in Mods \ {m}
        BY <1>3, <3>2, <4>1, LoadSizes
      <4> QED BY <2>1, <4>2, <4>3
    <3> QED BY <3>1, <3>2
  <2>4. \A i, s : Meaning(i, s)' = Meaning(i, s)
    BY DEF Meaning, Definers
  <2> QED BY <1>9, <2>2, <2>3, <2>4 DEF SlotsBound
<1>12. ImagesApart'
  BY <1>1, <1>9 DEF LoadInv, ImagesApart, ImageEnd
<1>13. PagesPermitted'
  <2>1. \A i \in 1 .. Len(Modules) : ~ Permitted(i)'
    BY <1>8 DEF Permitted
  <2> QED BY <1>1, <1>8, <2>1 DEF LoadInv, PagesPermitted
<1>14. RanInOrder'
  BY <1>1, <1>8, <1>9 DEF LoadInv, RanInOrder
<1>15. RelrSound'
  BY <1>8 DEF RelrSound
<1> QED BY <1>10, <1>11, <1>12, <1>13, <1>14, <1>15 DEF LoadInv

\* What is bound stays bound.
LEMMA SlotsStay == ASSUME SlotsBound, slot' = slot, Bound' = Bound PROVE SlotsBound'
<1>1. \A i, s : Meaning(i, s)' = Meaning(i, s)
  BY DEF Meaning, Definers
<1> QED BY <1>1 DEF SlotsBound

\* so_finalize moves in the pages of one module while all are listed.
LEMMA FinalMoves ==
  ASSUME LoadInv, at.step \in {"map", "permit"}, at'.step \in {"map", "permit", "init"},
         at' \in [step : LoadSteps, i : 1 .. Len(Modules)], at'.step = "init" => at'.i = 1,
         UNCHANGED <<list, slot, relr, ran>>, DOMAIN page' = Mods, PagesPermitted',
         mod' \in [Mods -> Images],
         \A m \in Mods : /\ mod'[m].first = mod[m].first /\ mod'[m].size = mod[m].size
                         /\ mod'[m].file = mod[m].file
  PROVE  LoadInv'
<1>1. /\ Listed' = Listed /\ Listed = Len(Modules) /\ Bound' = Bound /\ Len(Modules) \in Nat
      /\ \A i \in 1 .. Len(Modules) : Modules[i] \in Mods
  BY LoadSizes DEF Listed, Bound
<1>2. LoadStates'
  BY <1>1 DEF LoadInv, LoadStates
<1>3. SlotsBound'
  BY <1>1, SlotsStay DEF LoadInv
<1>4. ImagesApart'
  BY <1>1 DEF LoadInv, ImagesApart, ImageEnd
<1>5. RanInOrder'
  <2>1. \A i \in 1 .. Listed : mod'[Modules[i]].file
    BY <1>1 DEF LoadInv, RanInOrder
  <2>2. ran' \in Seq([m : Mods, file : BOOLEAN]) /\ Len(ran') = 0
    BY DEF LoadInv, RanInOrder
  <2>3. Len(ran') = (CASE at'.step = "init" -> at'.i - 1 [] at'.step = "run" -> Len(Modules)
                       [] OTHER -> 0)
    BY <2>2
  <2>4. \A i \in 1 .. Len(ran') : ran'[i].m = Modules[i] /\ ran'[i].file
    BY DEF LoadInv, RanInOrder
  <2> QED BY <1>1, <2>1, <2>2, <2>3, <2>4 DEF RanInOrder
<1>6. RelrSound'
  BY DEF RelrSound
<1> QED BY <1>2, <1>3, <1>4, <1>5, <1>6 DEF LoadInv

\* The module it is at.
LEMMA ModuleAt ==
  ASSUME LoadInv
  PROVE  /\ at \in [step : LoadSteps, i : 1 .. Len(Modules)] /\ at.i \in Nat
         /\ Len(Modules) \in Nat \ {0} /\ Loading!M = Modules[at.i] /\ Modules[at.i] \in Mods
         /\ mod \in [Mods -> Images] /\ mod[Modules[at.i]].size \in Nat
         /\ DOMAIN page = Mods
         /\ \A i \in 1 .. Len(Modules) : i # at.i => Modules[i] \in Mods \ {Modules[at.i]}
<1>1. /\ at \in [step : LoadSteps, i : 1 .. Len(Modules)] /\ mod \in [Mods -> Images]
      /\ DOMAIN page = Mods
  BY DEF LoadInv, LoadStates
<1>2. Modules[at.i] \in Mods /\ Len(Modules) \in Nat \ {0} /\ at.i \in 1 .. Len(Modules)
  BY <1>1, LoadSizes
<1>3. mod[Modules[at.i]].size \in Nat
  BY <1>1, <1>2 DEF Images
<1>4. \A i \in 1 .. Len(Modules) : i # at.i => Modules[i] \in Mods \ {Modules[at.i]}
  BY <1>2, LoadSizes
<1> QED BY <1>1, <1>2, <1>3, <1>4 DEF Loading!M

\* The image becomes code memory.
LEMMA MapCodeStep == LoadInv /\ Loading!MapCode => LoadInv'
<1> SUFFICES ASSUME LoadInv, Loading!MapCode PROVE LoadInv'
  OBVIOUS
<1>1. PICK m \in Mods : m = Modules[at.i] /\ m = Loading!M
  BY ModuleAt
<1>2. PICK n \in Nat : n = mod[m].size
  BY <1>1, ModuleAt
<1>3. /\ at.step = "map" /\ at' = [step |-> "permit", i |-> at.i]
      /\ page' = [page EXCEPT ![m] = [p \in 0 .. (n - 1) |-> "code"]]
      /\ pass' = [pass |-> "x", pg |-> 0]
      /\ UNCHANGED <<list, mod, slot, relr, ran>>
  BY <1>1, <1>2 DEF Loading!MapCode, Loading!At, Loading!PagesOf
<1>4. at'.step = "permit" /\ at'.i = at.i /\ at' \in [step : LoadSteps, i : 1 .. Len(Modules)]
  BY <1>3, ModuleAt DEF LoadSteps
<1>5. /\ page'[m] = [p \in 0 .. (n - 1) |-> "code"] /\ \A q \in Mods \ {m} : page'[q] = page[q]
      /\ DOMAIN page' = Mods
  BY <1>3, ModuleAt
<1>6. PagesPermitted'
  <2>1. pass' \in [pass : {"x", "w"}, pg : Nat] /\ pass'.pg = 0 /\ pass'.pass = "x"
    BY <1>3
  <2>2. ASSUME NEW i \in 1 .. Len(Modules), Permitted(i)'
        PROVE  /\ mod'[Modules[i]].view = "mapped"
               /\ \A p \in 0 .. (mod'[Modules[i]].size - 1) :
                    page'[Modules[i]][p] = IF p \in mod'[Modules[i]].code THEN "rx" ELSE "rw"
    <3>1. i # at.i /\ Permitted(i)
      BY <1>3, <1>4, <2>2, ModuleAt DEF Permitted
    <3>2. Modules[i] \in Mods \ {m}
      BY <1>1, <3>1, ModuleAt
    <3> QED BY <1>3, <1>5, <3>1, <3>2 DEF LoadInv, PagesPermitted
  <2>3. \A p \in 0 .. (n - 1) : PageOfPass(m, p)' = "code"
    BY <2>1 DEF PageOfPass
  <2>4. \A p \in 0 .. (n - 1) : page'[m][p] = "code"
    BY <1>5
  <2>5. Modules[at'.i] = m /\ mod'[m].size = n
    BY <1>1, <1>2, <1>3, <1>4
  <2>6. /\ pass'.pg <= mod'[Modules[at'.i]].size
        /\ \A p \in 0 .. (mod'[Modules[at'.i]].size - 1) :
             page'[Modules[at'.i]][p] = (PageOfPass(Modules[at.i], p))'
    BY <1>4, <2>1, <2>3, <2>4, <2>5
  <2> QED BY <2>1, <2>2, <2>6 DEF PagesPermitted
<1> QED BY <1>3, <1>4, <1>5, <1>6, FinalMoves, ModuleAt

\* A run ends where a page is of the other kind, or the image ends.
LEMMA RunEnds ==
  ASSUME LoadInv, at.step = "permit", pass.pg \in Nat, pass.pg < mod[Modules[at.i]].size
  PROVE  /\ Loading!RunEnd \in pass.pg .. mod[Modules[at.i]].size
         /\ \A p \in pass.pg .. (Loading!RunEnd - 1) : Loading!Wanted(p)
<1>1. PICK n \in Nat : n = mod[Modules[at.i]].size /\ n = mod[Loading!M].size
  BY ModuleAt
<1>2. PICK a \in Nat : a = pass.pg /\ a < n
  BY <1>1
<1> DEFINE W(p) == Loading!Wanted(p)
           S == { e \in a .. n : e = n \/ ~ W(e) }
           P(e) == (\A p \in a .. (e - 1) : W(p)) /\ (e = n \/ ~ W(e))
<1>3. Loading!RunEnd = CHOOSE e \in a .. n : P(e)
  BY <1>1, <1>2 DEF Loading!RunEnd
<1> HIDE DEF W
<1>4. S \subseteq Nat /\ n \in S
  BY <1>2
<1>5. PICK e \in S : \A y \in S : e <= y
  BY <1>4, LeastPlace
<1>6. e \in a .. n /\ P(e)
  <2>1. e \in a .. n /\ (e = n \/ ~ W(e))
    BY <1>5
  <2>2. ASSUME NEW p \in a .. (e - 1) PROVE W(p)
    <3>1. p \in a .. n /\ ~ (e <= p)
      BY <1>2, <2>1
    <3>2. p \notin S
      BY <1>5, <3>1
    <3> QED BY <3>1, <3>2
  <2> QED BY <2>1, <2>2
<1> HIDE DEF P
<1>7. Loading!RunEnd \in a .. n /\ P(Loading!RunEnd)
  BY <1>3, <1>6
<1> QED BY <1>1, <1>2, <1>7 DEF P, W

\* A run of pages gets its permission, or a page of the other kind is passed over.
LEMMA PermitRunStep == LoadInv /\ Loading!PermitRun => LoadInv'
<1> SUFFICES ASSUME LoadInv, Loading!PermitRun PROVE LoadInv'
  OBVIOUS
<1>1. PICK m \in Mods : m = Modules[at.i] /\ m = Loading!M
  BY ModuleAt
<1>2. PICK n \in Nat : n = mod[m].size
  BY <1>1, ModuleAt
<1>3. PICK a \in Nat : a = pass.pg
  BY DEF LoadInv, PagesPermitted
<1>4. /\ at.step = "permit" /\ a < n /\ UNCHANGED <<at, list, mod, slot, relr, ran>>
      /\ pass \in [pass : {"x", "w"}, pg : Nat]
  BY <1>1, <1>2, <1>3 DEF Loading!PermitRun, LoadInv, PagesPermitted
<1>5. \A p \in 0 .. (n - 1) : page[m][p] = PageOfPass(m, p)
  BY <1>1, <1>2, <1>4 DEF LoadInv, PagesPermitted
<1>6. \A p : Loading!Wanted(p) <=> (p \in mod[m].code <=> pass.pass = "x")
  BY <1>1 DEF Loading!Wanted
<1>7. /\ pass' \in [pass : {"x", "w"}, pg : Nat] /\ pass'.pg \in 0 .. n /\ DOMAIN page' = Mods
      /\ \A q \in Mods \ {m} : page'[q] = page[q]
      /\ \A p \in 0 .. (n - 1) : page'[m][p] = PageOfPass(m, p)'
  <2>1. CASE Loading!Wanted(a)
    <3>1. PICK e \in a .. n : e = Loading!RunEnd /\ \A p \in a .. (e - 1) : Loading!Wanted(p)
      BY <1>1, <1>2, <1>3, <1>4, RunEnds
    <3>2. PICK f : f = [p \in 0 .. (n - 1) |->
              IF p \in a .. (e - 1)
              THEN IF page[m][p] = "code" THEN IF pass.pass = "x" THEN "rx" ELSE "rw" ELSE "twice"
              ELSE page[m][p]]
      OBVIOUS
    <3>3. page' = [page EXCEPT ![m] = f] /\ pass' = [pass EXCEPT !.pg = e]
      BY <1>1, <1>2, <1>3, <2>1, <3>1, <3>2 DEF Loading!PermitRun, Loading!PagesOf
    <3>4. /\ pass' \in [pass : {"x", "w"}, pg : Nat] /\ pass'.pg = e /\ pass'.pass = pass.pass
          /\ e \in 0 .. n
      BY <1>4, <3>3
    <3>5. /\ DOMAIN page' = Mods /\ \A q \in Mods \ {m} : page'[q] = page[q]
          /\ page'[m] = f
      BY <3>3, ModuleAt
    <3>6. ASSUME NEW p \in 0 .. (n - 1) PROVE f[p] = PageOfPass(m, p)'
      <4>1. page[m][p] = PageOfPass(m, p)
        BY <1>5
      <4>2. PageOfPass(m, p)' = IF p \in mod[m].code
                                THEN IF pass.pass = "w" \/ p < e THEN "rx" ELSE "code"
                                ELSE IF pass.pass = "w" /\ p < e THEN "rw" ELSE "code"
        BY <1>4, <3>4 DEF PageOfPass
      <4>3. CASE p \in a .. (e - 1)
        <5>1. p < e /\ ~ (p < a) /\ Loading!Wanted(p)
          BY <3>1, <4>3
        <5>2. page[m][p] = "code"
          BY <1>3, <1>4, <1>6, <4>1, <5>1 DEF PageOfPass
        <5>3. f[p] = IF pass.pass = "x" THEN "rx" ELSE "rw"
          BY <3>2, <4>3, <5>2
        <5> QED BY <1>4, <1>6, <4>2, <5>1, <5>3
      <4>4. CASE p \notin a .. (e - 1)
        <5>1. p < a <=> p < e
          BY <3>1, <4>4
        <5>2. f[p] = page[m][p]
          BY <3>2, <4>4
        <5> QED BY <1>3, <4>1, <4>2, <5>1, <5>2 DEF PageOfPass
      <4> QED BY <4>3, <4>4
    <3> QED BY <3>4, <3>5, <3>6
  <2>2. CASE ~ Loading!Wanted(a)
    <3>1. page' = page /\ pass' = [pass EXCEPT !.pg = a + 1]
      BY <1>3, <2>2 DEF Loading!PermitRun
    <3>2. /\ pass' \in [pass : {"x", "w"}, pg : Nat] /\ pass'.pg = a + 1 /\ pass'.pass = pass.pass
          /\ a + 1 \in 0 .. n
      BY <1>4, <3>1
    <3>3. ASSUME NEW p \in 0 .. (n - 1) PROVE page'[m][p] = PageOfPass(m, p)'
      <4>1. page[m][p] = PageOfPass(m, p)
        BY <1>5
      <4>2. PageOfPass(m, p)' = IF p \in mod[m].code
                                THEN IF pass.pass = "w" \/ p < a + 1 THEN "rx" ELSE "code"
                                ELSE IF pass.pass = "w" /\ p < a + 1 THEN "rw" ELSE "code"
        BY <1>4, <3>2 DEF PageOfPass
      <4>3. CASE p = a
        BY <1>3, <1>4, <1>6, <2>2, <3>1, <4>1, <4>2, <4>3 DEF PageOfPass
      <4>4. CASE p # a
        <5>1. p < a <=> p < a + 1
          BY <4>4
        <5> QED BY <1>3, <3>1, <4>1, <4>2, <5>1 DEF PageOfPass
      <4> QED BY <4>3, <4>4
    <3> QED BY <3>1, <3>2, <3>3, ModuleAt
  <2> QED BY <2>1, <2>2
<1>8. PagesPermitted'
  <2>1. ASSUME NEW i \in 1 .. Len(Modules), Permitted(i)'
        PROVE  /\ mod'[Modules[i]].view = "mapped"
               /\ \A p \in 0 .. (mod'[Modules[i]].size - 1) :
                    page'[Modules[i]][p] = IF p \in mod'[Modules[i]].code THEN "rx" ELSE "rw"
    <3>1. i # at.i /\ Permitted(i)
      BY <1>4, <2>1, ModuleAt DEF Permitted
    <3>2. Modules[i] \in Mods \ {m}
      BY <1>1, <3>1, ModuleAt
    <3> QED BY <1>4, <1>7, <3>1, <3>2 DEF LoadInv, PagesPermitted
  <2>2. Modules[at'.i] = m /\ mod'[m].size = n
    BY <1>1, <1>2, <1>4
  <2>3. /\ pass'.pg <= mod'[Modules[at'.i]].size
        /\ \A p \in 0 .. (mod'[Modules[at'.i]].size - 1) :
             page'[Modules[at'.i]][p] = (PageOfPass(Modules[at.i], p))'
    BY <1>7, <2>2
  <2> QED BY <1>7, <2>1, <2>3 DEF PagesPermitted
<1> QED BY <1>4, <1>7, <1>8, FinalMoves, ModuleAt

\* A pass is over: the second follows, or the next module, or the constructors.
LEMMA EndPassStep == LoadInv /\ Loading!EndPass => LoadInv'
<1> SUFFICES ASSUME LoadInv, Loading!EndPass PROVE LoadInv'
  OBVIOUS
<1>1. PICK m \in Mods : m = Modules[at.i] /\ m = Loading!M
  BY ModuleAt
<1>2. PICK n \in Nat : n = mod[m].size
  BY <1>1, ModuleAt
<1>3. /\ at.step = "permit" /\ pass.pg = n /\ UNCHANGED <<list, slot, page, relr, ran>>
      /\ pass \in [pass : {"x", "w"}, pg : Nat]
  BY <1>1, <1>2 DEF Loading!EndPass, LoadInv, PagesPermitted
<1>4. \A p \in 0 .. (n - 1) : page[m][p] = PageOfPass(m, p)
  BY <1>1, <1>2, <1>3 DEF LoadInv, PagesPermitted
<1>5. CASE pass.pass = "x" /\ pass' = [pass |-> "w", pg |-> 0] /\ UNCHANGED <<at, mod>>
  <2>1. pass' \in [pass : {"x", "w"}, pg : Nat] /\ pass'.pg = 0 /\ pass'.pass = "w"
    BY <1>5
  <2>2. \A p \in 0 .. (n - 1) : page'[m][p] = PageOfPass(m, p)'
    <3> TAKE p \in 0 .. (n - 1)
    <3>1. PageOfPass(m, p) = IF p \in mod[m].code THEN "rx" ELSE "code"
      BY <1>3, <1>5 DEF PageOfPass
    <3>2. PageOfPass(m, p)' = IF p \in mod[m].code THEN "rx" ELSE "code"
      BY <1>5, <2>1 DEF PageOfPass
    <3> QED BY <1>3, <1>4, <3>1, <3>2
  <2>3. Modules[at'.i] = m /\ mod'[m].size = n
    BY <1>1, <1>2, <1>5
  <2>4. /\ pass'.pg <= mod'[Modules[at'.i]].size
        /\ \A p \in 0 .. (mod'[Modules[at'.i]].size - 1) :
             page'[Modules[at'.i]][p] = (PageOfPass(Modules[at.i], p))'
    BY <2>1, <2>2, <2>3
  <2>5. \A i \in 1 .. Len(Modules) : Permitted(i)' =>
          /\ mod'[Modules[i]].view = "mapped"
          /\ \A p \in 0 .. (mod'[Modules[i]].size - 1) :
               page'[Modules[i]][p] = IF p \in mod'[Modules[i]].code THEN "rx" ELSE "rw"
    BY <1>3, <1>5 DEF LoadInv, PagesPermitted, Permitted
  <2>6. PagesPermitted'
    BY <2>1, <2>4, <2>5 DEF PagesPermitted
  <2> QED BY <1>3, <1>5, <2>6, FinalMoves, ModuleAt
<1>6. CASE /\ pass.pass = "w" /\ mod' = Loading!Rebased /\ pass' = pass
           /\ at' = IF at.i < Len(Modules) THEN Loading!At("map", at.i + 1)
                    ELSE Loading!At("init", 1)
  <2>1. /\ mod' = [mod EXCEPT ![m].view = "mapped"] /\ mod \in [Mods -> Images]
    BY <1>1, <1>6, ModuleAt DEF Loading!Rebased
  <2>2. mod' \in [Mods -> Images]
    BY <2>1 DEF Images
  <2>3. \A q \in Mods : /\ mod'[q].first = mod[q].first /\ mod'[q].size = mod[q].size
                        /\ mod'[q].file = mod[q].file /\ mod'[q].code = mod[q].code
                        /\ mod'[q].view = IF q = m THEN "mapped" ELSE mod[q].view
    BY <2>1 DEF Images
  <2>4. /\ at' \in [step : LoadSteps, i : 1 .. Len(Modules)] /\ at'.step \in {"map", "init"}
        /\ at'.step = "init" => at'.i = 1 /\ at.i = Len(Modules)
        /\ at'.step = "map" => at'.i = at.i + 1
    BY <1>6, ModuleAt DEF Loading!At, LoadSteps
  <2>5. ASSUME NEW i \in 1 .. Len(Modules), Permitted(i)'
        PROVE  /\ mod'[Modules[i]].view = "mapped"
               /\ \A p \in 0 .. (mod'[Modules[i]].size - 1) :
                    page'[Modules[i]][p] = IF p \in mod'[Modules[i]].code THEN "rx" ELSE "rw"
    <3>1. Modules[i] \in Mods
      BY LoadSizes
    <3>2. CASE i = at.i
      <4>1. \A p \in 0 .. (n - 1) : PageOfPass(m, p) = IF p \in mod[m].code THEN "rx" ELSE "rw"
        BY <1>3, <1>6 DEF PageOfPass
      <4>2. Modules[i] = m /\ mod'[m].view = "mapped" /\ mod'[m].size = n
        BY <1>1, <1>2, <2>3, <3>2
      <4>3. mod'[m].code = mod[m].code
        BY <2>3
      <4>4. \A p \in 0 .. (n - 1) : page'[m][p] = IF p \in mod'[m].code THEN "rx" ELSE "rw"
        BY <1>3, <1>4, <4>1, <4>3
      <4> QED BY <4>2, <4>4
    <3>3. CASE i # at.i
      <4>1. Permitted(i)
        BY <1>3, <2>4, <2>5, <3>3, ModuleAt DEF Permitted
      <4>2. Modules[i] # m
        BY <1>1, <3>3, ModuleAt
      <4> QED BY <1>3, <2>3, <3>1, <4>1, <4>2 DEF LoadInv, PagesPermitted
    <3> QED BY <3>2, <3>3
  <2>6. PagesPermitted'
    BY <1>3, <1>6, <2>4, <2>5 DEF PagesPermitted
  <2>7. DOMAIN page' = Mods
    BY <1>3, ModuleAt
  <2>8. UNCHANGED <<list, slot, relr, ran>>
    BY <1>3
  <2>9. at'.step = "init" => at'.i = 1
    BY <2>4
  <2>10. \A q \in Mods : /\ mod'[q].first = mod[q].first /\ mod'[q].size = mod[q].size
                         /\ mod'[q].file = mod[q].file
    BY <2>3
  <2> QED BY <1>3, <2>2, <2>4, <2>6, <2>7, <2>8, <2>9, <2>10, FinalMoves
<1> QED BY <1>1, <1>5, <1>6 DEF Loading!EndPass

\* A module's constructors run, and after the last the copies of the files are freed.
LEMMA InitArrayStep == LoadInv /\ Loading!InitArray => LoadInv'
<1> SUFFICES ASSUME LoadInv, Loading!InitArray PROVE LoadInv'
  OBVIOUS
<1>1. PICK m \in Mods : m = Modules[at.i] /\ m = Loading!M
  BY ModuleAt
<1>2. PICK k \in 1 .. Len(Modules) : k = at.i
  BY ModuleAt
<1>3. /\ at.step = "init" /\ ran' = Append(ran, [m |-> m, file |-> mod[m].file])
      /\ UNCHANGED <<list, slot, page, pass, relr>> /\ mod \in [Mods -> Images]
      /\ Len(Modules) \in Nat
  BY <1>1, ModuleAt DEF Loading!InitArray
<1>4. \/ k < Len(Modules) /\ at' = [step |-> "init", i |-> k + 1] /\ mod' = mod
      \/ /\ k = Len(Modules) /\ at' = [step |-> "run", i |-> 1]
         /\ mod' = [q \in Mods |-> [mod[q] EXCEPT !.file = FALSE]]
  BY <1>2, <1>3 DEF Loading!InitArray, Loading!At, Mods
<1>5. /\ at' \in [step : LoadSteps, i : 1 .. Len(Modules)] /\ at'.step \in {"init", "run"}
      /\ Listed = Len(Modules) /\ Listed' = Listed /\ Bound' = Bound
  BY <1>2, <1>3, <1>4 DEF LoadSteps, Listed, Bound
<1>6. /\ mod' \in [Mods -> Images]
      /\ \A q \in Mods : /\ mod'[q].first = mod[q].first /\ mod'[q].size = mod[q].size
                         /\ mod'[q].code = mod[q].code /\ mod'[q].view = mod[q].view
                         /\ at'.step = "init" => mod'[q] = mod[q]
  <2>1. CASE mod' = mod /\ at'.step = "init"
    BY <1>3, <2>1
  <2>2. CASE mod' = [q \in Mods |-> [mod[q] EXCEPT !.file = FALSE]] /\ at'.step = "run"
    <3>1. ASSUME NEW q \in Mods
          PROVE  /\ mod'[q] \in Images /\ mod'[q].first = mod[q].first
                 /\ mod'[q].size = mod[q].size /\ mod'[q].code = mod[q].code
                 /\ mod'[q].view = mod[q].view
      <4>1. PICK a \in Images : a = mod[q]
        BY <1>3
      <4>2. mod'[q] = [a EXCEPT !.file = FALSE]
        BY <2>2, <4>1
      <4> QED BY <4>1, <4>2 DEF Images
    <3>2. mod' \in [Mods -> Images]
      BY <2>2, <3>1
    <3> QED BY <2>2, <3>1, <3>2
  <2> QED BY <1>4, <2>1, <2>2
<1>7. LoadStates'
  BY <1>3, <1>5, <1>6 DEF LoadInv, LoadStates
<1>8. SlotsBound'
  BY <1>3, <1>5, SlotsStay DEF LoadInv
<1>9. \A i \in 1 .. Len(Modules) : Modules[i] \in Mods
  BY LoadSizes
<1>10. ImagesApart'
  BY <1>5, <1>6, <1>9 DEF LoadInv, ImagesApart, ImageEnd
<1>11. PagesPermitted'
  <2>1. at'.step # "permit" /\ pass' \in [pass : {"x", "w"}, pg : Nat]
    BY <1>3, <1>5 DEF LoadInv, PagesPermitted
  <2>2. \A i \in 1 .. Len(Modules) : Permitted(i)
    BY <1>3 DEF Permitted
  <2>3. ASSUME NEW i \in 1 .. Len(Modules)
        PROVE  /\ mod'[Modules[i]].view = "mapped"
               /\ \A p \in 0 .. (mod'[Modules[i]].size - 1) :
                    page'[Modules[i]][p] = IF p \in mod'[Modules[i]].code THEN "rx" ELSE "rw"
    <3>1. PICK q \in Mods : q = Modules[i]
      BY <1>9
    <3>2. /\ mod[q].view = "mapped"
          /\ \A p \in 0 .. (mod[q].size - 1) :
               page[q][p] = IF p \in mod[q].code THEN "rx" ELSE "rw"
      BY <2>2, <3>1 DEF LoadInv, PagesPermitted
    <3> QED BY <1>3, <1>6, <3>1, <3>2
  <2> QED BY <2>1, <2>3 DEF PagesPermitted
<1>12. RanInOrder'
  <2>1. /\ ran \in Seq([m : Mods, file : BOOLEAN]) /\ Len(ran) = k - 1
        /\ \A i \in 1 .. Len(ran) : ran[i].m = Modules[i] /\ ran[i].file
        /\ \A i \in 1 .. Len(Modules) : mod[Modules[i]].file
    BY <1>2, <1>3, <1>5 DEF LoadInv, RanInOrder
  <2>2. mod[m].file = TRUE
    <3>1. mod[m].file \in BOOLEAN
      BY <1>3 DEF Images
    <3> QED BY <1>1, <1>2, <2>1, <3>1
  <2>3. PICK r : r = [m |-> m, file |-> TRUE]
    OBVIOUS
  <2>4. r \in [m : Mods, file : BOOLEAN] /\ r.m = m /\ r.file = TRUE /\ ran' = Append(ran, r)
    BY <1>3, <2>2, <2>3
  <2>5. ran' \in Seq([m : Mods, file : BOOLEAN]) /\ Len(ran') = k
    BY <1>2, <2>1, <2>4
  <2>6. \A i \in 1 .. k : ran'[i].m = Modules[i] /\ ran'[i].file
    <3> TAKE i \in 1 .. k
    <3>1. CASE i = k
      <4>1. ran'[k] = r
        BY <1>2, <2>1, <2>4
      <4> QED BY <1>1, <1>2, <2>4, <3>1, <4>1
    <3>2. CASE i # k
      <4>1. i \in 1 .. Len(ran)
        BY <2>1, <3>2
      <4>2. ran'[i] = ran[i]
        BY <2>1, <2>4, <4>1
      <4> QED BY <2>1, <4>1, <4>2
    <3> QED BY <3>1, <3>2
  <2>7. Len(ran') = (CASE at'.step = "init" -> at'.i - 1 [] at'.step = "run" -> Len(Modules)
                       [] OTHER -> 0)
    BY <1>2, <1>4, <2>5
  <2>8. at'.step # "run" => \A i \in 1 .. Listed' : mod'[Modules[i]].file
    BY <1>4, <1>5, <2>1
  <2> QED BY <2>5, <2>6, <2>7, <2>8 DEF RanInOrder
<1>13. RelrSound'
  BY <1>5 DEF RelrSound
<1> QED BY <1>7, <1>8, <1>10, <1>11, <1>12, <1>13 DEF LoadInv

\* Every step of the loader keeps the invariant.
LEMMA LoadStep == LoadInv /\ [Loading!Next]_loadingVars => LoadInv'
<1> SUFFICES ASSUME LoadInv, [Loading!Next]_loadingVars PROVE LoadInv'
  OBVIOUS
<1>1. CASE UNCHANGED loadingVars
  <2>1. UNCHANGED <<at, list, mod, slot, page, pass, relr, ran>>
    BY <1>1 DEF loadingVars
  <2>2. Listed' = Listed /\ Bound' = Bound
    BY <2>1 DEF Listed, Bound
  <2>3. LoadStates'
    BY <2>1, <2>2 DEF LoadInv, LoadStates
  <2>4. SlotsBound'
    BY <2>1, <2>2, SlotsStay DEF LoadInv
  <2>5. ImagesApart'
    BY <2>1, <2>2 DEF LoadInv, ImagesApart, ImageEnd
  <2>6. PagesPermitted'
    BY <2>1 DEF LoadInv, PagesPermitted, Permitted, PageOfPass
  <2>7. RanInOrder'
    BY <2>1, <2>2 DEF LoadInv, RanInOrder
  <2>8. RelrSound'
    <3>1. Behind' = Behind /\ (\A a : Since(a)' = Since(a)) /\ (\A w : Named(w)' = Named(w))
      BY <2>1 DEF Behind, Since, Named
    <3> QED BY <2>1, <3>1 DEF LoadInv, RelrSound
  <2> QED BY <2>3, <2>4, <2>5, <2>6, <2>7, <2>8 DEF LoadInv
<1>2. CASE Loading!Next
  BY <1>2, SoLoadStep, LoadFailsStep, AddressStep, BitmapStep, ResolveStep, MapCodeStep,
    PermitRunStep, EndPassStep, InitArrayStep DEF Loading!Next
<1> QED BY <1>1, <1>2

\* From it follows what the run checks of the loader.
LEMMA LoadFollows ==
  LoadInv => /\ Loading!TypeOK /\ Loading!BoundLikeDlsym
             /\ Loading!ImagesWhole /\ Loading!RelocatedOnce
<1> SUFFICES ASSUME LoadInv
             PROVE  /\ Loading!TypeOK /\ Loading!BoundLikeDlsym /\ Loading!ImagesWhole
                    /\ Loading!RelocatedOnce
  OBVIOUS
<1>1. /\ at \in [step : LoadSteps, i : 1 .. Len(Modules)] /\ list \in Seq(Mods)
      /\ Len(list) = Listed /\ \A i \in 1 .. Listed : list[i] = Modules[i]
      /\ mod \in [Mods -> Images]
  BY DEF LoadInv, LoadStates
<1>2. /\ Len(Modules) \in Nat \ {0} /\ \A i \in 1 .. Len(Modules) : Modules[i] \in Mods
      /\ \A q \in Mods : \E i \in 1 .. Len(Modules) : q = Modules[i]
      /\ {None, "shim", "stub"} \cap Mods = {} /\ None \notin {"shim", "stub"}
  BY LoadSizes
<1>3. Listed \in 0 .. Len(Modules)
  BY <1>1, <1>2 DEF Listed, LoadSteps
<1>4. \A q \in Loading!ToSet(list) : \E i \in 1 .. Listed : q = Modules[i]
  BY <1>1 DEF Loading!ToSet
<1>5. Loading!TypeOK
  <2>1. Loading!ToSet(list) \subseteq Mods
    BY <1>2, <1>3, <1>4
  <2>2. \A q \in Mods : \A s \in Imports[q] : slot[q][s] \in Mods \cup {None, "shim", "poison"}
    BY DEF LoadInv, SlotsBound
  <2> QED BY <1>1, <2>1, <2>2 DEF Loading!TypeOK, Mods
<1>6. Loading!BoundLikeDlsym
  <2>1. DOMAIN Modules = 1 .. Len(Modules)
    BY LoadSizes
  <2> SUFFICES ASSUME at.step \in {"init", "run"}, NEW k \in 1 .. Len(Modules),
                      NEW s \in Imports[Modules[k]]
               PROVE  slot[Modules[k]][s] =
                        IF s \in Shims THEN "shim"
                        ELSE IF Loading!Dlsym(s) \in Loading!Earlier(k) THEN Loading!Dlsym(s)
                        ELSE "poison"
    BY <2>1 DEF Loading!BoundLikeDlsym
  <2>2. Listed = Len(Modules) /\ Bound = Len(Modules)
    BY DEF Listed, Bound
  <2>3. slot[Modules[k]][s] = Meaning(k, s)
    BY <2>2 DEF LoadInv, SlotsBound
  <2>4. DOMAIN list = 1 .. Len(Modules)
    BY <1>1, <2>2
  <2> DEFINE All == { i \in 1 .. Len(Modules) : s \in Defines[Modules[i]] }
  <2>5. { i \in DOMAIN list : Loading!Exports(list[i], s) } = All
    BY <1>1, <2>2, <2>4 DEF Loading!Exports
  <2>6. PICK D : D = Definers(k, s)
    OBVIOUS
  <2>7. /\ All \subseteq Nat /\ D \subseteq All
        /\ (\A x \in D : x < k) /\ (\A x \in All : x < k => x \in D)
    BY <1>2, <2>6 DEF Definers
  <2>8. \A x \in 1 .. Len(Modules) : Modules[x] \in Mods /\ Modules[x] # None
    BY <1>2
  <2>9. All # {} => /\ Loading!Min(All) \in All /\ Loading!Min(All) \in 1 .. Len(Modules)
                    /\ Loading!Dlsym(s) = Modules[Loading!Min(All)]
    <3> SUFFICES ASSUME All # {}
                 PROVE  /\ Loading!Min(All) \in All /\ Loading!Min(All) \in 1 .. Len(Modules)
                        /\ Loading!Dlsym(s) = Modules[Loading!Min(All)]
      OBVIOUS
    <3>1. Loading!Min(All) \in All
      BY <2>7, LeastPlace
    <3>2. PICK x \in 1 .. Len(Modules) : x = Loading!Min(All)
      BY <3>1
    <3>3. Loading!FoundIn(DOMAIN list, s) = Modules[x]
      BY <1>1, <2>2, <2>5, <3>2 DEF Loading!FoundIn
    <3> QED BY <2>8, <3>1, <3>2, <3>3 DEF Loading!Dlsym
  <2>10. All = {} => Loading!Dlsym(s) \in {None, "shim", "stub"}
    BY <2>5 DEF Loading!FoundIn, Loading!Dlsym
  <2> HIDE DEF All
  <2>11. CASE D = {}
    <3>1. Loading!Dlsym(s) \notin Loading!Earlier(k)
      <4> SUFFICES ASSUME NEW j \in 1 .. (k - 1), Loading!Dlsym(s) = Modules[j] PROVE FALSE
        BY DEF Loading!Earlier
      <4>1. j \in 1 .. Len(Modules)
        BY <1>2
      <4>2. All # {}
        BY <1>2, <2>10, <4>1
      <4>3. Loading!Min(All) = j
        BY <2>9, <4>1, <4>2, LoadSizes
      <4> QED BY <2>7, <2>9, <2>11, <4>2, <4>3
    <3> QED BY <2>3, <2>6, <2>11, <3>1 DEF Meaning
  <2>12. CASE D # {}
    <3>1. k \in Nat
      BY <1>2
    <3>2. Loading!Min(D) = Loading!Min(All)
      BY <2>7, <2>12, <3>1, SameLeast
    <3>3. Loading!Min(D) \in D
      <4>1. D \subseteq Nat
        BY <2>7
      <4> QED BY <2>12, <4>1, LeastPlace
    <3>4. PICK x \in 1 .. (k - 1) : x = Loading!Min(D)
      BY <2>6, <3>3 DEF Definers
    <3>5. All # {}
      BY <2>7, <2>12
    <3>6. Loading!Dlsym(s) = Modules[x] /\ Modules[x] \in Loading!Earlier(k)
      BY <2>9, <3>2, <3>4, <3>5 DEF Loading!Earlier
    <3> QED BY <2>3, <2>6, <2>12, <3>4, <3>6 DEF Meaning
  <2> QED BY <2>11, <2>12
<1>7. Loading!ImagesWhole
  <2>1. ASSUME NEW p \in Loading!ToSet(list), NEW q \in Loading!ToSet(list), p # q
        PROVE  \/ mod[p].first + mod[p].size <= mod[q].first
               \/ mod[q].first + mod[q].size <= mod[p].first
    <3>1. PICK i \in 1 .. Listed, j \in 1 .. Listed : p = Modules[i] /\ q = Modules[j]
      BY <1>4
    <3>2. i # j /\ i \in Nat /\ j \in Nat
      BY <1>3, <2>1, <3>1
    <3> QED BY <3>1, <3>2 DEF LoadInv, ImagesApart, ImageEnd
  <2>2. \A q \in Loading!ToSet(list) : mod[q].first + mod[q].size <= Zone
    BY <1>4 DEF LoadInv, ImagesApart, ImageEnd
  <2>3. at.step \in {"init", "run"} =>
          \A q \in Mods : /\ mod[q].view = "mapped"
                          /\ \A p \in Loading!PagesOf(q) :
                               page[q][p] = IF p \in mod[q].code THEN "rx" ELSE "rw"
    <3> SUFFICES ASSUME at.step \in {"init", "run"}, NEW q \in Mods
                 PROVE  /\ mod[q].view = "mapped"
                        /\ \A p \in Loading!PagesOf(q) :
                             page[q][p] = IF p \in mod[q].code THEN "rx" ELSE "rw"
      OBVIOUS
    <3>1. PICK i \in 1 .. Len(Modules) : q = Modules[i]
      BY <1>2
    <3>2. Permitted(i)
      BY DEF Permitted
    <3> QED BY <3>1, <3>2 DEF LoadInv, PagesPermitted, Loading!PagesOf
  <2>4. /\ Len(ran) <= Len(Modules) /\ DOMAIN ran = 1 .. Len(ran)
        /\ \A i \in 1 .. Len(ran) : ran[i].m = Modules[i] /\ ran[i].file
    BY <1>1, <1>2 DEF LoadInv, RanInOrder
  <2> QED BY <2>1, <2>2, <2>3, <2>4 DEF Loading!ImagesWhole, Mods
<1>8. Loading!RelocatedOnce
  <2> SUFFICES ASSUME at.step = "relr", relr.i = Len(relr.table) + 1
               PROVE  \A w \in DOMAIN relr.hits :
                        relr.hits[w] =
                          Cardinality({ i \in DOMAIN relr.table : Loading!Names(relr.table, i, w) })
    BY DEF Loading!RelocatedOnce, Loading!Cardinality, Cardinality
  <2>1. /\ relr.table \in Tables /\ DOMAIN relr.hits = 0 .. (2 * Bits)
        /\ \A w \in 0 .. (2 * Bits) : relr.hits[w] = Cardinality(Named(w))
    BY DEF LoadInv, RelrSound
  <2>2. Len(relr.table) \in Nat /\ DOMAIN relr.table = 1 .. Len(relr.table)
    BY <2>1, LoadingAssumption DEF Loading!RelrAssumption
  <2>3. Behind = Len(relr.table)
    BY <2>2 DEF Behind
  <2>4. \A w : Named(w) = { i \in DOMAIN relr.table : Loading!Names(relr.table, i, w) }
    BY <2>2, <2>3 DEF Named
  <2> QED BY <2>1, <2>4
<1> QED BY <1>5, <1>6, <1>7, <1>8

-----------------------------------------------------------------------------
(* The boot memory (BootMemory).                                           *)

MemStates ==
  /\ pc \in {"heap", "scan", "arm", "pool", "init", "booted"} /\ armed \in BOOLEAN
  /\ hole \in [a : Nat, base : Nat, len : 0 .. (StackEnd - StackFirst)]
  /\ win \in [base : Nat, size : Nat]

\* The longest hole so far lies in the stack region, and nothing is mapped there.
HoleSound ==
  IF hole.len = 0 THEN hole.base = 0
  ELSE /\ StackFirst <= hole.base /\ hole.base + hole.len <= StackEnd
       /\ (hole.base .. (hole.base + hole.len - 1)) \cap mapped = {}

\* What is returned is aligned and lies in it.
WindowFound ==
  /\ win.base % Align = 0 /\ win.size % Align = 0 /\ win.size <= Want
  /\ Booting!Range(win) \subseteq StackFirst .. (StackEnd - 1)
  /\ Booting!Range(win) \cap mapped = {}

\* What main has got by now.
ReservedSo == win.size > 0 /\ reserved = Booting!Range(win)
GotSoFar ==
  /\ pc # "heap" => Booting!CutSound(heap)
  /\ pc \in {"pool", "init"} => ReservedSo
  /\ pool # 0 => pc \in {"init", "booted"} /\ Booting!PoolFits(pool)
  /\ armed => pc = "booted" /\ ReservedSo /\ pool # 0

MemInv == MemStates /\ HoleSound /\ WindowFound /\ GotSoFar

\* What the sizes of the boot are.
LEMMA BootSizes ==
  /\ SmallPage \in Nat \ {0} /\ Align \in Nat \ {0} /\ Align % SmallPage = 0
  /\ SoRegion \in Nat /\ SoRegion % SmallPage = 0 /\ Floor \in Nat /\ Floor % SmallPage = 0
  /\ Extra \in Nat /\ MapReserve \in Nat /\ MapReserve % Align = 0
  /\ Want \in Nat /\ Want % Align = 0 /\ Pool \in Nat
  /\ \A a \in Addrs : a \in Nat /\ a % SmallPage = 0
  /\ \A s \in HeapSizes : s \in Nat /\ s % (2 * SmallPage) = 0
  /\ StackFirst \in Nat \ {0} /\ StackEnd \in Nat /\ StackFirst <= StackEnd /\ StackEnd <= Top
<1>1. Booting!BootAssumption
  BY BootingAssumption
<1>2. /\ StackFirst \in 1 .. StackEnd /\ StackEnd \in Nat /\ StackEnd <= Top
      /\ \A s \in HeapSizes : s \in Nat /\ s % (2 * SmallPage) = 0
      /\ \A a \in Addrs : a \in Nat /\ a % SmallPage = 0
      /\ SmallPage \in Nat \ {0} /\ Align \in Nat \ {0} /\ Align % SmallPage = 0
      /\ MapReserve % Align = 0 /\ Want % Align = 0
      /\ \A n \in {SoRegion, Floor, Extra, MapReserve, Want, Pool} : n \in Nat /\ n % SmallPage = 0
  BY <1>1 DEF Booting!BootAssumption
<1>3. StackFirst \in Nat \ {0} /\ StackFirst <= StackEnd
  BY <1>2
<1> QED BY <1>2, <1>3

\* A sum or a difference of multiples is one.
LEMMA SumOfMultiples ==
  ASSUME NEW x \in Nat, NEW y \in Nat, NEW m \in Nat \ {0}, x % m = 0, y % m = 0
  PROVE  (x + y) % m = 0 /\ (x >= y => (x - y) % m = 0)
<1>1. PICK j \in Nat : x = j * m
  BY MultipleOf
<1>2. PICK k \in Nat : y = k * m
  BY MultipleOf
<1>3. x + y = (j + k) * m /\ j + k \in Nat
  BY <1>1, <1>2
<1>4. ASSUME x >= y PROVE (x - y) % m = 0
  <2>1. x - y = (j - k) * m
    BY <1>1, <1>2
  <2>2. j * m >= k * m - m + 1
    BY <1>1, <1>2, <1>4
  <2>3. j >= k
    BY <2>2, ProductOrder
  <2>4. j - k \in Nat
    BY <2>3
  <2> QED BY <2>1, <2>4, ProductIsMultiple
<1> QED BY <1>3, <1>4, ProductIsMultiple

\* A multiple of a multiple is one.
LEMMA MultipleOfMultiple ==
  ASSUME NEW x \in Nat, NEW a \in Nat \ {0}, NEW m \in Nat \ {0}, x % a = 0, a % m = 0
  PROVE  x % m = 0
<1>1. PICK j \in Nat : x = j * a
  BY MultipleOf
<1>2. PICK k \in Nat : a = k * m
  BY MultipleOf
<1>3. x = (j * k) * m /\ j * k \in Nat
  BY <1>1, <1>2
<1> QED BY <1>3, ProductIsMultiple

\* The multiple before a number.
LEMMA DownGives ==
  ASSUME NEW x \in Nat, NEW m \in Nat \ {0}
  PROVE  /\ Booting!Down(x, m) \in Nat /\ Booting!Down(x, m) <= x /\ x < Booting!Down(x, m) + m
         /\ Booting!Down(x, m) % m = 0
<1>1. PICK r \in 0 .. (m - 1) : r = x % m
  OBVIOUS
<1>2. PICK k \in Nat : x = k * m + r
  <2>1. x = (x \div m) * m + (x % m) /\ x \div m \in Nat
    OBVIOUS
  <2> QED BY <1>1, <2>1
<1>3. Booting!Down(x, m) = k * m
  BY <1>1, <1>2 DEF Booting!Down
<1>4. k * m \in Nat
  OBVIOUS
<1>5. (k * m) % m = 0
  BY ProductIsMultiple
<1> QED BY <1>1, <1>2, <1>3, <1>4, <1>5

\* The next multiple of a number.
LEMMA UpGives ==
  ASSUME NEW x \in Nat, NEW m \in Nat \ {0}
  PROVE  /\ Booting!Up(x, m) \in Nat /\ x <= Booting!Up(x, m) /\ Booting!Up(x, m) < x + m
         /\ Booting!Up(x, m) % m = 0
<1>1. PICK y \in Nat : y = x + m - 1
  OBVIOUS
<1>2. Booting!Up(x, m) = Booting!Down(y, m)
  BY <1>1 DEF Booting!Up
<1>3. PICK d \in Nat : d = Booting!Down(y, m) /\ d <= y /\ y < d + m /\ d % m = 0
  BY DownGives
<1> QED BY <1>1, <1>2, <1>3

\* A multiple is its own next one.
LEMMA UpOfMultiple ==
  ASSUME NEW x \in Nat, NEW m \in Nat \ {0}, x % m = 0
  PROVE  Booting!Up(x, m) = x
<1>1. PICK k \in Nat : x = k * m
  BY MultipleOf
<1>2. PICK u \in Nat : u = Booting!Up(x, m) /\ x <= u /\ u < x + m /\ u % m = 0
  BY UpGives
<1>3. PICK j \in Nat : u = j * m
  BY <1>2, MultipleOf
<1>4. k * m >= j * m - m + 1
  BY <1>1, <1>2, <1>3
<1>5. k >= j
  BY <1>4, ProductOrder
<1>6. j * m >= k * m - m + 1
  BY <1>1, <1>2, <1>3
<1>7. j >= k
  BY <1>6, ProductOrder
<1> QED BY <1>1, <1>2, <1>3, <1>5, <1>7

\* The lesser of two numbers is one of them.
LEMMA LowerGives ==
  ASSUME NEW x \in Nat, NEW y \in Nat
  PROVE  /\ Booting!Lower(x, y) \in {x, y}
         /\ Booting!Lower(x, y) \in Nat
         /\ Booting!Lower(x, y) <= x /\ Booting!Lower(x, y) <= y
BY DEF Booting!Lower

\* The zone is at most half of the heap, and whole pages.
LEMMA ZoneOfHeap ==
  ASSUME NEW size0 \in HeapSizes
  PROVE  /\ Booting!SoZone(size0) \in Nat /\ Booting!SoZone(size0) % SmallPage = 0
         /\ 2 * Booting!SoZone(size0) <= size0 /\ size0 \in Nat /\ size0 % SmallPage = 0
<1>1. /\ size0 \in Nat /\ size0 % (2 * SmallPage) = 0 /\ SmallPage \in Nat \ {0}
      /\ SoRegion \in Nat /\ SoRegion % SmallPage = 0
  BY BootSizes
<1>2. PICK k \in Nat : size0 = k * (2 * SmallPage)
  <2>1. 2 * SmallPage \in Nat \ {0}
    BY <1>1
  <2> QED BY <1>1, <2>1, MultipleOf
<1>3. PICK h \in Nat : h = k * SmallPage
  BY <1>1
<1>4. size0 = 2 * h
  BY <1>1, <1>2, <1>3
<1>5. h = size0 \div 2 /\ h % SmallPage = 0
  BY <1>1, <1>3, <1>4, ProductIsMultiple
<1>6. Booting!SoZone(size0) = Booting!Lower(SoRegion, h)
  BY <1>5 DEF Booting!SoZone
<1>7. PICK z \in Nat : z = Booting!Lower(SoRegion, h) /\ z \in {SoRegion, h} /\ z <= h
  BY <1>1, LowerGives
<1>8. size0 % SmallPage = 0
  <2>1. (h + h) % SmallPage = 0
    BY <1>1, <1>5, SumOfMultiples
  <2>2. size0 = h + h
    BY <1>4
  <2> QED BY <2>1, <2>2
<1>9. z % SmallPage = 0
  BY <1>1, <1>5, <1>7
<1> QED BY <1>1, <1>4, <1>6, <1>7, <1>8, <1>9

\* What the arena gets of a roomy heap: whole units, and less than newlib keeps.
LEMMA ArenaOfHeap ==
  ASSUME NEW size0 \in HeapSizes, Booting!Roomy(size0)
  PROVE  /\ Booting!ArenaBytes(size0) \in Nat /\ Booting!ArenaBytes(size0) % Align = 0
         /\ size0 - Booting!SoZone(size0) - Align - Booting!ArenaBytes(size0) >= Floor
         /\ size0 - Booting!SoZone(size0) - Align - Booting!ArenaBytes(size0)
              > Booting!ArenaBytes(size0)
<1>1. PICK z \in Nat : z = Booting!SoZone(size0)
  BY ZoneOfHeap
<1>2. /\ size0 \in Nat /\ Align \in Nat \ {0} /\ Floor \in Nat /\ Extra \in Nat
      /\ MapReserve \in Nat /\ MapReserve % Align = 0
  BY BootSizes
<1>3. size0 > z + Align + Floor + Extra
  BY <1>1 DEF Booting!Roomy
<1>4. PICK v \in Nat : v = size0 - z - Align /\ v >= Floor /\ v > 0
  BY <1>2, <1>3
<1>5. PICK r \in Nat : r = v - Floor
  BY <1>2, <1>4
<1>6. PICK q \in Nat : q = (v * 30) \div 100 /\ 100 * q <= 30 * v
  OBVIOUS
<1>7. PICK d \in Nat : d = Booting!Down(r, Align) /\ d <= r /\ d % Align = 0
  BY <1>2, DownGives
<1>8. PICK c \in Nat : c = Booting!Down(q, Align) /\ c <= q /\ c % Align = 0
  BY <1>2, DownGives
<1>9. PICK l \in Nat : l = Booting!Lower(MapReserve, d) /\ l \in {MapReserve, d} /\ l <= d
  BY <1>2, LowerGives
<1>10. PICK b \in Nat : b = Booting!Lower(l, c) /\ b \in {l, c} /\ b <= l /\ b <= c
  BY LowerGives
<1>11. Booting!ArenaBytes(size0) = b
  <2>1. Booting!Capped(size0) = c
    BY <1>1, <1>4, <1>6, <1>8 DEF Booting!Capped
  <2>2. size0 - z - Align - Floor = r
    BY <1>2, <1>4, <1>5
  <2> QED BY <1>1, <1>7, <1>9, <1>10, <2>1, <2>2 DEF Booting!ArenaBytes
<1>12. b % Align = 0
  BY <1>2, <1>7, <1>8, <1>9, <1>10
<1>13. v - b >= Floor /\ v - b > b
  BY <1>2, <1>4, <1>5, <1>6, <1>7, <1>8, <1>9, <1>10
<1> QED BY <1>1, <1>2, <1>4, <1>11, <1>12, <1>13

\* The heap is cut without overlap.
LEMMA HeapIsCut ==
  ASSUME NEW addr \in Addrs, NEW size0 \in HeapSizes, NEW h,
         h = [addr |-> addr, size |-> size0, fake |-> Booting!FakeHeap(size0),
              so |-> Booting!SoBase(addr, size0), zone |-> Booting!SoZone(size0),
              arena |-> IF Booting!ArenaBytes(size0) = 0 THEN 0
                        ELSE Booting!ArenaBase(addr, size0),
              bytes |-> Booting!ArenaBytes(size0)]
  PROVE  Booting!CutSound(h)
<1>1. /\ addr \in Nat /\ addr % SmallPage = 0 /\ SmallPage \in Nat \ {0}
      /\ Align \in Nat \ {0} /\ Align % SmallPage = 0 /\ Floor \in Nat /\ Extra \in Nat
  BY BootSizes
<1>2. PICK s \in Nat : s = size0 /\ s % SmallPage = 0
  BY ZoneOfHeap
<1>3. PICK z \in Nat : z = Booting!SoZone(size0) /\ z % SmallPage = 0 /\ 2 * z <= s
  BY <1>2, ZoneOfHeap
<1>4. CASE Booting!Roomy(size0)
  <2>1. PICK b \in Nat : /\ b = Booting!ArenaBytes(size0) /\ b % Align = 0
                         /\ s - z - Align - b >= Floor /\ s - z - Align - b > b
    BY <1>2, <1>3, <1>4, ArenaOfHeap
  <2>2. PICK f \in Nat : f = s - z - b - Align /\ f >= Floor /\ f > b
    BY <1>1, <1>2, <1>3, <2>1
  <2>3. f = Booting!FakeHeap(size0)
    BY <1>2, <1>3, <1>4, <2>1, <2>2 DEF Booting!FakeHeap
  <2>4. f % SmallPage = 0
    <3>1. b % SmallPage = 0
      BY <1>1, <2>1, MultipleOfMultiple
    <3>2. PICK u \in Nat : u = b + Align /\ u % SmallPage = 0
      <4>1. (b + Align) % SmallPage = 0
        BY <1>1, <3>1, SumOfMultiples
      <4> QED BY <1>1, <4>1
    <3>3. PICK w \in Nat : w = z + u /\ w % SmallPage = 0
      <4>1. (z + u) % SmallPage = 0
        BY <1>1, <1>3, <3>2, SumOfMultiples
      <4> QED BY <4>1
    <3>4. s >= w /\ f = s - w
      BY <1>1, <2>2, <3>2, <3>3
    <3>5. (s - w) % SmallPage = 0
      <4>1. SmallPage \in Nat \ {0} /\ s % SmallPage = 0 /\ w % SmallPage = 0 /\ s >= w
        BY <1>1, <1>2, <3>3, <3>4
      <4> QED BY <4>1, SumOfMultiples, Zenon
    <3> QED BY <3>4, <3>5
  <2>5. PICK so \in Nat : so = addr + f /\ so % SmallPage = 0
    <3>1. (addr + f) % SmallPage = 0
      BY <1>1, <2>4, SumOfMultiples
    <3> QED BY <1>1, <3>1
  <2>6. Booting!SoBase(addr, size0) = so
    BY <1>1, <2>3, <2>5, UpOfMultiple DEF Booting!SoBase
  <2>7. PICK e \in Nat : e = so + z
    OBVIOUS
  <2>8. PICK a \in Nat : a = Booting!Up(e, Align) /\ e <= a /\ a < e + Align /\ a % Align = 0
    BY <1>1, UpGives
  <2>9. Booting!ArenaBase(addr, size0) = a
    BY <1>3, <2>6, <2>7, <2>8 DEF Booting!ArenaBase
  <2>10. /\ h.addr = addr /\ h.size = s /\ h.fake = f /\ h.so = so /\ h.zone = z /\ h.bytes = b
         /\ b > 0 => h.arena = a
    BY <1>2, <1>3, <2>1, <2>3, <2>6, <2>9
  <2>11. e <= addr + s /\ a + b <= addr + s
    BY <1>1, <2>2, <2>5, <2>7, <2>8
  <2> QED BY <2>1, <2>2, <2>5, <2>7, <2>8, <2>10, <2>11 DEF Booting!CutSound
<1>5. CASE ~ Booting!Roomy(size0)
  <2>1. Booting!ArenaBytes(size0) = 0
    BY <1>5 DEF Booting!ArenaBytes
  <2>2. PICK f \in Nat : f = s - z
    BY <1>3
  <2>3. Booting!FakeHeap(size0) = f
    <3>1. CASE s > z
      BY <1>2, <1>3, <1>5, <2>2, <3>1 DEF Booting!FakeHeap
    <3>2. CASE ~ (s > z)
      <4>1. s = 0 /\ z = 0 /\ s \div 2 = 0
        BY <1>3, <3>2
      <4> QED BY <1>2, <1>3, <1>5, <2>2, <3>2, <4>1 DEF Booting!FakeHeap
    <3> QED BY <3>1, <3>2
  <2>4. f % SmallPage = 0
    BY <1>1, <1>2, <1>3, <2>2, SumOfMultiples
  <2>5. PICK so \in Nat : so = addr + f /\ so % SmallPage = 0
    <3>1. (addr + f) % SmallPage = 0
      BY <1>1, <2>4, SumOfMultiples
    <3> QED BY <1>1, <3>1
  <2>6. Booting!SoBase(addr, size0) = so
    BY <1>1, <2>3, <2>5, UpOfMultiple DEF Booting!SoBase
  <2>7. /\ h.addr = addr /\ h.size = s /\ h.fake = f /\ h.so = so /\ h.zone = z /\ h.bytes = 0
    BY <1>2, <1>3, <2>1, <2>3, <2>6
  <2>8. so + z <= addr + s
    BY <1>1, <2>2, <2>5
  <2> QED BY <2>5, <2>7, <2>8 DEF Booting!CutSound
<1> QED BY <1>4, <1>5

\* The boot as it begins.
LEMMA MemInit == Booting!Init => MemInv
<1> SUFFICES ASSUME Booting!Init PROVE MemInv
  OBVIOUS
<1>1. /\ pc = "heap" /\ hole = [a |-> StackFirst, base |-> 0, len |-> 0]
      /\ win = [base |-> 0, size |-> 0] /\ pool = 0 /\ armed = FALSE
  BY DEF Booting!Init, Booting!NoWindow
<1>2. MemStates /\ HoleSound
  <2>1. StackFirst \in Nat /\ 0 \in 0 .. (StackEnd - StackFirst)
    BY BootSizes
  <2>2. hole \in [a : Nat, base : Nat, len : 0 .. (StackEnd - StackFirst)]
    BY <1>1, <2>1
  <2> QED BY <1>1, <2>2 DEF MemStates, HoleSound
<1>3. WindowFound
  <2>1. Booting!Range(win) = {}
    BY <1>1 DEF Booting!Range
  <2>2. 0 % Align = 0 /\ 0 <= Want
    BY BootSizes
  <2> QED BY <1>1, <2>1, <2>2 DEF WindowFound
<1>4. GotSoFar
  BY <1>1 DEF GotSoFar
<1> QED BY <1>2, <1>3, <1>4 DEF MemInv

\* A query finds a longer hole or moves on.
LEMMA QueryKeeps ==
  ASSUME MemInv, Booting!QuerySpan
  PROVE  /\ hole' \in [a : Nat, base : Nat, len : 0 .. (StackEnd - StackFirst)]
         /\ mapped' = mapped /\ HoleSound'
<1>1. /\ pc = "scan" /\ mapped' = mapped
      /\ hole \in [a : Nat, base : Nat, len : 0 .. (StackEnd - StackFirst)]
  BY DEF Booting!QuerySpan, MemInv, MemStates
<1>2. PICK s \in Booting!Spans(hole.a) : hole' = Booting!Longest(s)
  BY DEF Booting!QuerySpan
<1>3. /\ s \in (0 .. hole.a) \X (hole.a .. Top) /\ Booting!SameKind(s[1], s[2])
  BY <1>2 DEF Booting!Spans
<1>4. PICK p \in Nat, q \in Nat : p = s[1] /\ q = s[2] /\ p <= q
  BY <1>1, <1>3
<1>5. /\ StackFirst \in Nat \ {0} /\ StackEnd \in Nat
  BY BootSizes
<1>6. PICK f \in Nat : /\ f = Booting!HoleFirst(s) /\ StackFirst <= f /\ p <= f
                       /\ f \in {p, StackFirst}
  BY <1>4, <1>5 DEF Booting!HoleFirst
<1>7. PICK e \in Nat : e = Booting!HoleEnd(s) /\ e <= StackEnd /\ e <= q + 1
  BY <1>4, <1>5 DEF Booting!HoleEnd, Booting!Lower
<1>8. CASE s[1] \notin mapped /\ e - f > hole.len
  <2>1. hole' = [a |-> q + 1, base |-> f, len |-> e - f]
    BY <1>2, <1>4, <1>6, <1>7, <1>8 DEF Booting!Longest
  <2>2. e - f \in 0 .. (StackEnd - StackFirst) /\ e - f # 0 /\ f + (e - f) = e
    BY <1>1, <1>5, <1>6, <1>7, <1>8
  <2>3. (f .. (e - 1)) \cap mapped = {}
    <3> SUFFICES ASSUME NEW x \in f .. (e - 1) PROVE x \notin mapped
      OBVIOUS
    <3>1. x \in p .. q /\ p \in p .. q
      BY <1>4, <1>6, <1>7
    <3> QED BY <1>3, <1>4, <1>8, <3>1 DEF Booting!SameKind
  <2>4. hole'.base = f /\ hole'.len = e - f
    BY <2>1
  <2>5. hole'.base + hole'.len - 1 = e - 1
    BY <2>2, <2>4
  <2>6. HoleSound'
    BY <1>1, <1>6, <1>7, <2>2, <2>3, <2>4, <2>5 DEF HoleSound
  <2> QED BY <1>1, <2>1, <2>2, <2>6
<1>9. CASE ~ (s[1] \notin mapped /\ e - f > hole.len)
  <2>1. hole' = [hole EXCEPT !.a = q + 1]
    BY <1>2, <1>4, <1>6, <1>7, <1>9 DEF Booting!Longest
  <2>2. /\ hole' \in [a : Nat, base : Nat, len : 0 .. (StackEnd - StackFirst)]
        /\ hole'.base = hole.base /\ hole'.len = hole.len
    BY <1>1, <2>1
  <2> QED BY <1>1, <2>2 DEF MemInv, HoleSound
<1> QED BY <1>8, <1>9

\* The window is cut from the longest hole.
LEMMA WindowCutFrom ==
  ASSUME MemInv, win' = Booting!Window, mapped' = mapped
  PROVE  win' \in [base : Nat, size : Nat] /\ WindowFound'
<1>1. /\ hole.base \in Nat /\ hole.len \in 0 .. (StackEnd - StackFirst) /\ HoleSound
      /\ Align \in Nat \ {0} /\ Want \in Nat /\ Want % Align = 0
      /\ StackFirst \in Nat \ {0} /\ StackEnd \in Nat
  BY BootSizes DEF MemInv, MemStates
<1>2. PICK b \in Nat, l \in Nat : b = hole.base /\ l = hole.len
  BY <1>1
<1>3. PICK f \in Nat : f = Booting!Up(b, Align) /\ b <= f /\ f % Align = 0
  BY <1>1, UpGives
<1>4. CASE Booting!Window = Booting!NoWindow
  <2>1. win' = [base |-> 0, size |-> 0]
    BY <1>4 DEF Booting!NoWindow
  <2>2. win'.base = 0 /\ win'.size = 0 /\ win' \in [base : Nat, size : Nat]
    BY <2>1
  <2>3. Booting!Range(win') = {}
    BY <2>2 DEF Booting!Range
  <2>4. 0 % Align = 0 /\ 0 <= Want
    BY <1>1
  <2> QED BY <2>2, <2>3, <2>4 DEF WindowFound
<1>5. CASE Booting!Window # Booting!NoWindow
  <2>1. b # 0 /\ f < b + l
    BY <1>2, <1>3, <1>5 DEF Booting!Window
  <2>2. PICK r \in Nat : r = b + l - f
    BY <2>1
  <2>3. PICK v \in Nat : v = Booting!Down(r, Align) /\ v <= r /\ v % Align = 0
    BY <1>1, DownGives
  <2>4. PICK n \in Nat : n = Booting!Lower(v, Want) /\ n \in {v, Want} /\ n <= v /\ n <= Want
    BY <1>1, LowerGives
  <2>5. win' = [base |-> f, size |-> n]
    BY <1>2, <1>3, <1>5, <2>2, <2>3, <2>4 DEF Booting!Window
  <2>6. win'.base = f /\ win'.size = n /\ win' \in [base : Nat, size : Nat]
    BY <2>5
  <2>7. n % Align = 0
    BY <1>1, <2>3, <2>4
  <2>8. Booting!Range(win') = f .. (f + n - 1)
    BY <2>6 DEF Booting!Range
  <2>9. f .. (f + n - 1) \subseteq b .. (b + l - 1)
    BY <1>3, <2>2, <2>3, <2>4
  <2>10. l # 0 /\ StackFirst <= b /\ b + l <= StackEnd /\ (b .. (b + l - 1)) \cap mapped = {}
    BY <1>1, <1>2, <2>1 DEF HoleSound
  <2>11. b .. (b + l - 1) \subseteq StackFirst .. (StackEnd - 1)
    BY <1>1, <2>10
  <2> QED BY <1>3, <2>4, <2>6, <2>7, <2>8, <2>9, <2>10, <2>11 DEF WindowFound
<1> QED BY <1>4, <1>5

\* What main got of the boot is as the steps leave it.
LEMMA MemStep == MemInv /\ [Booting!Next]_bootingVars => MemInv'
<1> SUFFICES ASSUME MemInv, [Booting!Next]_bootingVars PROVE MemInv'
  OBVIOUS
<1>1. CASE UNCHANGED bootingVars
  BY <1>1 DEF bootingVars, MemInv, MemStates, HoleSound, WindowFound, GotSoFar, ReservedSo,
    Booting!Range, Booting!CutSound, Booting!PoolFits
<1>2. CASE Booting!InitHeap
  <2>1. /\ pc = "heap" /\ pc' = "scan" /\ UNCHANGED <<mapped, hole, win, reserved, pool, armed>>
    BY <1>2 DEF Booting!InitHeap
  <2>2. Booting!CutSound(heap')
    BY <1>2, HeapIsCut DEF Booting!InitHeap
  <2>3. pool = 0 /\ armed = FALSE
    BY <2>1 DEF MemInv, GotSoFar, MemStates
  <2>4. GotSoFar'
    BY <2>1, <2>2, <2>3 DEF GotSoFar, Booting!CutSound
  <2> QED BY <2>1, <2>4 DEF MemInv, MemStates, HoleSound, WindowFound, Booting!Range
<1>3. CASE Booting!QuerySpan
  <2>1. UNCHANGED <<pc, heap, mapped, win, reserved, pool, armed>>
    BY <1>3 DEF Booting!QuerySpan
  <2>2. hole' \in [a : Nat, base : Nat, len : 0 .. (StackEnd - StackFirst)] /\ HoleSound'
    BY <1>3, QueryKeeps
  <2> QED BY <2>1, <2>2 DEF MemInv, MemStates, WindowFound, GotSoFar, ReservedSo,
    Booting!Range, Booting!CutSound, Booting!PoolFits
<1>4. CASE Booting!EndScan
  <2>1. /\ pc = "scan" /\ pc' = "arm" /\ UNCHANGED <<heap, mapped, hole, reserved, pool, armed>>
    BY <1>4 DEF Booting!EndScan
  <2>2. win' \in [base : Nat, size : Nat] /\ WindowFound'
    BY <1>4, <2>1, WindowCutFrom DEF Booting!EndScan
  <2>3. pool = 0 /\ armed = FALSE
    BY <2>1 DEF MemInv, GotSoFar, MemStates
  <2> QED BY <2>1, <2>2, <2>3 DEF MemInv, MemStates, HoleSound, GotSoFar, Booting!CutSound
<1>5. CASE Booting!ReserveWindow
  <2>1. /\ pc = "arm" /\ win.size > 0 /\ UNCHANGED <<heap, mapped, hole, win, pool, armed>>
        /\ \/ reserved' = Booting!Range(win) /\ pc' = "pool"
           \/ UNCHANGED reserved /\ pc' = "booted"
    BY <1>5 DEF Booting!ReserveWindow
  <2>2. pool = 0 /\ armed = FALSE
    BY <2>1 DEF MemInv, GotSoFar, MemStates
  <2> QED BY <2>1, <2>2 DEF MemInv, MemStates, HoleSound, WindowFound, GotSoFar, ReservedSo,
    Booting!Range, Booting!CutSound
<1>6. CASE Booting!NoHole
  <2>1. /\ pc = "arm" /\ pc' = "booted"
        /\ UNCHANGED <<heap, mapped, hole, win, reserved, pool, armed>>
    BY <1>6 DEF Booting!NoHole
  <2>2. pool = 0 /\ armed = FALSE
    BY <2>1 DEF MemInv, GotSoFar, MemStates
  <2> QED BY <2>1, <2>2 DEF MemInv, MemStates, HoleSound, WindowFound, GotSoFar,
    Booting!Range, Booting!CutSound
<1>7. CASE Booting!MakePool
  <2>1. /\ pc = "pool" /\ pc' = "init" /\ UNCHANGED <<heap, mapped, hole, win, reserved, armed>>
        /\ pool' = pool \/ Booting!PoolFits(pool')
    BY <1>7 DEF Booting!MakePool
  <2>2. pool = 0 /\ armed = FALSE
    BY <2>1 DEF MemInv, GotSoFar, MemStates
  <2> QED BY <2>1, <2>2 DEF MemInv, MemStates, HoleSound, WindowFound, GotSoFar, ReservedSo,
    Booting!Range, Booting!CutSound, Booting!PoolFits
<1>8. CASE Booting!ArenaInit
  <2>1. /\ pc = "init" /\ pc' = "booted" /\ UNCHANGED <<heap, mapped, hole, win, reserved, pool>>
        /\ armed' \in BOOLEAN /\ (pool = 0 => armed' = FALSE)
    BY <1>8 DEF Booting!ArenaInit
  <2> QED BY <2>1 DEF MemInv, MemStates, HoleSound, WindowFound, GotSoFar, ReservedSo,
    Booting!Range, Booting!CutSound, Booting!PoolFits
<1> QED BY <1>1, <1>2, <1>3, <1>4, <1>5, <1>6, <1>7, <1>8 DEF Booting!Next

\* From it follows what the run checks of the boot.
LEMMA MemFollows == MemInv => Booting!TypeOK /\ Booting!MemoryLaidOut
BY DEF MemInv, MemStates, GotSoFar, ReservedSo, WindowFound, Booting!TypeOK, Booting!MemoryLaidOut,
  Booting!WindowSound

-----------------------------------------------------------------------------
(* The patches of the game's code (CodePatches).                           *)

Plan == Patching!Plan
Words == Patching!Words
PatchPlaces == {"compare", "reserve", "map", "write", "release", "running"}
Settled(w) == words[w] = "to" <=> w \notin failed
Untried(w) == words[w] = card[w] /\ w \notin failed
Fitting(k) == \A w \in Plan[k].checks : card[w] = "from"
AsPlanned(k) == \A w \in Patching!Written(k) :
                  IF Fitting(k) THEN Settled(w) ELSE words[w] = card[w]
Ahead(k) == \A w \in Patching!Written(k) : Untried(w)

PatchWords ==
  /\ card \in [Words -> {"from", "other"}] /\ words \in [Words -> {"from", "other", "to"}]
  /\ \A w \in Words : words[w] \in {card[w], "to"}
PatchAts == [patch : 1 .. 7, call : Nat, at : PatchPlaces]
PatchStates == PatchWords /\ patchAt \in PatchAts

\* The patches behind are as planned, those ahead not tried, and of the one it is at
\* the words are right, the calls behind done or failed, the others ahead.
CallDone(i) == i < patchAt.call \/ (i = patchAt.call /\ patchAt.at = "release")
PlanSound ==
  /\ \A k \in 1 .. 7 : k < patchAt.patch \/ patchAt.at = "running" => AsPlanned(k)
  /\ \A k \in 1 .. 7 : k > patchAt.patch => Ahead(k)
  /\ patchAt.at = "running" => patchAt.patch = 7
  /\ patchAt.at = "compare" => patchAt.call = 0 /\ Ahead(patchAt.patch)
  /\ patchAt.at \notin {"compare", "running"} =>
       /\ patchAt.call \in 1 .. Len(Plan[patchAt.patch].calls) /\ Fitting(patchAt.patch)
       /\ \A i \in 1 .. Len(Plan[patchAt.patch].calls) :
            IF CallDone(i) THEN Settled(Plan[patchAt.patch].calls[i])
                           ELSE Untried(Plan[patchAt.patch].calls[i])

\* The entries are never written, and the grant waits once they were found to be right.
EntriesRight == \A w \in Entries : card[w] = "from"
EntriesKept ==
  /\ \A w \in Entries : words[w] = card[w]
  /\ patchAt.patch > 5 \/ (patchAt.patch = 5 /\ patchAt.at # "compare") =>
       (EntriesRight => grant > 0)

AliasesCounted == aliases = IF patchAt.at \in {"map", "write", "release"} THEN 1 ELSE 0

\* The calls of the game's methods, and what is in its save data and in the file.
GrantSound ==
  /\ grant \in 0 .. 2 /\ buying \in {"no", "second", "mark", "save"} /\ ready \in BOOLEAN
  /\ writing \in BOOLEAN /\ refused \in BOOLEAN
  /\ bought \subseteq {0, 1} /\ view \subseteq {0, 1} /\ saved \subseteq {0, 1}
  /\ patchAt.at # "running" => grant # 2 /\ buying = "no" /\ ~ writing
  /\ grant > 0 => EntriesRight
  /\ buying # "no" => ready /\ grant > 0
  /\ buying \in {"second", "mark"} => grant = 1 /\ 0 \in bought
  /\ buying = "mark" \/ grant = 2 => bought = {0, 1}
  /\ buying = "save" => grant = 2
  /\ grant = 2 /\ buying = "no" /\ ~ writing /\ ~ refused => view = {0, 1}

PatchInv == PatchStates /\ PlanSound /\ EntriesKept /\ AliasesCounted /\ GrantSound

\* What the plan is.
LEMMA PlanIs ==
  /\ Len(Plan) = 7 /\ DOMAIN Plan = 1 .. 7 /\ Entries \subseteq Words
  /\ \A k \in 1 .. 7 :
       /\ Plan[k].calls \in Seq(Words) /\ Plan[k].checks \subseteq Words
       /\ Patching!Written(k) \subseteq Words
       /\ Patching!Written(k) = { Plan[k].calls[i] : i \in 1 .. Len(Plan[k].calls) }
       /\ \A i, j \in 1 .. Len(Plan[k].calls) : Plan[k].calls[i] = Plan[k].calls[j] => i = j
       /\ Entries \cap Patching!Written(k) = {}
       /\ Plan[k].checks \subseteq Entries \cup Patching!Written(k)
  /\ \A j, k \in 1 .. 7 : j # k => Patching!Written(j) \cap Patching!Written(k) = {}
  /\ Entries \subseteq Plan[5].checks
<1>1. /\ Regions \in Seq(Words) /\ Hooks \in Seq(Words)
      /\ \A j, k \in DOMAIN Plan : j # k => Patching!Written(j) \cap Patching!Written(k) = {}
      /\ \A k \in DOMAIN Plan :
           /\ Entries \cap Patching!Written(k) = {}
           /\ \A i, j \in DOMAIN Plan[k].calls : Plan[k].calls[i] = Plan[k].calls[j] => i = j
  BY PatchingAssumption DEF Patching!PatchesAssumption, Plan, Words
<1>2. /\ Plan = << Plan[1], Plan[2], Plan[3], Plan[4], Plan[5], Plan[6], Plan[7] >>
      /\ Plan[1] = [checks |-> {"setOutput"}, calls |-> <<"setOutput">>]
      /\ Plan[2] = [checks |-> {"choreo0", "choreo1"}, calls |-> <<"choreo0", "choreo1">>]
      /\ Plan[3] = [checks |-> Patching!Sites(Regions), calls |-> Regions]
      /\ Plan[4] = [checks |-> {"initPayment"}, calls |-> <<"initPayment">>]
      /\ Plan[5] = [checks |-> Entries \cup {"isUseShop"}, calls |-> <<"isUseShop">>]
      /\ Plan[6] = [checks |-> Entries \cup {"getPrice"}, calls |-> <<"getPrice">>]
      /\ Plan[7] = [checks |-> {}, calls |-> Hooks]
  BY DEF Plan, Patching!Plan, Patching!One, Patching!Shop
<1>3. Len(Plan) = 7 /\ DOMAIN Plan = 1 .. 7
  BY <1>2
<1>4. Entries \subseteq Words
  BY DEF Words, Patching!Words
<1>5. ASSUME NEW k \in 1 .. 7
      PROVE  Plan[k].checks \subseteq Words /\ Patching!Sites(Plan[k].calls) \subseteq Words
  <2>1. Plan[k] \in Patching!Sites(Plan)
    BY <1>3 DEF Patching!Sites
  <2> QED BY <2>1 DEF Words, Patching!Words, Plan
<1>6. ASSUME NEW k \in 1 .. 7
      PROVE  Patching!Written(k) = { Plan[k].calls[i] : i \in DOMAIN Plan[k].calls }
  BY DEF Patching!Written, Patching!Sites, Plan
<1>7. ASSUME NEW k \in 1 .. 7
      PROVE  Plan[k].calls \in Seq(Words)
  <2>1. CASE k \in {1, 4, 5, 6}
    <3>1. PICK w : Plan[k].calls = <<w>> /\ w \in Plan[k].checks
      BY <1>2, <2>1
    <3> QED BY <1>5, <3>1
  <2>2. CASE k = 2
    <3>1. Plan[k].calls = <<"choreo0", "choreo1">> /\ Plan[k].checks = {"choreo0", "choreo1"}
      BY <1>2, <2>2
    <3> QED BY <1>5, <3>1
  <2>3. CASE k \in {3, 7}
    BY <1>1, <1>2, <2>3
  <2> QED BY <2>1, <2>2, <2>3
<1>8. ASSUME NEW k \in 1 .. 7
      PROVE  /\ Patching!Written(k) \subseteq Words
             /\ Patching!Written(k) = { Plan[k].calls[i] : i \in 1 .. Len(Plan[k].calls) }
             /\ Entries \cap Patching!Written(k) = {}
             /\ \A i, j \in 1 .. Len(Plan[k].calls) : Plan[k].calls[i] = Plan[k].calls[j] => i = j
  <2>1. DOMAIN Plan[k].calls = 1 .. Len(Plan[k].calls)
    BY <1>7
  <2>2. \A i \in DOMAIN Plan[k].calls : Plan[k].calls[i] \in Words
    BY <1>7
  <2>3. /\ Entries \cap Patching!Written(k) = {}
        /\ \A i, j \in DOMAIN Plan[k].calls : Plan[k].calls[i] = Plan[k].calls[j] => i = j
    BY <1>1, <1>3
  <2>4. Patching!Written(k) = { Plan[k].calls[i] : i \in DOMAIN Plan[k].calls }
    BY <1>6
  <2>5. \A i, j \in 1 .. Len(Plan[k].calls) : Plan[k].calls[i] = Plan[k].calls[j] => i = j
    BY <2>1, <2>3
  <2>6. Patching!Written(k) \subseteq Words
    BY <2>2, <2>4
  <2> QED BY <2>1, <2>3, <2>4, <2>5, <2>6
<1>9. Entries \subseteq Plan[5].checks
  BY <1>2
<1>10. ASSUME NEW k \in 1 .. 7
       PROVE  Plan[k].checks \subseteq Entries \cup Patching!Written(k)
  <2>1. CASE k \in {1, 4, 5, 6}
    <3>1. PICK w : Plan[k].calls = <<w>> /\ Plan[k].checks \subseteq Entries \cup {w}
      BY <1>2, <2>1
    <3>2. 1 \in DOMAIN Plan[k].calls /\ Plan[k].calls[1] = w
      BY <3>1
    <3> QED BY <1>6, <3>1, <3>2
  <2>2. CASE k = 2
    <3>1. Plan[k].calls = <<"choreo0", "choreo1">> /\ Plan[k].checks = {"choreo0", "choreo1"}
      BY <1>2, <2>2
    <3>2. /\ 1 \in DOMAIN Plan[k].calls /\ Plan[k].calls[1] = "choreo0"
          /\ 2 \in DOMAIN Plan[k].calls /\ Plan[k].calls[2] = "choreo1"
      BY <3>1
    <3> QED BY <1>6, <3>1, <3>2
  <2>3. CASE k = 3
    <3>1. Plan[k].calls = Regions /\ Plan[k].checks = Patching!Sites(Regions)
      BY <1>2, <2>3
    <3> QED BY <1>6, <3>1 DEF Patching!Sites
  <2>4. CASE k = 7
    BY <1>2, <2>4
  <2> QED BY <2>1, <2>2, <2>3, <2>4
<1> QED BY <1>1, <1>3, <1>4, <1>5, <1>7, <1>8, <1>9, <1>10

\* The calls of a patch are what it writes.
LEMMA CallsOf ==
  ASSUME NEW k \in 1 .. 7
  PROVE  /\ Len(Plan[k].calls) \in Nat
         /\ Patching!Written(k) = { Plan[k].calls[i] : i \in 1 .. Len(Plan[k].calls) }
         /\ \A i \in 1 .. Len(Plan[k].calls) : /\ Plan[k].calls[i] \in Patching!Written(k)
                                             /\ Plan[k].calls[i] \in Words
                                             /\ Plan[k].calls[i] \notin Entries
         /\ \A i, j \in 1 .. Len(Plan[k].calls) : i # j => Plan[k].calls[i] # Plan[k].calls[j]
<1>1. Plan[k].calls \in Seq(Words)
  BY PlanIs
<1>2. Patching!Written(k) = { Plan[k].calls[i] : i \in 1 .. Len(Plan[k].calls) }
  BY PlanIs
<1>3. Len(Plan[k].calls) \in Nat
  BY <1>1
<1>4. \A i \in 1 .. Len(Plan[k].calls) : Plan[k].calls[i] \in Words
  BY <1>1
<1>5. \A i \in 1 .. Len(Plan[k].calls) : Plan[k].calls[i] \in Patching!Written(k)
  BY <1>2
<1>6. Entries \cap Patching!Written(k) = {}
  BY PlanIs
<1>7. \A i, j \in 1 .. Len(Plan[k].calls) : i # j => Plan[k].calls[i] # Plan[k].calls[j]
  BY PlanIs
<1> QED BY <1>2, <1>3, <1>4, <1>5, <1>6, <1>7

\* The code as the game's files hold it.
LEMMA PatchInit == Patching!Init => PatchInv
<1> SUFFICES ASSUME Patching!Init PROVE PatchInv
  OBVIOUS
<1>1. /\ card \in Games /\ words = card /\ patchAt = [patch |-> 1, call |-> 0, at |-> "compare"]
      /\ aliases = 0 /\ failed = {} /\ grant = 0 /\ ready = FALSE /\ buying = "no"
      /\ bought = {} /\ view = {} /\ saved = {} /\ writing = FALSE /\ refused = FALSE
  BY DEF Patching!Init, Patching!First
<1>2. card \in [Words -> {"from", "other"}]
  BY <1>1, PatchingAssumption DEF Patching!PatchesAssumption, Words
<1>3. PatchStates
  BY <1>1, <1>2 DEF PatchStates, PatchWords, PatchAts, PatchPlaces
<1>4. \A k : Ahead(k)
  BY <1>1 DEF Ahead, Untried
<1>5. PlanSound
  BY <1>1, <1>4 DEF PlanSound
<1>6. EntriesKept
  BY <1>1 DEF EntriesKept
<1>7. AliasesCounted
  BY <1>1 DEF AliasesCounted
<1>8. ready \in BOOLEAN /\ writing \in BOOLEAN /\ refused \in BOOLEAN
  BY <1>1
<1>9. GrantSound
  BY <1>1, <1>8 DEF GrantSound
<1> QED BY <1>3, <1>5, <1>6, <1>7, <1>9 DEF PatchInv

\* Where main is after a call of so_patch_code, or after the words were compared.
Onward == \/ patchAt'.patch = patchAt.patch /\ patchAt'.at = "reserve"
          \/ patchAt'.patch = patchAt.patch + 1 /\ patchAt'.at = "compare"
          \/ patchAt.patch = 7 /\ patchAt'.patch = 7 /\ patchAt'.at = "running"

\* A word the game's files hold is never the patched one.
LEMMA NeverTo == ASSUME PatchStates, NEW w \in Words PROVE card[w] # "to"
BY DEF PatchStates, PatchWords

\* The next patch is taken up when one is done with.
LEMMA TakesUp ==
  ASSUME PatchWords', NEW k \in 1 .. 7, k = patchAt.patch, patchAt \in PatchAts,
         \A j \in 1 .. 7 : j <= k => AsPlanned(j)', \A j \in 1 .. 7 : j > k => Ahead(j)',
         patchAt' = Patching!NextPatch
  PROVE  PatchStates' /\ PlanSound' /\ Onward
<1>1. CASE k = 7
  <2>1. patchAt' = [patchAt EXCEPT !.at = "running"]
    BY <1>1, PlanIs DEF Patching!NextPatch, Plan
  <2>2. patchAt'.at = "running" /\ patchAt'.patch = 7 /\ patchAt' \in PatchAts
    BY <1>1, <2>1 DEF PatchAts, PatchPlaces
  <2> QED BY <1>1, <2>2 DEF PatchStates, PlanSound, Onward
<1>2. CASE k # 7
  <2>1. patchAt' = [patch |-> k + 1, call |-> 0, at |-> "compare"]
    BY <1>2, PlanIs DEF Patching!NextPatch, Plan
  <2>2. /\ patchAt'.patch = k + 1 /\ patchAt'.call = 0 /\ patchAt'.at = "compare"
        /\ k + 1 \in 1 .. 7 /\ patchAt' \in PatchAts
    BY <1>2, <2>1 DEF PatchAts, PatchPlaces
  <2>3. /\ \A j \in 1 .. 7 : j < k + 1 => AsPlanned(j)'
        /\ \A j \in 1 .. 7 : j > k + 1 => Ahead(j)'
    OBVIOUS
  <2>4. Ahead(patchAt.patch)'
    <3>1. \A j \in 1 .. 7 : j = patchAt'.patch => Ahead(j)'
      BY <2>2
    <3> QED BY <2>2, <3>1 DEF Ahead, Untried
  <2> QED BY <2>2, <2>3, <2>4 DEF PatchStates, PlanSound, Onward
<1> QED BY <1>1, <1>2

\* What is known at a call of so_patch_code, gathered.
LEMMA InCall ==
  ASSUME NEW k \in 1 .. 7, k = patchAt'.patch,
         patchAt'.at \in {"reserve", "map", "write", "release"},
         NEW c \in 1 .. Len(Plan[k].calls), c = patchAt'.call, Fitting(k)',
         \A j \in 1 .. 7 : j < k => AsPlanned(j)', \A j \in 1 .. 7 : j > k => Ahead(j)',
         \A i \in 1 .. Len(Plan[k].calls) :
           IF CallDone(i)' THEN Settled(Plan[k].calls[i])' ELSE Untried(Plan[k].calls[i])'
  PROVE  PlanSound'
<1>1. patchAt'.at # "compare" /\ patchAt'.at # "running"
  OBVIOUS
<1>2. Fitting(patchAt.patch)'
  BY DEF Fitting
<1>3. \A i \in 1 .. Len(Plan[patchAt'.patch].calls) :
        IF CallDone(i)' THEN Settled(Plan[patchAt.patch].calls[i])'
                        ELSE Untried(Plan[patchAt.patch].calls[i])'
  BY DEF Settled, Untried
<1> QED BY <1>1, <1>2, <1>3 DEF PlanSound

\* The next call of a patch, or the next patch behind the last.
LEMMA CallsOn ==
  ASSUME PatchWords', card' = card, NEW k \in 1 .. 7, k = patchAt.patch, patchAt \in PatchAts,
         \A j \in 1 .. 7 : j < k => AsPlanned(j)', \A j \in 1 .. 7 : j > k => Ahead(j)',
         Fitting(k), NEW c \in Nat, c = patchAt.call, c <= Len(Plan[k].calls),
         \A i \in 1 .. Len(Plan[k].calls) : i <= c => Settled(Plan[k].calls[i])',
         \A i \in 1 .. Len(Plan[k].calls) : i > c => Untried(Plan[k].calls[i])',
         patchAt' = Patching!NextCall
  PROVE  PatchStates' /\ PlanSound' /\ Onward
<1>1. /\ Patching!Written(k) = { Plan[k].calls[i] : i \in 1 .. Len(Plan[k].calls) }
      /\ Len(Plan[k].calls) \in Nat
  BY CallsOf
<1>2. CASE c = Len(Plan[k].calls)
  <2>1. AsPlanned(k)'
    <3>1. \A w \in Patching!Written(k) : Settled(w)'
      BY <1>1, <1>2
    <3>2. Fitting(k)' = Fitting(k)
      BY DEF Fitting
    <3> QED BY <3>1, <3>2 DEF AsPlanned
  <2>2. patchAt' = Patching!NextPatch
    BY <1>2 DEF Patching!NextCall, Plan
  <2>3. \A j \in 1 .. 7 : j <= k => AsPlanned(j)'
    BY <2>1
  <2> QED BY <2>2, <2>3, TakesUp
<1>3. CASE c # Len(Plan[k].calls)
  <2>1. patchAt' = [patchAt EXCEPT !.call = c + 1, !.at = "reserve"]
    BY <1>3 DEF Patching!NextCall, Plan
  <2>2. patchAt' = [patch |-> k, call |-> c + 1, at |-> "reserve"]
    BY <2>1 DEF PatchAts
  <2>3. /\ patchAt'.patch = k /\ patchAt'.call = c + 1 /\ patchAt'.at = "reserve"
        /\ patchAt' \in PatchAts
    BY <2>2 DEF PatchAts, PatchPlaces
  <2>4. c + 1 \in 1 .. Len(Plan[k].calls)
    BY <1>1, <1>3
  <2>5. \A i \in 1 .. Len(Plan[k].calls) :
          IF CallDone(i)' THEN Settled(Plan[k].calls[i])' ELSE Untried(Plan[k].calls[i])'
    <3>1. \A i \in 1 .. Len(Plan[k].calls) : CallDone(i)' <=> i <= c
      BY <2>3 DEF CallDone
    <3> QED BY <3>1
  <2>6. Fitting(k)'
    BY DEF Fitting
  <2>7. PlanSound'
    BY <2>3, <2>4, <2>5, <2>6, InCall
  <2> QED BY <2>3, <2>7 DEF PatchStates, Onward
<1> QED BY <1>2, <1>3

\* A step of main to the next call or patch keeps what is known of the entries.
LEMMA EntriesOn ==
  ASSUME PatchStates, EntriesKept, Onward, patchAt.at # "compare", card' = card, grant' = grant,
         \A w \in Entries : words'[w] = words[w]
  PROVE  EntriesKept'
<1>1. PICK k \in 1 .. 7 : k = patchAt.patch
  BY DEF PatchStates, PatchAts
<1>2. EntriesRight' = EntriesRight
  BY DEF EntriesRight
<1> QED BY <1>1, <1>2 DEF EntriesKept, Onward

\* While main patches, the loop has not begun.
LEMMA NotGrantedYet ==
  ASSUME GrantSound, patchAt.at # "running", card' = card,
         UNCHANGED <<grant, ready, buying, bought, view, saved, writing, refused>>
  PROVE  GrantSound'
<1>1. EntriesRight' = EntriesRight
  BY DEF EntriesRight
<1> QED BY <1>1 DEF GrantSound

\* What does not touch the code keeps what is known of it.
LEMMA CodeKept ==
  ASSUME PatchInv, UNCHANGED <<words, card, patchAt, aliases, failed>>, grant' \in {grant, 2}
  PROVE  /\ PatchStates' /\ PlanSound' /\ EntriesKept' /\ AliasesCounted'
         /\ EntriesRight' = EntriesRight
<1>1. \A j : AsPlanned(j)' = AsPlanned(j) /\ Ahead(j)' = Ahead(j) /\ Fitting(j)' = Fitting(j)
  BY DEF AsPlanned, Ahead, Fitting, Settled, Untried
<1>2. \A i : /\ CallDone(i)' = CallDone(i) /\ \A w : Settled(w)' = Settled(w)
             /\ \A w : Untried(w)' = Untried(w)
  BY DEF CallDone, Settled, Untried
<1>3. PatchStates' /\ AliasesCounted'
  BY DEF PatchInv, PatchStates, PatchWords, AliasesCounted
<1>4. EntriesRight' = EntriesRight
  BY DEF EntriesRight
<1>5. PlanSound'
  BY <1>1, <1>2 DEF PatchInv, PlanSound, Fitting, Settled, Untried, Ahead, AsPlanned, CallDone
<1>6. EntriesKept'
  <2>1. grant \in 0 .. 2 /\ patchAt' = patchAt
    BY DEF PatchInv, GrantSound
  <2> QED BY <1>4, <2>1 DEF PatchInv, EntriesKept
<1> QED BY <1>3, <1>4, <1>5, <1>6

\* The words of a patch are compared.
LEMMA CompareStep == PatchInv /\ Patching!Compare => PatchInv'
<1> SUFFICES ASSUME PatchInv, Patching!Compare PROVE PatchInv'
  OBVIOUS
<1>1. /\ patchAt.at = "compare"
      /\ UNCHANGED <<words, card, aliases, failed, ready, buying, bought, view, saved, writing,
                     refused>>
      /\ patchAt' = IF Patching!Compared THEN Patching!NextCall ELSE Patching!NextPatch
      /\ grant' = IF Entries \subseteq Plan[patchAt.patch].checks /\ Patching!Armable
                  THEN 1 ELSE grant
  BY DEF Patching!Compare, Patching!fileVars, Plan
<1>2. PatchStates /\ PlanSound /\ EntriesKept /\ AliasesCounted /\ GrantSound
  BY DEF PatchInv
<1>3. PICK k \in 1 .. 7 : k = patchAt.patch
  BY <1>2 DEF PatchStates, PatchAts
<1>4. Ahead(k) /\ patchAt.call = 0
  BY <1>1, <1>2, <1>3 DEF PlanSound
<1>5. /\ PatchWords' /\ patchAt \in PatchAts
      /\ \A w \in Plan[k].checks : words[w] = card[w]
  <2>1. Plan[k].checks \subseteq Entries \cup Patching!Written(k)
    BY PlanIs
  <2> QED BY <1>1, <1>2, <1>4, <2>1 DEF PatchStates, PatchWords, Ahead, Untried, EntriesKept
<1>6. /\ \A j \in 1 .. 7 : j < k => AsPlanned(j)'
      /\ \A j \in 1 .. 7 : j >= k => Ahead(j)'
  <2>1. \A j : AsPlanned(j)' = AsPlanned(j) /\ Ahead(j)' = Ahead(j)
    BY <1>1 DEF AsPlanned, Ahead, Fitting, Settled, Untried
  <2>2. \A j \in 1 .. 7 : (j < k => AsPlanned(j)) /\ (j >= k => Ahead(j))
    BY <1>2, <1>3, <1>4 DEF PlanSound
  <2> QED BY <2>1, <2>2
<1>7. Patching!Compared <=> Fitting(k)
  BY <1>3, <1>5 DEF Patching!Compared, Plan, Fitting
<1>8. PatchStates' /\ PlanSound' /\ Onward
  <2>1. CASE Patching!Compared
    <3>1. Fitting(k)
      BY <1>7, <2>1
    <3>2. Len(Plan[k].calls) \in Nat
      BY CallsOf
    <3>3. /\ 0 \in Nat /\ 0 <= Len(Plan[k].calls)
          /\ \A i \in 1 .. Len(Plan[k].calls) : i <= 0 => Settled(Plan[k].calls[i])'
      BY <3>2
    <3>4. \A i \in 1 .. Len(Plan[k].calls) : i > 0 => Untried(Plan[k].calls[i])'
      <4>1. \A w \in Patching!Written(k) : Untried(w)'
        BY <1>1, <1>4 DEF Ahead, Untried
      <4> QED BY <4>1, CallsOf
    <3>5. patchAt' = Patching!NextCall /\ 0 = patchAt.call /\ card' = card
      BY <1>1, <1>4, <2>1
    <3>6. \A j \in 1 .. 7 : j > k => Ahead(j)'
      BY <1>6
    <3> QED BY <1>3, <1>5, <1>6, <3>1, <3>3, <3>4, <3>5, <3>6, CallsOn
  <2>2. CASE ~ Patching!Compared
    <3>1. ~ Fitting(k)
      BY <1>7, <2>2
    <3>2. AsPlanned(k)'
      <4>1. \A w \in Patching!Written(k) : words'[w] = card'[w]
        BY <1>1, <1>4 DEF Ahead, Untried
      <4>2. ~ Fitting(k)'
        BY <1>1, <3>1 DEF Fitting
      <4> QED BY <4>1, <4>2 DEF AsPlanned
    <3>3. \A j \in 1 .. 7 : j <= k => AsPlanned(j)'
      BY <1>6, <3>2
    <3>4. \A j \in 1 .. 7 : j > k => Ahead(j)'
      BY <1>6
    <3>5. patchAt' = Patching!NextPatch
      BY <1>1, <2>2
    <3> QED BY <1>3, <1>5, <3>3, <3>4, <3>5, TakesUp
  <2> QED BY <2>1, <2>2
<1>9. AliasesCounted'
  BY <1>1, <1>2, <1>8 DEF AliasesCounted, Onward
<1>10. Patching!Armable <=> EntriesRight
  BY <1>2 DEF Patching!Armable, EntriesKept, EntriesRight
<1>11. /\ grant' = grant \/ (grant' = 1 /\ EntriesRight)
       /\ grant \in 0 .. 2 /\ EntriesRight' = EntriesRight /\ grant # 2
  BY <1>1, <1>2, <1>10 DEF GrantSound, EntriesRight
<1>12. k = 5 /\ EntriesRight => grant' = 1
  <2>1. Entries \subseteq Plan[5].checks
    BY PlanIs
  <2> QED BY <1>1, <1>3, <1>10, <2>1
<1>13. EntriesKept'
  <2>1. \A w \in Entries : words'[w] = card'[w]
    BY <1>1, <1>2 DEF EntriesKept
  <2>2. k > 5 => (EntriesRight => grant > 0)
    BY <1>2, <1>3 DEF EntriesKept
  <2>3. k > 5 => (EntriesRight => grant' > 0)
    BY <1>11, <2>2
  <2>4. patchAt'.patch > 5 \/ (patchAt'.patch = 5 /\ patchAt'.at # "compare") => k >= 5
    BY <1>3, <1>8 DEF Onward
  <2>5. patchAt'.patch > 5 \/ (patchAt'.patch = 5 /\ patchAt'.at # "compare") =>
          (EntriesRight' => grant' > 0)
    <3>1. k = 5 => (EntriesRight => grant' > 0)
      BY <1>12
    <3> QED BY <1>11, <2>3, <2>4, <3>1
  <2> QED BY <2>1, <2>5 DEF EntriesKept
<1>14. GrantSound'
  BY <1>1, <1>2, <1>11 DEF GrantSound
<1> QED BY <1>8, <1>9, <1>13, <1>14 DEF PatchInv

\* What is left of a call of so_patch_code after its word: all else is as it was.
LEMMA OneTried ==
  ASSUME PatchStates, PlanSound, NEW k \in 1 .. 7, k = patchAt.patch,
         patchAt.at \in {"reserve", "map", "write"}, card' = card,
         NEW c \in 1 .. Len(Plan[k].calls), c = patchAt.call, NEW w, w = Plan[k].calls[c],
         \A x \in Words \ {w} : words'[x] = words[x] /\ (x \in failed' <=> x \in failed)
  PROVE  /\ \A j \in 1 .. 7 : j < k => AsPlanned(j)'
         /\ \A j \in 1 .. 7 : j > k => Ahead(j)'
         /\ Fitting(k) /\ w \in Words /\ w \notin Entries /\ Untried(w)
         /\ \A i \in 1 .. Len(Plan[k].calls) : i < c => Settled(Plan[k].calls[i])'
         /\ \A i \in 1 .. Len(Plan[k].calls) : i > c => Untried(Plan[k].calls[i])'
<1>1. /\ w \in Words /\ w \in Patching!Written(k) /\ w \notin Entries /\ Len(Plan[k].calls) \in Nat
      /\ \A i \in 1 .. Len(Plan[k].calls) : Plan[k].calls[i] \in Words
  BY CallsOf
<1>2. ASSUME NEW j \in 1 .. 7, j # k
      PROVE  \A x \in Patching!Written(j) : x \in Words \ {w}
  <2>1. Patching!Written(j) \cap Patching!Written(k) = {}
    BY <1>2, PlanIs
  <2>2. Patching!Written(j) \subseteq Words
    BY PlanIs
  <2> QED BY <1>1, <2>1, <2>2
<1>3. \A j \in 1 .. 7 : Fitting(j)' = Fitting(j)
  BY DEF Fitting
<1>4. ASSUME NEW j \in 1 .. 7, j < k PROVE AsPlanned(j)'
  <2>1. AsPlanned(j) /\ \A x \in Patching!Written(j) : x \in Words \ {w}
    BY <1>2, <1>4 DEF PlanSound
  <2>2. \A x \in Patching!Written(j) : Settled(x)' = Settled(x) /\ words'[x] = words[x]
    BY <2>1 DEF Settled
  <2> QED BY <1>3, <2>1, <2>2 DEF AsPlanned
<1>5. ASSUME NEW j \in 1 .. 7, j > k PROVE Ahead(j)'
  <2>1. Ahead(j) /\ \A x \in Patching!Written(j) : x \in Words \ {w}
    BY <1>2, <1>5 DEF PlanSound
  <2>2. \A x \in Patching!Written(j) : Untried(x)' = Untried(x)
    BY <2>1 DEF Untried
  <2> QED BY <2>1, <2>2 DEF Ahead
<1>6. ASSUME NEW i \in 1 .. Len(Plan[k].calls), i # c
      PROVE  Plan[k].calls[i] \in Words \ {w}
  <2>1. Plan[k].calls[i] \in Words
    BY <1>1
  <2>2. Plan[k].calls[i] # Plan[k].calls[c]
    BY <1>6, CallsOf
  <2> QED BY <2>1, <2>2
<1>7. \A i \in 1 .. Len(Plan[k].calls) : CallDone(i) <=> i < c
  BY <1>1 DEF CallDone
<1>8. /\ Fitting(k)
      /\ \A i \in 1 .. Len(Plan[k].calls) : i < c => Settled(Plan[k].calls[i])
      /\ \A i \in 1 .. Len(Plan[k].calls) : ~ (i < c) => Untried(Plan[k].calls[i])
  BY <1>7 DEF PlanSound
<1>9. ASSUME NEW i \in 1 .. Len(Plan[k].calls)
      PROVE  /\ i < c => Settled(Plan[k].calls[i])'
             /\ i > c => Untried(Plan[k].calls[i])'
  <2> SUFFICES ASSUME i # c
               PROVE  /\ i < c => Settled(Plan[k].calls[i])'
                      /\ i > c => Untried(Plan[k].calls[i])'
    BY <1>1
  <2>1. PICK x \in Words \ {w} : x = Plan[k].calls[i]
    BY <1>6
  <2>2. Settled(x)' = Settled(x) /\ Untried(x)' = Untried(x)
    BY <2>1 DEF Settled, Untried
  <2>3. (i < c => Settled(x)) /\ (i > c => Untried(x))
    BY <1>1, <1>8, <2>1
  <2> QED BY <2>1, <2>2, <2>3 DEF Settled, Untried
<1>10. Untried(w)
  BY <1>1, <1>8
<1> QED BY <1>1, <1>4, <1>5, <1>8, <1>9, <1>10

\* The place main is at within a patch.
LEMMA AtCall ==
  ASSUME PatchStates, PlanSound, patchAt.at \notin {"compare", "running"}
  PROVE  \E k \in 1 .. 7, c \in 1 .. Len(Plan[patchAt.patch].calls) :
           k = patchAt.patch /\ c = patchAt.call
<1>1. PICK k \in 1 .. 7 : k = patchAt.patch
  BY DEF PatchStates, PatchAts
<1> QED BY <1>1 DEF PlanSound

\* An address for the second mapping is reserved, and the page mapped.
LEMMA MapStep ==
  ASSUME PatchInv, UNCHANGED <<words, card, failed, grant, ready, buying, bought, view, saved,
                               writing, refused>>,
         \/ /\ patchAt.at = "reserve" /\ aliases' = aliases + 1
            /\ patchAt' = [patchAt EXCEPT !.at = "map"]
         \/ /\ patchAt.at = "map" /\ aliases' = aliases
            /\ patchAt' = [patchAt EXCEPT !.at = "write"]
  PROVE  PatchInv'
<1>1. PatchStates /\ PlanSound /\ EntriesKept /\ AliasesCounted /\ GrantSound
  BY DEF PatchInv
<1>2. /\ patchAt'.patch = patchAt.patch /\ patchAt'.call = patchAt.call
      /\ patchAt'.at \in {"map", "write"} /\ patchAt' \in PatchAts
  BY <1>1 DEF PatchStates, PatchAts, PatchPlaces
<1>3. \A j : AsPlanned(j)' = AsPlanned(j) /\ Ahead(j)' = Ahead(j) /\ Fitting(j)' = Fitting(j)
  BY DEF AsPlanned, Ahead, Fitting, Settled, Untried
<1>4. PatchStates'
  BY <1>1, <1>2 DEF PatchStates, PatchWords
<1>5. PICK k \in 1 .. 7 : k = patchAt.patch /\ k = patchAt'.patch
  BY <1>1, <1>2 DEF PatchStates, PatchAts
<1>6. \A i : CallDone(i)' = CallDone(i)
  BY <1>2 DEF CallDone
<1>7. \A i \in 1 .. Len(Plan[k].calls) :
        IF CallDone(i)' THEN Settled(Plan[k].calls[i])' ELSE Untried(Plan[k].calls[i])'
  BY <1>1, <1>5, <1>6 DEF PlanSound, Settled, Untried
<1>8. PlanSound'
  <2>1. \A j \in 1 .. 7 : (j < k => AsPlanned(j)') /\ (j > k => Ahead(j)')
    BY <1>1, <1>3, <1>5 DEF PlanSound
  <2>2. patchAt'.call \in 1 .. Len(Plan[k].calls) /\ Fitting(k)'
    BY <1>1, <1>2, <1>3, <1>5 DEF PlanSound
  <2> QED BY <1>2, <1>5, <1>7, <2>1, <2>2, InCall
<1>9. EntriesKept'
  BY <1>1, <1>2 DEF EntriesKept, EntriesRight
<1>10. AliasesCounted'
  BY <1>1, <1>2 DEF AliasesCounted
<1>11. GrantSound'
  BY <1>1, NotGrantedYet
<1> QED BY <1>4, <1>8, <1>9, <1>10, <1>11 DEF PatchInv

\* No address is found: the word is not written, and main goes on.
LEMMA NoAddressStep ==
  ASSUME PatchInv, patchAt.at = "reserve", patchAt' = Patching!NextCall,
         failed' = failed \cup {Plan[patchAt.patch].calls[patchAt.call]},
         UNCHANGED <<words, card, aliases, grant, ready, buying, bought, view, saved, writing,
                     refused>>
  PROVE  PatchInv'
<1>1. PatchStates /\ PlanSound /\ EntriesKept /\ AliasesCounted /\ GrantSound
  BY DEF PatchInv
<1>2. PICK k \in 1 .. 7, c \in 1 .. Len(Plan[patchAt.patch].calls) :
           k = patchAt.patch /\ c = patchAt.call
  BY <1>1, AtCall
<1>3. PICK w : w = Plan[k].calls[c]
  OBVIOUS
<1>4. /\ \A j \in 1 .. 7 : j < k => AsPlanned(j)'
      /\ \A j \in 1 .. 7 : j > k => Ahead(j)'
      /\ Fitting(k) /\ Untried(w)
      /\ \A i \in 1 .. Len(Plan[k].calls) : i < c => Settled(Plan[k].calls[i])'
      /\ \A i \in 1 .. Len(Plan[k].calls) : i > c => Untried(Plan[k].calls[i])'
  BY <1>1, <1>2, <1>3, OneTried
<1>5. Settled(w)'
  <2>1. w \in Words
    BY <1>2, <1>3, CallsOf
  <2>2. card[w] # "to"
    BY <1>1, <2>1, NeverTo
  <2>3. words'[w] = card[w] /\ w \in failed'
    BY <1>2, <1>3, <1>4 DEF Untried
  <2> QED BY <2>2, <2>3 DEF Settled
<1>6. \A i \in 1 .. Len(Plan[k].calls) : i <= c => Settled(Plan[k].calls[i])'
  <2>1. Len(Plan[k].calls) \in Nat
    BY CallsOf
  <2>2. \A i \in 1 .. Len(Plan[k].calls) : i <= c => i < c \/ i = c
    BY <2>1
  <2> QED BY <1>3, <1>4, <1>5, <2>2 DEF Settled
<1>7. PatchWords' /\ patchAt \in PatchAts
  BY <1>1 DEF PatchStates, PatchWords
<1>8. c \in Nat /\ c <= Len(Plan[k].calls)
  <2>1. Len(Plan[k].calls) \in Nat
    BY CallsOf
  <2> QED BY <1>2, <2>1
<1>9. PatchStates' /\ PlanSound' /\ Onward
  BY <1>2, <1>4, <1>6, <1>7, <1>8, CallsOn
<1>10. EntriesKept'
  BY <1>1, <1>9, EntriesOn
<1>11. AliasesCounted'
  BY <1>1, <1>9 DEF AliasesCounted, Onward
<1>12. GrantSound'
  BY <1>1, NotGrantedYet
<1> QED BY <1>9, <1>10, <1>11, <1>12 DEF PatchInv

\* The word is written, or the page could not be mapped: the call is done.
LEMMA WordStep ==
  ASSUME PatchInv, patchAt.at \in {"map", "write"}, patchAt' = [patchAt EXCEPT !.at = "release"],
         UNCHANGED <<card, aliases, grant, ready, buying, bought, view, saved, writing, refused>>,
         NEW w, w = Plan[patchAt.patch].calls[patchAt.call],
         \/ words' = [words EXCEPT ![w] = "to"] /\ failed' = failed
         \/ words' = words /\ failed' = failed \cup {w}
  PROVE  PatchInv'
<1>1. PatchStates /\ PlanSound /\ EntriesKept /\ AliasesCounted /\ GrantSound
  BY DEF PatchInv
<1>2. PICK k \in 1 .. 7, c \in 1 .. Len(Plan[patchAt.patch].calls) :
           k = patchAt.patch /\ c = patchAt.call
  BY <1>1, AtCall
<1>3. w = Plan[k].calls[c] /\ w \in Words
  <2>1. c \in 1 .. Len(Plan[k].calls) /\ w = Plan[k].calls[c]
    BY <1>2
  <2> QED BY <2>1, CallsOf
<1>4. /\ \A x \in Words \ {w} : words'[x] = words[x] /\ (x \in failed' <=> x \in failed)
      /\ words' \in [Words -> {"from", "other", "to"}] /\ words'[w] \in {words[w], "to"}
  BY <1>1, <1>3 DEF PatchStates, PatchWords
<1>5. /\ \A j \in 1 .. 7 : j < k => AsPlanned(j)'
      /\ \A j \in 1 .. 7 : j > k => Ahead(j)'
      /\ Fitting(k) /\ Untried(w) /\ w \notin Entries
      /\ \A i \in 1 .. Len(Plan[k].calls) : i < c => Settled(Plan[k].calls[i])'
      /\ \A i \in 1 .. Len(Plan[k].calls) : i > c => Untried(Plan[k].calls[i])'
  BY <1>1, <1>2, <1>3, <1>4, OneTried
<1>6. Settled(w)'
  <2>1. w \notin failed /\ words[w] # "to"
    BY <1>1, <1>3, <1>5, NeverTo DEF Untried
  <2>2. CASE words' = [words EXCEPT ![w] = "to"] /\ failed' = failed
    <3>1. words'[w] = "to"
      BY <1>1, <1>3, <2>2 DEF PatchStates, PatchWords
    <3> QED BY <2>1, <2>2, <3>1 DEF Settled
  <2>3. CASE words' = words /\ failed' = failed \cup {w}
    BY <2>1, <2>3 DEF Settled
  <2> QED BY <2>2, <2>3
<1>7. /\ patchAt'.patch = k /\ patchAt'.call = c /\ patchAt'.at = "release"
      /\ patchAt' \in PatchAts
  BY <1>1, <1>2 DEF PatchStates, PatchAts, PatchPlaces
<1>8. PatchStates'
  BY <1>1, <1>4, <1>7 DEF PatchStates, PatchWords
<1>9. \A i \in 1 .. Len(Plan[k].calls) :
        IF CallDone(i)' THEN Settled(Plan[k].calls[i])' ELSE Untried(Plan[k].calls[i])'
  <2>1. Len(Plan[k].calls) \in Nat
    BY CallsOf
  <2> TAKE i \in 1 .. Len(Plan[k].calls)
  <2>2. CallDone(i)' <=> i < c \/ i = c
    BY <1>7 DEF CallDone
  <2>3. i = c => Settled(Plan[k].calls[i])'
    BY <1>3, <1>6 DEF Settled
  <2>4. i > c \/ i < c \/ i = c
    BY <2>1
  <2> QED BY <1>5, <2>2, <2>3, <2>4
<1>10. PlanSound'
  <2>1. Fitting(k)'
    BY <1>5 DEF Fitting
  <2>2. c \in 1 .. Len(Plan[k].calls)
    BY <1>2
  <2> QED BY <1>5, <1>7, <1>9, <2>1, <2>2, InCall
<1>11. EntriesKept'
  <2>1. Entries \subseteq Words
    BY PlanIs
  <2>2. \A x \in Entries : words'[x] = card'[x]
    BY <1>1, <1>4, <1>5, <2>1 DEF EntriesKept
  <2>3. patchAt.patch = patchAt'.patch
    BY <1>2, <1>7
  <2> QED BY <1>1, <2>2, <2>3 DEF EntriesKept, EntriesRight
<1>12. AliasesCounted'
  BY <1>1, <1>7 DEF AliasesCounted
<1>13. GrantSound'
  BY <1>1, NotGrantedYet
<1> QED BY <1>8, <1>10, <1>11, <1>12, <1>13 DEF PatchInv

\* The address is given back.
LEMMA ReleaseStep == PatchInv /\ Patching!Release => PatchInv'
<1> SUFFICES ASSUME PatchInv, Patching!Release PROVE PatchInv'
  OBVIOUS
<1>1. /\ patchAt.at = "release" /\ aliases' = aliases - 1 /\ patchAt' = Patching!NextCall
      /\ UNCHANGED <<words, card, failed, grant, ready, buying, bought, view, saved, writing,
                     refused>>
  BY DEF Patching!Release, Patching!loopVars, Patching!fileVars
<1>2. PatchStates /\ PlanSound /\ EntriesKept /\ AliasesCounted /\ GrantSound
  BY DEF PatchInv
<1>3. PICK k \in 1 .. 7, c \in 1 .. Len(Plan[patchAt.patch].calls) :
           k = patchAt.patch /\ c = patchAt.call
  BY <1>1, <1>2, AtCall
<1>4. /\ \A j \in 1 .. 7 : j < k => AsPlanned(j)
      /\ \A j \in 1 .. 7 : j > k => Ahead(j)
      /\ Fitting(k)
  BY <1>1, <1>2, <1>3 DEF PlanSound
<1>5. \A j \in 1 .. 7 : (j < k => AsPlanned(j)') /\ (j > k => Ahead(j)')
  <2>1. \A j : AsPlanned(j)' = AsPlanned(j) /\ Ahead(j)' = Ahead(j)
    BY <1>1 DEF AsPlanned, Ahead, Fitting, Settled, Untried
  <2> QED BY <1>4, <2>1
<1>6. \A i \in 1 .. Len(Plan[k].calls) :
        (i <= c => Settled(Plan[k].calls[i])) /\ (i > c => Untried(Plan[k].calls[i]))
  <2>1. Len(Plan[k].calls) \in Nat
    BY CallsOf
  <2> TAKE i \in 1 .. Len(Plan[k].calls)
  <2>2. CallDone(i) <=> i <= c
    BY <1>1, <1>3, <2>1 DEF CallDone
  <2>3. i <= c <=> ~ (i > c)
    BY <2>1
  <2> QED BY <1>1, <1>2, <1>3, <2>2, <2>3 DEF PlanSound
<1>7. \A i \in 1 .. Len(Plan[k].calls) :
        (i <= c => Settled(Plan[k].calls[i])') /\ (i > c => Untried(Plan[k].calls[i])')
  BY <1>1, <1>6 DEF Settled, Untried
<1>8. PatchWords' /\ patchAt \in PatchAts /\ card' = card
  BY <1>1, <1>2 DEF PatchStates, PatchWords
<1>9. c \in Nat /\ c <= Len(Plan[k].calls)
  <2>1. Len(Plan[k].calls) \in Nat
    BY CallsOf
  <2> QED BY <1>3, <2>1
<1>10. PatchStates' /\ PlanSound' /\ Onward
  BY <1>1, <1>3, <1>4, <1>5, <1>7, <1>8, <1>9, CallsOn
<1>11. EntriesKept'
  BY <1>1, <1>2, <1>10, EntriesOn
<1>12. AliasesCounted'
  BY <1>1, <1>2, <1>10 DEF AliasesCounted, Onward
<1>13. GrantSound'
  BY <1>1, <1>2, NotGrantedYet
<1> QED BY <1>10, <1>11, <1>12, <1>13 DEF PatchInv

\* The calls of so_patch_code, with and without a mapping.
LEMMA PatchCodeStep ==
  ASSUME PatchInv, Patching!Reserve \/ Patching!Map \/ Patching!Write \/ Patching!Release
  PROVE  PatchInv'
<1>1. CASE Patching!Reserve
  <2>1. /\ patchAt.at = "reserve"
        /\ UNCHANGED <<words, card, grant, ready, buying, bought, view, saved, writing, refused>>
        /\ \/ /\ aliases' = aliases + 1 /\ patchAt' = [patchAt EXCEPT !.at = "map"]
              /\ failed' = failed
           \/ /\ aliases' = aliases /\ patchAt' = Patching!NextCall
              /\ failed' = failed \cup {Plan[patchAt.patch].calls[patchAt.call]}
    BY <1>1 DEF Patching!Reserve, Patching!To, Patching!Fail, Patching!loopVars,
      Patching!fileVars, Plan
  <2> QED BY <2>1, MapStep, NoAddressStep
<1>2. CASE Patching!Map
  <2>1. /\ patchAt.at = "map" /\ aliases' = aliases /\ words' = words
        /\ UNCHANGED <<card, grant, ready, buying, bought, view, saved, writing, refused>>
        /\ \/ patchAt' = [patchAt EXCEPT !.at = "write"] /\ failed' = failed
           \/ /\ patchAt' = [patchAt EXCEPT !.at = "release"]
              /\ failed' = failed \cup {Plan[patchAt.patch].calls[patchAt.call]}
    BY <1>2 DEF Patching!Map, Patching!To, Patching!Fail, Patching!loopVars,
      Patching!fileVars, Plan
  <2>2. CASE patchAt' = [patchAt EXCEPT !.at = "write"] /\ failed' = failed
    BY <2>1, <2>2, MapStep
  <2>3. CASE /\ patchAt' = [patchAt EXCEPT !.at = "release"]
             /\ failed' = failed \cup {Plan[patchAt.patch].calls[patchAt.call]}
    BY <2>1, <2>3, WordStep
  <2> QED BY <2>1, <2>2, <2>3
<1>3. CASE Patching!Write
  <2>1. /\ patchAt.at = "write" /\ aliases' = aliases /\ failed' = failed
        /\ UNCHANGED <<card, grant, ready, buying, bought, view, saved, writing, refused>>
        /\ patchAt' = [patchAt EXCEPT !.at = "release"]
        /\ words' = [words EXCEPT ![Plan[patchAt.patch].calls[patchAt.call]] = "to"]
    BY <1>3 DEF Patching!Write, Patching!To, Patching!loopVars, Patching!fileVars, Plan
  <2> QED BY <2>1, WordStep
<1>4. CASE Patching!Release
  BY <1>4, ReleaseStep
<1> QED BY <1>1, <1>2, <1>3, <1>4

\* The game sets up its save data, and the loop buys the packs.
LEMMA GrantStep ==
  ASSUME PatchInv, Patching!SetUp \/ Patching!TryGrant \/ Patching!BuySecond \/ Patching!Mark
  PROVE  PatchInv'
<1>1. /\ UNCHANGED <<words, card, patchAt, aliases, failed, view, saved, writing, refused>>
      /\ GrantSound /\ grant \in 0 .. 2
  BY DEF Patching!SetUp, Patching!TryGrant, Patching!BuySecond, Patching!Mark,
    Patching!Buy, Patching!codeVars, Patching!fileVars, PatchInv, GrantSound
<1>2. CASE Patching!SetUp
  <2>1. /\ patchAt.at = "running" /\ ready' = TRUE /\ UNCHANGED <<grant, buying, bought>>
    BY <1>2 DEF Patching!SetUp
  <2>2. ready' \in BOOLEAN /\ EntriesRight' = EntriesRight
    BY <2>1, <1>1 DEF EntriesRight
  <2>3. GrantSound'
    BY <1>1, <2>1, <2>2 DEF GrantSound
  <2> QED BY <1>1, <2>1, <2>3, CodeKept DEF PatchInv
<1>3. CASE Patching!TryGrant
  <2>1. /\ patchAt.at = "running" /\ grant = 1 /\ ready /\ buying = "no" /\ buying' = "second"
        /\ bought' = bought \cup {0} /\ UNCHANGED <<grant, ready>>
    BY <1>3 DEF Patching!TryGrant, Patching!Buy
  <2>2. EntriesRight' = EntriesRight /\ EntriesRight
    BY <1>1, <2>1 DEF EntriesRight, GrantSound
  <2>3. bought' \subseteq {0, 1} /\ 0 \in bought'
    BY <1>1, <2>1 DEF GrantSound
  <2>4. GrantSound'
    BY <1>1, <2>1, <2>2, <2>3 DEF GrantSound
  <2> QED BY <1>1, <2>1, <2>4, CodeKept DEF PatchInv
<1>4. CASE Patching!BuySecond
  <2>1. /\ buying = "second" /\ buying' = "mark"
        /\ bought' = bought \cup {1} /\ UNCHANGED <<grant, ready>>
    BY <1>4 DEF Patching!BuySecond, Patching!Buy
  <2>2. bought' = {0, 1}
    BY <1>1, <2>1 DEF GrantSound
  <2> QED BY <1>1, <2>1, <2>2, CodeKept DEF GrantSound, PatchInv
<1>5. CASE Patching!Mark
  <2>1. /\ buying = "mark" /\ buying' = "save" /\ grant' = 2 /\ UNCHANGED <<ready, bought>>
    BY <1>5 DEF Patching!Mark, Patching!ThenSave
  <2>2. EntriesRight' = EntriesRight /\ EntriesRight /\ ready /\ bought = {0, 1}
    BY <1>1, <2>1 DEF EntriesRight, GrantSound
  <2>3. GrantSound'
    BY <1>1, <2>1, <2>2 DEF GrantSound
  <2> QED BY <1>1, <2>1, <2>3, CodeKept DEF PatchInv
<1> QED BY <1>2, <1>3, <1>4, <1>5

\* The file of the preferences is written, and committed.
LEMMA SaveStep ==
  ASSUME PatchInv, \/ Patching!SaveOpen \/ Patching!SaveFails \/ Patching!SaveClean
                   \/ Patching!SaveWrite \/ Patching!Commit
  PROVE  PatchInv'
<1>1. UNCHANGED <<words, card, patchAt, aliases, failed, grant, ready, bought>>
      /\ GrantSound /\ grant \in 0 .. 2 /\ EntriesRight' = EntriesRight
  BY DEF EntriesRight, Patching!SaveOpen, Patching!SaveFails, Patching!SaveClean,
    Patching!SaveWrite, Patching!Commit, Patching!codeVars, PatchInv, GrantSound
<1>2. CASE Patching!SaveOpen
  <2>1. /\ patchAt.at = "running" /\ view' = {} /\ writing' = TRUE
        /\ UNCHANGED <<buying, saved, refused>>
    BY <1>2 DEF Patching!SaveOpen, Patching!Saving
  <2>2. GrantSound'
    BY <1>1, <2>1 DEF GrantSound
  <2> QED BY <1>1, <2>2, CodeKept DEF PatchInv
<1>3. CASE Patching!SaveFails
  <2>1. /\ patchAt.at = "running" /\ refused' = TRUE /\ buying' = "no"
        /\ UNCHANGED <<view, saved, writing>>
    BY <1>3 DEF Patching!SaveFails, Patching!Saving
  <2>2. GrantSound'
    BY <1>1, <2>1 DEF GrantSound
  <2> QED BY <1>1, <2>2, CodeKept DEF PatchInv
<1>4. CASE Patching!SaveClean
  <2>1. /\ patchAt.at = "running" /\ view = bought /\ buying' = "no"
        /\ UNCHANGED <<view, saved, writing, refused>>
    BY <1>4 DEF Patching!SaveClean, Patching!Saving, Patching!fileVars
  <2>2. GrantSound'
    BY <1>1, <2>1 DEF GrantSound
  <2> QED BY <1>1, <2>2, CodeKept DEF PatchInv
<1>5. CASE Patching!SaveWrite
  <2>1. /\ view' = bought /\ writing' = FALSE /\ refused' = FALSE /\ buying' = "no"
        /\ saved' = saved
    BY <1>5 DEF Patching!SaveWrite
  <2>2. writing' \in BOOLEAN /\ refused' \in BOOLEAN
    BY <2>1
  <2>3. GrantSound'
    BY <1>1, <2>1, <2>2 DEF GrantSound
  <2> QED BY <1>1, <2>3, CodeKept DEF PatchInv
<1>6. CASE Patching!Commit
  <2>1. saved' = view /\ UNCHANGED <<buying, view, writing, refused>>
    BY <1>6 DEF Patching!Commit
  <2>2. GrantSound'
    BY <1>1, <2>1 DEF GrantSound
  <2> QED BY <1>1, <2>2, CodeKept DEF PatchInv
<1> QED BY <1>2, <1>3, <1>4, <1>5, <1>6

\* The process is killed: the code is as the files hold it again.
LEMMA KilledStep == PatchInv /\ Patching!Killed => PatchInv'
<1> SUFFICES ASSUME PatchInv, Patching!Killed PROVE PatchInv'
  OBVIOUS
<1>1. /\ words' = card /\ patchAt' = [patch |-> 1, call |-> 0, at |-> "compare"]
      /\ aliases' = 0 /\ failed' = {} /\ grant' = 0 /\ ready' = FALSE /\ buying' = "no"
      /\ bought' = saved /\ view' = saved /\ writing' = FALSE /\ refused' = FALSE
      /\ UNCHANGED <<card, saved>>
  BY DEF Patching!Killed, Patching!First
<1>2. card \in [Words -> {"from", "other"}] /\ saved \subseteq {0, 1}
  BY DEF PatchInv, PatchStates, PatchWords, GrantSound
<1>3. PatchStates'
  BY <1>1, <1>2 DEF PatchStates, PatchWords, PatchAts, PatchPlaces
<1>4. \A k : Ahead(k)'
  BY <1>1 DEF Ahead, Untried
<1>5. PlanSound'
  <2>1. Ahead(patchAt.patch)'
    BY <1>1 DEF Ahead, Untried
  <2> QED BY <1>1, <1>4, <2>1 DEF PlanSound
<1>6. EntriesKept'
  BY <1>1 DEF EntriesKept
<1>7. AliasesCounted'
  BY <1>1 DEF AliasesCounted
<1>8. ready' \in BOOLEAN /\ writing' \in BOOLEAN /\ refused' \in BOOLEAN
  BY <1>1
<1>9. GrantSound'
  BY <1>1, <1>2, <1>8 DEF GrantSound
<1> QED BY <1>3, <1>5, <1>6, <1>7, <1>9 DEF PatchInv

\* Every step of the patches keeps the invariant.
LEMMA PatchStep == PatchInv /\ [Patching!Next]_patchingVars => PatchInv'
<1> SUFFICES ASSUME PatchInv, [Patching!Next]_patchingVars PROVE PatchInv'
  OBVIOUS
<1>1. CASE UNCHANGED patchingVars
  <2>1. /\ UNCHANGED <<words, card, patchAt, aliases, failed, grant, ready, buying, bought, view,
                       saved, writing, refused>>
        /\ grant \in 0 .. 2
    BY <1>1 DEF patchingVars, PatchInv, GrantSound
  <2> QED BY <2>1, CodeKept DEF PatchInv, GrantSound
<1>2. CASE Patching!Next
  BY <1>2, CompareStep, PatchCodeStep, GrantStep, SaveStep, KilledStep DEF Patching!Next
<1> QED BY <1>1, <1>2

\* From it follows what the run checks of the patches.
LEMMA PatchFollows ==
  PatchInv => Patching!TypeOK /\ Patching!PatchedWhole /\ Patching!GrantedOnce
<1> SUFFICES ASSUME PatchInv
             PROVE  Patching!TypeOK /\ Patching!PatchedWhole /\ Patching!GrantedOnce
  OBVIOUS
<1>1. Patching!TypeOK
  <2>1. \A w \in Patching!Words : words[w] \in {card[w], "to"}
    BY DEF PatchInv, PatchStates, PatchWords, Words
  <2>2. /\ patchAt.at \in {"compare", "reserve", "map", "write", "release", "running"}
        /\ aliases \in 0 .. 1
    BY DEF PatchInv, PatchStates, PatchAts, PatchPlaces, AliasesCounted
  <2>3. /\ grant \in 0 .. 2 /\ bought \cup view \cup saved \subseteq {0, 1}
        /\ buying \in {"no", "second", "mark", "save"}
    BY DEF PatchInv, GrantSound
  <2> QED BY <2>1, <2>2, <2>3 DEF Patching!TypeOK
<1>2. Patching!PatchedWhole
  <2>1. DOMAIN Patching!Plan = 1 .. 7
    BY PlanIs DEF Plan
  <2>2. \A k \in 1 .. 7 : k < patchAt.patch \/ patchAt.at = "running" => AsPlanned(k)
    BY DEF PatchInv, PlanSound
  <2>3. patchAt.at = "running" => aliases = 0
    BY DEF PatchInv, AliasesCounted
  <2>4. \A k : Patching!Fits(k) = Fitting(k)
    BY DEF Patching!Fits, Fitting, Plan
  <2> QED BY <2>1, <2>2, <2>3, <2>4
        DEF Patching!PatchedWhole, AsPlanned, Settled
<1>3. Patching!GrantedOnce
  <2>1. EntriesKept /\ GrantSound /\ (patchAt.at = "running" => patchAt.patch = 7)
    BY DEF PatchInv, PlanSound
  <2>2. patchAt.at = "running" /\ EntriesRight => grant > 0
    BY <2>1 DEF EntriesKept
  <2> QED BY <2>1, <2>2 DEF GrantSound, EntriesRight, Patching!GrantedOnce
<1> QED BY <1>1, <1>2, <1>3

-----------------------------------------------------------------------------
\* A behaviour is one of one part, whose invariant every step keeps.
PartsInv ==
  /\ part = "loading" => LoadInv
  /\ part = "booting" => MemInv
  /\ part = "patching" => PatchInv
  /\ part = "loop" => LoopInv
  /\ part = "show" => ShowInv
  /\ part = "watch" => WatchInv
  /\ part = "overlay" => OverlayInv

\* A step is one of the part, and leaves the others alone.
LEMMA OtherParts ==
  ASSUME [MCNext]_allVars
  PROVE  /\ part' = part
         /\ part = "loading" => [Loading!Next]_loadingVars
         /\ part = "booting" => [Booting!Next]_bootingVars
         /\ part = "patching" => [Patching!Next]_patchingVars
         /\ part = "loop" => [Rendering!Next]_renderingVars
         /\ part = "show" => [Showing!Next]_showingVars
         /\ part = "watch" => [Watching!Next]_watchingVars
         /\ part = "overlay" => [Overlaying!Next]_overlayingVars
<1>1. CASE UNCHANGED allVars
  BY <1>1 DEF allVars, bootVars, loopVars
<1>2. CASE InArena(Next)
  BY <1>2 DEF InArena, bootVars, loopVars
<1>3. CASE InLoading(Loading!Next) \/ InBooting(Booting!Next) \/ InPatching(Patching!Next)
  BY <1>3 DEF InLoading, InBooting, InPatching, InBoot, loopVars
<1>4. CASE InLoop(Rendering!Next) \/ InShow(Showing!Next) \/ InWatch(Watching!Next)
             \/ InOverlay(Overlaying!Next)
  BY <1>4 DEF InLoop, InShow, InWatch, InOverlay, InRun, bootVars
<1> QED BY <1>1, <1>2, <1>3, <1>4 DEF MCNext

\* The invariant of whatever part a behaviour is of.
LEMMA PartsStep == (MCInit => PartsInv) /\ (PartsInv /\ [MCNext]_allVars => PartsInv')
<1>1. MCInit => PartsInv
  BY LoadInit, MemInit, PatchInit, LoopInit, ShowInit, WatchInit, OverlayInit
  DEF MCInit, PartsInv
<1>2. PartsInv /\ [MCNext]_allVars => PartsInv'
  BY OtherParts, LoadStep, MemStep, PatchStep, LoopStep, ShowStep, WatchStep, OverlayStep
  DEF PartsInv
<1> QED BY <1>1, <1>2

\* main.c, so_util.c: any modules, tables, sizes of the heap, stack regions and what is
\* mapped there, and words of the game.  The memory is cut without overlap, a window is
\* inside its hole, the images lie apart with each page permitted once, an import is
\* bound as dlsym answers if a module loaded before exports it and is poisoned if none
\* does, a patch that fits the game is written but for the words whose mapping failed
\* and one that does not changes nothing, and each start buys the packs until it has
\* both and writes them to the file of the preferences if that opens.
THEOREM BootIsSound == MCSpec => []BootSound
<1>1. PartsInv => BootSound
  BY LoadFollows, MemFollows, PatchFollows DEF PartsInv, BootSound
<1> QED BY <1>1, PartsStep, PTL DEF MCSpec

\* main.c, imports.c, diag.c, saltynx.cpp: any frame period, stall, screen, crop,
\* threads, slots, ring of durations, retries and frames.  The clock never goes
\* back, a frame is shown whole, no thread shares a slot or stays paused, and the
\* overlay shows frames that were counted.
THEOREM LoopIsSound == MCSpec => []LoopSound
<1>1. PartsInv => LoopSound
  BY LoopFollows, ShowFollows, WatchFollows, OverlayFollows DEF PartsInv, LoopSound
<1> QED BY <1>1, PartsStep, PTL DEF MCSpec

=============================================================================
