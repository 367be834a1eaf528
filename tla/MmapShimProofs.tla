--------------------------- MODULE MmapShimProofs ---------------------------
(***************************************************************************)
(* Theorems about MmapShim, for every arena, every set of requests and any *)
(* number of threads.  The inductive invariant says besides what each call *)
(* holds on its way: nothing before it got memory, a buffer of its own     *)
(* until the buffer is pinned; and that a place is left for each result.   *)
(***************************************************************************)
EXTENDS MmapShim, NumberFacts

\* A mapping has pages or a buffer, and what is still to trim is part of it.
OneKind(h) == /\ h.over \subseteq h.pages
              /\ h.buf # NoBuf => h.pages = {}
KindSound == (\A m \in MapIds : OneKind(maps[m])) /\ (\A t \in Threads : OneKind(got[t]))

\* What a call holds at each point of its way.
CallSound ==
  \A t \in Threads :
    /\ pc[t] \in {"idle", "arena", "cache", "memalign"} => got[t] = Nothing
    /\ pc[t] \in {"track", "put"} => got[t].buf \in heap \ Cached
    /\ pc[t] = "track" => got[t].buf \notin fb
    /\ pc[t] = "put" => req[t].key # NoKey

\* A result has a place, and the tables keep to their size.
BoundsSound ==
  /\ Cardinality(InMmap) <= Cardinality(Free)
  /\ IsFiniteSet(fb) /\ Cardinality(fb) <= FbMax
  /\ IsFiniteSet(mapc) /\ Cardinality(mapc) <= MapcMax

\* ArenaExact and BuffersSafe, said of maps and calls apart.
PagesApart ==
  /\ \A x \in Page : x \in used <=> \/ \E m \in MapIds : x \in maps[m].pages
                                    \/ \E t \in Threads : x \in got[t].pages
  /\ \A m, n \in MapIds : m # n => maps[m].pages \cap maps[n].pages = {}
  /\ \A t, u \in Threads : t # u => got[t].pages \cap got[u].pages = {}
  /\ \A m \in MapIds, t \in Threads : maps[m].pages \cap got[t].pages = {}

Shared(b) == b \in Cached \cup {NoBuf}
BuffersApart ==
  /\ fb \subseteq heap /\ Cached \subseteq heap \ fb
  /\ \A m \in MapIds : maps[m].buf \in heap \cup {NoBuf}
  /\ \A t \in Threads : got[t].buf \in heap \cup {NoBuf}
  /\ \A m, n \in MapIds : m # n /\ maps[m].buf = maps[n].buf => Shared(maps[m].buf)
  /\ \A t, u \in Threads : t # u /\ got[t].buf = got[u].buf => Shared(got[t].buf)
  /\ \A m \in MapIds, t \in Threads : maps[m].buf = got[t].buf => Shared(maps[m].buf)

IInv == TypeOK /\ KindSound /\ CallSound /\ BoundsSound /\ PagesApart /\ BuffersApart

-----------------------------------------------------------------------------
(* What the search finds.                                                  *)

\* mmap_arena_alloc_locked reserves free pages of the arena, or none.
LEMMA ReservedIsFree ==
  ASSUME used \subseteq Page, NEW need \in Nat \ {0}
  PROVE  Reserved(need) \subseteq Page \ used
<1>1. Page \subseteq Nat /\ \A i \in Page : i =< ArenaPages - 1
  BY ArenaAssumption DEF Page
<1>2. Starts(need) \subseteq Page
  BY DEF Starts
<1>3. Fits(need) # {} => Min(Fits(need)) \in Fits(need)
  <2>1. Fits(need) \subseteq Nat
    BY <1>1, <1>2 DEF Fits
  <2> QED BY <2>1, MinIsLeast
<1>4. FitsTail(need) # {} => Min(FitsTail(need)) \in FitsTail(need)
  <2>1. FitsTail(need) \subseteq Nat
    BY <1>1, <1>2 DEF FitsTail
  <2> QED BY <2>1, MinIsLeast
<1>5. ASSUME NEW i \in Fits(need) PROVE i .. (i + need - 1) \subseteq Page \ used
  <2>1. i \in Nat /\ i + need =< ArenaPages /\ (i .. (i + need - 1)) \cap used = {}
    BY <1>1, <1>2 DEF Fits
  <2> QED BY <2>1, ArenaAssumption DEF Page
<1>6. ASSUME NEW i \in FitsTail(need) PROVE i .. (ArenaPages - 1) \subseteq Page \ used
  <2>1. i \in Nat /\ (i .. (ArenaPages - 1)) \cap used = {}
    BY <1>1, <1>2 DEF FitsTail
  <2> QED BY <2>1, ArenaAssumption DEF Page
<1> QED
  <2>1. CASE Fits(need) # {}
    BY <2>1, <1>3, <1>5 DEF Reserved
  <2>2. CASE Fits(need) = {} /\ FitsTail(need) # {}
    BY <2>2, <1>4, <1>6 DEF Reserved
  <2>3. CASE Fits(need) = {} /\ FitsTail(need) = {}
    BY <2>3 DEF Reserved
  <2> QED BY <2>1, <2>2, <2>3

-----------------------------------------------------------------------------
(* Types.                                                                  *)

\* Every step keeps the types: a search gives pages of the arena, memalign a block.
LEMMA TypeKept ==
  ASSUME TypeOK, KindSound, CallSound, BoundsSound, [Next]_vars
  PROVE  TypeOK'
<1> USE DEF TypeOK
<1>1. ASSUME NEW t \in Threads, NEW r \in Requests, MmapCall(t, r) PROVE TypeOK'
  BY <1>1 DEF MmapCall, Goto, At, MmapPC
<1>2. ASSUME NEW t \in Threads, NEW m \in MapIds, MunmapCall(t, m) PROVE TypeOK'
  BY <1>2 DEF MunmapCall, Goto, Hold, UnmapPC, Nothing
<1>3. ASSUME NEW t \in Threads, NEW m \in MapIds, TrimCall(t, m) PROVE TypeOK'
  BY <1>3 DEF TrimCall, Goto, Hold, UnmapPC, Nothing
<1>4. ASSUME NEW t \in Threads, ArenaAlloc(t) PROVE TypeOK'
  <2> DEFINE p == Reserved(req[t].need)
  <2>1. req[t] \in Requests /\ req[t].need \in Nat \ {0}
    BY RequestAssumption
  <2>2. p \subseteq Page
    BY <2>1, ReservedIsFree
  <2>3. Over(p, req[t]) \subseteq Page
    BY <2>2 DEF Over
  <2> HIDE DEF p
  <2>4. /\ used' = used \cup p
        /\ UNCHANGED <<lock, fb, mapc, heap, maps, req>>
        /\ \/ got' = got
           \/ got' = [got EXCEPT ![t] = [pages |-> p, over |-> Over(p, req[t]), buf |-> NoBuf]]
        /\ \E l \in {"cache", "memalign", "short", "return"} : pc' = [pc EXCEPT ![t] = l]
    BY <1>4 DEF ArenaAlloc, Goto, Hold, p
  <2> QED BY <2>2, <2>3, <2>4 DEF MmapPC
<1>5. ASSUME NEW t \in Threads, LockForGiveBack(t) PROVE TypeOK'
  BY <1>5 DEF LockForGiveBack, Goto, MmapPC
<1>6. ASSUME NEW t \in Threads, MapcacheGet(t) PROVE TypeOK'
  <2>1. CASE \E e \in mapc : got' = [got EXCEPT ![t] = [Nothing EXCEPT !.buf = e.buf]]
    <3>1. PICK e \in mapc : got' = [got EXCEPT ![t] = [Nothing EXCEPT !.buf = e.buf]]
      BY <2>1
    <3>2. e.buf \in Buffers
      OBVIOUS
    <3> QED BY <1>6, <3>1, <3>2 DEF MapcacheGet, Goto, MmapPC, Nothing
  <2>2. CASE got' = got
    BY <1>6, <2>2 DEF MapcacheGet, Goto, MmapPC
  <2> QED BY <1>6, <2>1, <2>2 DEF MapcacheGet, Hold
<1>7. ASSUME NEW t \in Threads, Memalign(t) PROVE TypeOK'
  BY <1>7 DEF Memalign, Goto, Hold, MmapPC, Nothing
<1>8. ASSUME NEW t \in Threads, MemalignFails(t) PROVE TypeOK'
  <2>1. NoRequest \in Requests
    BY <1>8 DEF NoRequest
  <2> QED BY <1>8, <2>1 DEF MemalignFails, Goto
<1>9. ASSUME NEW t \in Threads, Track(t) PROVE TypeOK'
  <2>1. got[t].buf \in Buffers
    BY <1>9 DEF CallSound, Track, At
  <2> QED BY <1>9, <2>1 DEF Track, Goto, MmapPC
<1>10. ASSUME NEW t \in Threads, MapcachePut(t) PROVE TypeOK'
  <2>1. got[t].buf \in Buffers /\ req[t].key \in Keys
    BY <1>10, RequestAssumption DEF CallSound, MapcachePut, At
  <2> QED BY <1>10, <2>1 DEF MapcachePut, Goto, MmapPC
<1>11. ASSUME NEW t \in Threads, Return(t) PROVE TypeOK'
  <2>1. NoRequest \in Requests
    BY <1>11 DEF NoRequest
  <2> QED BY <1>11, <2>1 DEF Return, Goto, Hold, Nothing
<1>12. ASSUME NEW t \in Threads, FallbackFree(t) PROVE TypeOK'
  BY <1>12 DEF FallbackFree, Goto, Hold, UnmapPC, Nothing
<1>13. ASSUME NEW t \in Threads, ArenaFree(t) PROVE TypeOK'
  BY <1>13 DEF ArenaFree, Goto, Hold, Nothing
<1>14. CASE UNCHANGED vars
  BY <1>14 DEF vars
<1> QED BY <1>1, <1>2, <1>3, <1>4, <1>5, <1>6, <1>7, <1>8, <1>9, <1>10, <1>11, <1>12, <1>13, <1>14
        DEF Next, MmapStep, MunmapStep

\* A trim takes what is over, a search gives pages and memalign a buffer.
LEMMA KindKept ==
  ASSUME TypeOK, KindSound, [Next]_vars
  PROVE  KindSound'
<1> USE DEF KindSound, OneKind, TypeOK
<1>1. ASSUME NEW t \in Threads, NEW r \in Requests, MmapCall(t, r) PROVE KindSound'
  BY <1>1 DEF MmapCall
<1>2. ASSUME NEW t \in Threads, NEW m \in MapIds, MunmapCall(t, m) PROVE KindSound'
  BY <1>2 DEF MunmapCall, Hold, Nothing
<1>3. ASSUME NEW t \in Threads, NEW m \in MapIds, TrimCall(t, m) PROVE KindSound'
  BY <1>3 DEF TrimCall, Hold, Nothing
<1>4. ASSUME NEW t \in Threads, ArenaAlloc(t) PROVE KindSound'
  <2> DEFINE p == Reserved(req[t].need)
             h == [pages |-> p, over |-> Over(p, req[t]), buf |-> NoBuf]
  <2>1. OneKind(h)
    BY DEF Over
  <2>2. maps' = maps /\ (got' = got \/ got' = [got EXCEPT ![t] = h])
    BY <1>4 DEF ArenaAlloc, Hold
  <2> HIDE DEF h
  <2> QED BY <2>1, <2>2
<1>5. ASSUME NEW t \in Threads, LockForGiveBack(t) PROVE KindSound'
  BY <1>5 DEF LockForGiveBack
<1>6. ASSUME NEW t \in Threads, MapcacheGet(t) PROVE KindSound'
  BY <1>6 DEF MapcacheGet, Hold, Nothing
<1>7. ASSUME NEW t \in Threads, Memalign(t) PROVE KindSound'
  BY <1>7 DEF Memalign, Hold, Nothing
<1>8. ASSUME NEW t \in Threads, MemalignFails(t) PROVE KindSound'
  BY <1>8 DEF MemalignFails
<1>9. ASSUME NEW t \in Threads, Track(t) PROVE KindSound'
  BY <1>9 DEF Track
<1>10. ASSUME NEW t \in Threads, MapcachePut(t) PROVE KindSound'
  BY <1>10 DEF MapcachePut
<1>11. ASSUME NEW t \in Threads, Return(t) PROVE KindSound'
  BY <1>11 DEF Return, Hold, Nothing
<1>12. ASSUME NEW t \in Threads, FallbackFree(t) PROVE KindSound'
  BY <1>12 DEF FallbackFree, Hold, Nothing
<1>13. ASSUME NEW t \in Threads, ArenaFree(t) PROVE KindSound'
  BY <1>13 DEF ArenaFree, Hold, Nothing
<1>14. CASE UNCHANGED vars
  BY <1>14 DEF vars
<1> QED BY <1>1, <1>2, <1>3, <1>4, <1>5, <1>6, <1>7, <1>8, <1>9, <1>10, <1>11, <1>12, <1>13, <1>14
        DEF Next, MmapStep, MunmapStep

\* No other call takes the buffer of one that has yet to track or pin it.
LEMMA CallKept ==
  ASSUME TypeOK, CallSound, BuffersApart, [Next]_vars
  PROVE  CallSound'
<1> USE DEF CallSound, TypeOK, BuffersApart, Shared, Cached
<1>a. \A t, u \in Threads :
        t # u /\ (pc[u] \in {"track", "put"} \/ got[u].buf \in fb) => got[t].buf # got[u].buf
  BY EngineAssumption
<1>1. ASSUME NEW t \in Threads, NEW r \in Requests, MmapCall(t, r) PROVE CallSound'
  BY <1>1 DEF MmapCall, Goto, At, Hold, Nothing
<1>2. ASSUME NEW t \in Threads, NEW m \in MapIds, MunmapCall(t, m) PROVE CallSound'
  BY <1>2 DEF MunmapCall, Goto, At, Hold, Nothing
<1>3. ASSUME NEW t \in Threads, NEW m \in MapIds, TrimCall(t, m) PROVE CallSound'
  BY <1>3 DEF TrimCall, Goto, At, Hold, Nothing
<1>4. ASSUME NEW t \in Threads, ArenaAlloc(t) PROVE CallSound'
  <2>1. /\ UNCHANGED <<fb, mapc, heap, req>>
        /\ pc[t] = "arena"
        /\ \/ got' = got /\ \E l \in {"cache", "memalign"} : pc' = [pc EXCEPT ![t] = l]
           \/ \E h, l : /\ l \in {"short", "return"} /\ pc' = [pc EXCEPT ![t] = l]
                        /\ got' = [got EXCEPT ![t] = h]
    BY <1>4, Zenon DEF ArenaAlloc, Goto, Hold, At
  <2> QED BY <2>1
<1>5. ASSUME NEW t \in Threads, LockForGiveBack(t) PROVE CallSound'
  BY <1>5 DEF LockForGiveBack, Goto, At, Hold, Nothing
<1>6. ASSUME NEW t \in Threads, MapcacheGet(t) PROVE CallSound'
  <2>1. /\ UNCHANGED <<fb, mapc, heap, req>> /\ pc[t] = "cache"
        /\ \/ got' = got /\ pc' = [pc EXCEPT ![t] = "memalign"]
           \/ \E h : pc' = [pc EXCEPT ![t] = "return"] /\ got' = [got EXCEPT ![t] = h]
    BY <1>6 DEF MapcacheGet, Goto, Hold, At
  <2> QED BY <2>1
<1>7. ASSUME NEW t \in Threads, Memalign(t) PROVE CallSound'
  <2>1. PICK b \in Buffers \ heap : /\ heap' = heap \cup {b}
                                     /\ got' = [got EXCEPT ![t] = [Nothing EXCEPT !.buf = b]]
    BY <1>7 DEF Memalign, Hold
  <2>2. b \notin fb /\ b \notin Cached
    OBVIOUS
  <2> QED BY <1>7, <2>1, <2>2 DEF Memalign, Goto, At, Nothing
<1>8. ASSUME NEW t \in Threads, MemalignFails(t) PROVE CallSound'
  BY <1>8 DEF MemalignFails, Goto, At, Hold, Nothing
<1>9. ASSUME NEW t \in Threads, Track(t) PROVE CallSound'
  <2>1. /\ UNCHANGED <<mapc, heap, req, got>> /\ pc[t] = "track"
        /\ fb' \subseteq fb \cup {got[t].buf}
        /\ pc' = [pc EXCEPT ![t] = IF req[t].key # NoKey THEN "put" ELSE "return"]
    BY <1>9 DEF Track, Goto, At
  <2>2. ASSUME NEW u \in Threads, pc'[u] = "track" PROVE u # t /\ pc[u] = "track"
    BY <2>1, <2>2
  <2>3. ASSUME NEW u \in Threads, pc'[u] = "track" PROVE got[u].buf \notin fb'
    BY <2>1, <2>2, <2>3, <1>a
  <2> QED BY <2>1, <2>3
<1>10. ASSUME NEW t \in Threads, MapcachePut(t) PROVE CallSound'
  <2>1. /\ UNCHANGED <<heap, req, got>> /\ pc[t] = "put"
        /\ fb' \subseteq fb
        /\ pc' = [pc EXCEPT ![t] = "return"]
        /\ mapc' \subseteq mapc \cup {[key |-> req[t].key, buf |-> got[t].buf]}
    BY <1>10 DEF MapcachePut, Goto, At
  <2>2. Cached' \subseteq Cached \cup {got[t].buf}
    BY <2>1
  <2>3. ASSUME NEW u \in Threads, pc'[u] \in {"track", "put"} PROVE got[u].buf \notin Cached'
    <3>1. u # t /\ pc[u] \in {"track", "put"}
      BY <2>1, <2>3
    <3> QED BY <3>1, <2>2, <1>a
  <2> QED BY <2>1, <2>3
<1>11. ASSUME NEW t \in Threads, Return(t) PROVE CallSound'
  BY <1>11 DEF Return, Goto, At, Hold, Nothing
<1>12. ASSUME NEW t \in Threads, FallbackFree(t) PROVE CallSound'
  <2>1. CASE got[t].buf \in fb
    <3>1. /\ UNCHANGED <<mapc, req>> /\ pc[t] = "unfb"
          /\ fb' \subseteq fb /\ heap' = heap \ {got[t].buf}
          /\ pc' = [pc EXCEPT ![t] = "idle"] /\ got' = [got EXCEPT ![t] = Nothing]
      BY <1>12, <2>1 DEF FallbackFree, Goto, Hold, At
    <3>2. ASSUME NEW u \in Threads, pc'[u] \in {"track", "put"} PROVE u # t /\ got[u].buf \in heap'
      <4>1. u # t /\ pc[u] \in {"track", "put"}
        BY <3>1, <3>2
      <4> QED BY <4>1, <3>1, <1>a
    <3> QED BY <3>1, <3>2
  <2>2. CASE got[t].buf \notin fb
    BY <1>12, <2>2 DEF FallbackFree, Goto, At
  <2> QED BY <2>1, <2>2
<1>13. ASSUME NEW t \in Threads, ArenaFree(t) PROVE CallSound'
  BY <1>13 DEF ArenaFree, Goto, At, Hold, Nothing
<1>14. CASE UNCHANGED vars
  BY <1>14 DEF vars
<1> QED BY <1>1, <1>2, <1>3, <1>4, <1>5, <1>6, <1>7, <1>8, <1>9, <1>10, <1>11, <1>12, <1>13, <1>14
        DEF Next, MmapStep, MunmapStep

\* The threads in a call and the free places are finitely many.
LEMMA CountsAreFinite ==
  ASSUME TypeOK
  PROVE  /\ IsFiniteSet(InMmap) /\ Cardinality(InMmap) \in Nat
         /\ IsFiniteSet(Free) /\ Cardinality(Free) \in Nat
<1>1. IsFiniteSet(MapIds)
  BY EngineAssumption, FS_Interval DEF MapIds
<1>2. InMmap \subseteq Threads /\ Free \subseteq MapIds
  BY DEF InMmap, Free
<1> QED BY <1>1, <1>2, EngineAssumption, FS_Subset, FS_CardinalityType

\* A step that starts no call and takes no place leaves a place for each.
LEMMA PlacesKept ==
  ASSUME TypeOK, TypeOK', BoundsSound, InMmap' \subseteq InMmap, Free \subseteq Free'
  PROVE  Cardinality(InMmap') <= Cardinality(Free')
<1>1. /\ IsFiniteSet(Free') /\ Cardinality(Free') \in Nat
      /\ IsFiniteSet(InMmap') /\ Cardinality(InMmap') \in Nat
  <2>1. IsFiniteSet(MapIds)
    BY EngineAssumption, FS_Interval DEF MapIds
  <2>2. InMmap' \subseteq Threads /\ Free' \subseteq MapIds
    BY DEF InMmap, Free
  <2> QED BY <2>1, <2>2, EngineAssumption, FS_Subset, FS_CardinalityType
<1>2. Cardinality(InMmap') <= Cardinality(InMmap) /\ Cardinality(Free) <= Cardinality(Free')
  BY <1>1, CountsAreFinite, FS_Subset
<1> QED BY <1>1, <1>2, CountsAreFinite DEF BoundsSound

\* Return finds a free place.
LEMMA PlaceIsFree ==
  ASSUME TypeOK, BoundsSound, NEW t \in InMmap
  PROVE  Min(Free) \in Free
<1>1. Cardinality(InMmap) # 0
  BY CountsAreFinite, FS_EmptySet
<1>2. Free # {}
  BY <1>1, CountsAreFinite, FS_EmptySet DEF BoundsSound
<1>3. Free \subseteq Nat
  BY EngineAssumption DEF Free, MapIds
<1> QED BY <1>2, <1>3, MinIsLeast

\* A call that starts takes a place, one that returns fills it.
LEMMA BoundsKept ==
  ASSUME TypeOK, TypeOK', CallSound, BoundsSound, [Next]_vars
  PROVE  BoundsSound'
<1> DEFINE Tables == fb' = fb /\ mapc' = mapc
           Places == InMmap' \subseteq InMmap /\ Free \subseteq Free'
<1>a. Places /\ Tables => BoundsSound'
  BY PlacesKept DEF BoundsSound
<1>b. \A t \in Threads, l \in {"idle"} \cup MmapPC \cup UnmapPC :
        pc' = [pc EXCEPT ![t] = l] /\ (t \in InMmap \/ l \notin MmapPC) => InMmap' \subseteq InMmap
  BY DEF InMmap, TypeOK
<1>c. maps' = maps => Free' = Free
  BY DEF Free
<1>d. FbMax \in Nat /\ MapcMax \in Nat
  BY ArenaAssumption
<1>1. ASSUME NEW t \in Threads, NEW r \in Requests, MmapCall(t, r) PROVE BoundsSound'
  <2>1. InMmap' = InMmap \cup {t}
    BY <1>1 DEF MmapCall, InMmap, Goto, TypeOK, MmapPC
  <2>2. Cardinality(InMmap') <= Cardinality(InMmap) + 1
    BY <2>1, CountsAreFinite, OneMore
  <2>3. Free' = Free /\ Cardinality(Free) > Cardinality(InMmap)
    BY <1>1, <1>c DEF MmapCall
  <2>4. Cardinality(InMmap') \in Nat
    BY <2>1, CountsAreFinite, OneMore
  <2> QED BY <1>1, <2>2, <2>3, <2>4, CountsAreFinite DEF MmapCall, BoundsSound
<1>2. ASSUME NEW t \in Threads, NEW m \in MapIds, MunmapCall(t, m) PROVE BoundsSound'
  <2>1. InMmap' \subseteq InMmap
    BY <1>2, <1>b DEF MunmapCall, Goto, MmapPC, UnmapPC
  <2>2. Free \subseteq Free'
    BY <1>2 DEF MunmapCall, Free, TypeOK
  <2> QED BY <1>2, <1>a, <2>1, <2>2 DEF MunmapCall
<1>3. ASSUME NEW t \in Threads, NEW m \in MapIds, TrimCall(t, m) PROVE BoundsSound'
  <2>1. InMmap' \subseteq InMmap
    BY <1>3, <1>b DEF TrimCall, Goto, MmapPC, UnmapPC
  <2>2. m \notin Free
    BY <1>3 DEF TrimCall, Free, Nothing
  <2>3. Free \subseteq Free'
    BY <1>3, <2>2 DEF TrimCall, Free, TypeOK
  <2> QED BY <1>3, <1>a, <2>1, <2>3 DEF TrimCall
<1>4. ASSUME NEW t \in Threads, ArenaAlloc(t) PROVE BoundsSound'
  <2>1. t \in InMmap /\ \E l \in MmapPC : pc' = [pc EXCEPT ![t] = l]
    BY <1>4 DEF ArenaAlloc, Goto, MmapPC, InMmap, At
  <2> QED BY <1>4, <1>a, <1>b, <1>c, <2>1 DEF ArenaAlloc
<1>5. ASSUME NEW t \in Threads, LockForGiveBack(t) PROVE BoundsSound'
  <2>1. InMmap' \subseteq InMmap
    BY <1>5, <1>b DEF LockForGiveBack, Goto, MmapPC, InMmap, At
  <2> QED BY <1>5, <1>a, <1>c, <2>1 DEF LockForGiveBack
<1>6. ASSUME NEW t \in Threads, MapcacheGet(t) PROVE BoundsSound'
  <2>1. t \in InMmap /\ \E l \in MmapPC : pc' = [pc EXCEPT ![t] = l]
    BY <1>6 DEF MapcacheGet, Goto, MmapPC, InMmap, At
  <2> QED BY <1>6, <1>a, <1>b, <1>c, <2>1 DEF MapcacheGet
<1>7. ASSUME NEW t \in Threads, Memalign(t) PROVE BoundsSound'
  <2>1. InMmap' \subseteq InMmap
    BY <1>7, <1>b DEF Memalign, Goto, MmapPC, InMmap, At
  <2> QED BY <1>7, <1>a, <1>c, <2>1 DEF Memalign
<1>8. ASSUME NEW t \in Threads, MemalignFails(t) PROVE BoundsSound'
  <2>1. InMmap' \subseteq InMmap
    BY <1>8, <1>b DEF MemalignFails, Goto, MmapPC, InMmap, At
  <2> QED BY <1>8, <1>a, <1>c, <2>1 DEF MemalignFails
<1>9. ASSUME NEW t \in Threads, Track(t) PROVE BoundsSound'
  <2>1. t \in InMmap /\ \E l \in MmapPC : pc' = [pc EXCEPT ![t] = l]
    BY <1>9 DEF Track, Goto, MmapPC, InMmap, At
  <2>2. Cardinality(InMmap') <= Cardinality(Free')
    BY <1>9, <1>b, <1>c, <2>1, PlacesKept DEF Track
  <2>3. IsFiniteSet(fb') /\ Cardinality(fb') <= FbMax
    <3>1. CASE Cardinality(fb) < FbMax
      <4>1. fb' = fb \cup {got[t].buf} /\ IsFiniteSet(fb)
        BY <1>9, <3>1 DEF Track, BoundsSound
      <4>2. /\ IsFiniteSet(fb') /\ Cardinality(fb) \in Nat /\ Cardinality(fb') \in Nat
            /\ Cardinality(fb') <= Cardinality(fb) + 1
        BY <4>1, OneMore
      <4> QED BY <4>2, <3>1, <1>d
    <3>2. CASE ~ (Cardinality(fb) < FbMax)
      BY <1>9, <3>2 DEF Track, BoundsSound
    <3> QED BY <3>1, <3>2
  <2> QED BY <1>9, <2>2, <2>3 DEF Track, BoundsSound
<1>10. ASSUME NEW t \in Threads, MapcachePut(t) PROVE BoundsSound'
  <2>1. t \in InMmap /\ \E l \in MmapPC : pc' = [pc EXCEPT ![t] = l]
    BY <1>10 DEF MapcachePut, Goto, MmapPC, InMmap, At
  <2>2. Cardinality(InMmap') <= Cardinality(Free')
    BY <1>10, <1>b, <1>c, <2>1, PlacesKept DEF MapcachePut
  <2>3. IsFiniteSet(fb') /\ Cardinality(fb') <= FbMax
    BY <1>10, <1>d, FS_Subset, FS_CardinalityType DEF MapcachePut, BoundsSound
  <2>4. IsFiniteSet(mapc') /\ Cardinality(mapc') <= MapcMax
    <3>1. CASE Cardinality(mapc) < MapcMax
      <4>1. mapc' = mapc \cup {[key |-> req[t].key, buf |-> got[t].buf]} /\ IsFiniteSet(mapc)
        BY <1>10, <3>1 DEF MapcachePut, BoundsSound
      <4>2. /\ IsFiniteSet(mapc') /\ Cardinality(mapc) \in Nat /\ Cardinality(mapc') \in Nat
            /\ Cardinality(mapc') <= Cardinality(mapc) + 1
        BY <4>1, OneMore
      <4> QED BY <4>2, <3>1, <1>d
    <3>2. CASE ~ (Cardinality(mapc) < MapcMax)
      BY <1>10, <3>2 DEF MapcachePut, BoundsSound
    <3> QED BY <3>1, <3>2
  <2> QED BY <2>2, <2>3, <2>4 DEF BoundsSound
<1>11. ASSUME NEW t \in Threads, Return(t) PROVE BoundsSound'
  <2>1. t \in InMmap
    BY <1>11 DEF Return, InMmap, MmapPC, At
  <2>2. Min(Free) \in Free
    BY <2>1, PlaceIsFree
  <2>3. InMmap' = InMmap \ {t}
    BY <1>11 DEF Return, Goto, InMmap, TypeOK, MmapPC
  <2>4. Free \ {Min(Free)} \subseteq Free'
    BY <1>11 DEF Return, Free, TypeOK
  <2>5. Free' \subseteq MapIds /\ IsFiniteSet(MapIds)
    BY EngineAssumption, FS_Interval DEF MapIds, Free
  <2>6. IsFiniteSet(Free') /\ Cardinality(Free') \in Nat
    BY <2>5, FS_Subset, FS_CardinalityType
  <2>7. Cardinality(Free) - 1 <= Cardinality(Free')
    BY <2>4, <2>6, CountsAreFinite, OneLess
  <2>8. Cardinality(InMmap') = Cardinality(InMmap) - 1
    BY <2>1, <2>3, CountsAreFinite, FS_RemoveElement
  <2> QED BY <1>11, <2>6, <2>7, <2>8, CountsAreFinite DEF Return, BoundsSound
<1>12. ASSUME NEW t \in Threads, FallbackFree(t) PROVE BoundsSound'
  <2>1. \E l \in {"idle"} \cup UnmapPC : l \notin MmapPC /\ pc' = [pc EXCEPT ![t] = l]
    BY <1>12 DEF FallbackFree, Goto, MmapPC, UnmapPC
  <2>2. Cardinality(InMmap') <= Cardinality(Free')
    BY <1>12, <1>b, <1>c, <2>1, PlacesKept DEF FallbackFree
  <2>3. IsFiniteSet(fb') /\ Cardinality(fb') <= FbMax
    BY <1>12, <1>d, FS_Subset, FS_CardinalityType DEF FallbackFree, BoundsSound
  <2> QED BY <1>12, <2>2, <2>3 DEF FallbackFree, BoundsSound
<1>13. ASSUME NEW t \in Threads, ArenaFree(t) PROVE BoundsSound'
  <2>1. InMmap' \subseteq InMmap
    BY <1>13, <1>b DEF ArenaFree, Goto, MmapPC
  <2> QED BY <1>13, <1>a, <1>c, <2>1 DEF ArenaFree
<1>14. CASE UNCHANGED vars
  BY <1>14 DEF vars, BoundsSound, InMmap, Free
<1> QED BY <1>1, <1>2, <1>3, <1>4, <1>5, <1>6, <1>7, <1>8, <1>9, <1>10, <1>11, <1>12, <1>13, <1>14
        DEF Next, MmapStep, MunmapStep

-----------------------------------------------------------------------------
(* Pages.                                                                  *)

\* Only a search, a free, a trim and the two ends of a call move pages.
LEMMA PagesKept ==
  ASSUME TypeOK, TypeOK', KindSound, CallSound, BoundsSound, PagesApart, BuffersApart, [Next]_vars
  PROVE  PagesApart'
<1> DEFINE SamePages == /\ used' = used
                        /\ \A m \in MapIds : maps'[m].pages = maps[m].pages
                        /\ \A t \in Threads : got'[t].pages = got[t].pages
<1>a. SamePages => PagesApart'
  BY DEF PagesApart
<1>b. \A t \in Threads : pc[t] \in {"idle", "arena", "cache", "memalign"} => got[t].pages = {}
  BY DEF CallSound, Nothing
<1>c. \A b : [Nothing EXCEPT !.buf = b].pages = {}
  BY DEF Nothing
<1>d. Nothing.pages = {}
  BY DEF Nothing
<1>1. ASSUME NEW t \in Threads, NEW r \in Requests, MmapCall(t, r) PROVE PagesApart'
  BY <1>1, <1>a DEF MmapCall
<1>2. ASSUME NEW t \in Threads, NEW m \in MapIds, MunmapCall(t, m) PROVE PagesApart'
  <2>1. /\ used' = used /\ got[t].pages = {}
        /\ \A n \in MapIds : maps'[n].pages = IF n = m THEN {} ELSE maps[n].pages
        /\ \A u \in Threads : got'[u].pages = IF u = t THEN maps[m].pages ELSE got[u].pages
    BY <1>2, <1>b, <1>d DEF MunmapCall, Hold, At, TypeOK
  <2> QED BY <2>1 DEF PagesApart
<1>3. ASSUME NEW t \in Threads, NEW m \in MapIds, TrimCall(t, m) PROVE PagesApart'
  <2>1. /\ used' = used /\ got[t].pages = {}
        /\ \A n \in MapIds : maps'[n].pages = IF n = m THEN maps[m].pages \ maps[m].over
                                                        ELSE maps[n].pages
        /\ \A u \in Threads : got'[u].pages = IF u = t THEN maps[m].over ELSE got[u].pages
    BY <1>3, <1>b DEF TrimCall, Hold, At, TypeOK, Nothing
  <2>2. maps[m].over \subseteq maps[m].pages
    BY DEF KindSound, OneKind
  <2> QED BY <2>1, <2>2 DEF PagesApart
<1>4. ASSUME NEW t \in Threads, ArenaAlloc(t) PROVE PagesApart'
  <2> DEFINE p == Reserved(req[t].need)
  <2>1. p \subseteq Page \ used
    BY ReservedIsFree, RequestAssumption DEF TypeOK
  <2> HIDE DEF p
  <2>2. /\ used' = used \cup p /\ maps' = maps /\ got[t].pages = {}
        /\ \A u \in Threads : got'[u].pages = IF u = t THEN p ELSE got[u].pages
    <3>1. /\ used' = used \cup p /\ maps' = maps /\ pc[t] = "arena"
          /\ \/ p = {} /\ got' = got
             \/ got' = [got EXCEPT ![t] = [pages |-> p, over |-> Over(p, req[t]), buf |-> NoBuf]]
      BY <1>4 DEF ArenaAlloc, At, Hold, p
    <3>2. got[t].pages = {}
      BY <3>1, <1>b
    <3>3. CASE p = {} /\ got' = got
      BY <3>1, <3>2, <3>3
    <3>4. CASE got' = [got EXCEPT ![t] = [pages |-> p, over |-> Over(p, req[t]), buf |-> NoBuf]]
      BY <3>1, <3>2, <3>4 DEF TypeOK
    <3> QED BY <3>1, <3>3, <3>4
  <2>3. \A x \in p : /\ \A n \in MapIds : x \notin maps[n].pages
                     /\ \A u \in Threads : x \notin got[u].pages
    BY <2>1 DEF PagesApart
  <2>4. \A x \in Page : x \in used' <=> \/ \E n \in MapIds : x \in maps'[n].pages
                                        \/ \E u \in Threads : x \in got'[u].pages
    <3>1. \A x \in Page : (\E u \in Threads : x \in got'[u].pages)
                            <=> x \in p \/ \E u \in Threads : x \in got[u].pages
      BY <2>2
    <3> QED BY <2>2, <3>1 DEF PagesApart
  <2>5. \A u, v \in Threads : u # v => got'[u].pages \cap got'[v].pages = {}
    BY <2>2, <2>3 DEF PagesApart
  <2>6. \A n \in MapIds, u \in Threads : maps'[n].pages \cap got'[u].pages = {}
    BY <2>2, <2>3 DEF PagesApart
  <2> QED BY <2>2, <2>4, <2>5, <2>6 DEF PagesApart
<1>5. ASSUME NEW t \in Threads, LockForGiveBack(t) PROVE PagesApart'
  BY <1>5, <1>a DEF LockForGiveBack
<1>6. ASSUME NEW t \in Threads, MapcacheGet(t) PROVE PagesApart'
  BY <1>6, <1>a, <1>b, <1>c DEF MapcacheGet, Hold, At, TypeOK
<1>7. ASSUME NEW t \in Threads, Memalign(t) PROVE PagesApart'
  BY <1>7, <1>a, <1>b, <1>c DEF Memalign, Hold, At, TypeOK
<1>8. ASSUME NEW t \in Threads, MemalignFails(t) PROVE PagesApart'
  BY <1>8, <1>a DEF MemalignFails
<1>9. ASSUME NEW t \in Threads, Track(t) PROVE PagesApart'
  BY <1>9, <1>a DEF Track
<1>10. ASSUME NEW t \in Threads, MapcachePut(t) PROVE PagesApart'
  BY <1>10, <1>a DEF MapcachePut
<1>11. ASSUME NEW t \in Threads, Return(t) PROVE PagesApart'
  <2>1. Min(Free) \in MapIds /\ maps[Min(Free)] = Nothing
    BY <1>11, PlaceIsFree DEF Return, At, InMmap, MmapPC, Free
  <2>2. PICK k \in MapIds : maps[k] = Nothing /\ maps' = [maps EXCEPT ![k] = got[t]]
    BY <1>11, <2>1 DEF Return
  <2>3. /\ used' = used /\ maps[k].pages = {}
        /\ \A n \in MapIds : maps'[n].pages = IF n = k THEN got[t].pages ELSE maps[n].pages
        /\ \A u \in Threads : got'[u].pages = IF u = t THEN {} ELSE got[u].pages
    BY <1>11, <1>d, <2>2 DEF Return, Hold, TypeOK
  <2> QED BY <2>3 DEF PagesApart
<1>12. ASSUME NEW t \in Threads, FallbackFree(t) PROVE PagesApart'
  <2>1. got[t].buf \in fb => got[t].pages = {}
    BY EngineAssumption DEF KindSound, OneKind, TypeOK
  <2> QED BY <1>12, <1>a, <1>d, <2>1 DEF FallbackFree, Hold, TypeOK
<1>13. ASSUME NEW t \in Threads, ArenaFree(t) PROVE PagesApart'
  <2>1. /\ used' = used \ got[t].pages /\ maps' = maps
        /\ \A u \in Threads : got'[u].pages = IF u = t THEN {} ELSE got[u].pages
    BY <1>13, <1>d DEF ArenaFree, Hold, TypeOK
  <2> QED BY <2>1 DEF PagesApart
<1>14. CASE UNCHANGED vars
  BY <1>14, <1>a DEF vars
<1> QED BY <1>1, <1>2, <1>3, <1>4, <1>5, <1>6, <1>7, <1>8, <1>9, <1>10, <1>11, <1>12, <1>13, <1>14
        DEF Next, MmapStep, MunmapStep

-----------------------------------------------------------------------------
(* Buffers.                                                                *)

\* A buffer is freed only out of g_fb, so only one call can hold it.
LEMMA BuffersKept ==
  ASSUME TypeOK, TypeOK', KindSound, CallSound, BoundsSound, BuffersApart, [Next]_vars
  PROVE  BuffersApart'
<1> DEFINE SameBuffers == /\ \A m \in MapIds : maps'[m].buf = maps[m].buf
                          /\ \A t \in Threads : got'[t].buf = got[t].buf
<1>a. SameBuffers /\ UNCHANGED <<fb, mapc, heap>> => BuffersApart'
  BY DEF BuffersApart, Shared, Cached
<1>b. \A t \in Threads : pc[t] \in {"idle", "arena", "cache", "memalign"} => got[t].buf = NoBuf
  BY DEF CallSound, Nothing
<1>c. \A b : [Nothing EXCEPT !.buf = b].buf = b
  BY DEF Nothing
<1>d. Nothing.buf = NoBuf
  BY DEF Nothing
<1>1. ASSUME NEW t \in Threads, NEW r \in Requests, MmapCall(t, r) PROVE BuffersApart'
  BY <1>1, <1>a DEF MmapCall
<1>2. ASSUME NEW t \in Threads, NEW m \in MapIds, MunmapCall(t, m) PROVE BuffersApart'
  <2>1. /\ UNCHANGED <<fb, mapc, heap>> /\ got[t].buf = NoBuf
        /\ \A n \in MapIds : maps'[n].buf = IF n = m THEN NoBuf ELSE maps[n].buf
        /\ \A u \in Threads : got'[u].buf = IF u = t THEN maps[m].buf ELSE got[u].buf
    BY <1>2, <1>b, <1>d DEF MunmapCall, Hold, At, TypeOK
  <2> QED BY <2>1 DEF BuffersApart, Shared, Cached
<1>3. ASSUME NEW t \in Threads, NEW m \in MapIds, TrimCall(t, m) PROVE BuffersApart'
  <2>1. UNCHANGED <<fb, mapc, heap>> /\ SameBuffers
    BY <1>3, <1>b DEF TrimCall, Hold, At, TypeOK, Nothing
  <2> QED BY <2>1, <1>a
<1>4. ASSUME NEW t \in Threads, ArenaAlloc(t) PROVE BuffersApart'
  <2>1. /\ UNCHANGED <<fb, mapc, heap, maps>> /\ pc[t] = "arena"
        /\ \/ got' = got
           \/ \E p, o : got' = [got EXCEPT ![t] = [pages |-> p, over |-> o, buf |-> NoBuf]]
    BY <1>4 DEF ArenaAlloc, At, Hold
  <2> QED BY <2>1, <1>a, <1>b DEF TypeOK
<1>5. ASSUME NEW t \in Threads, LockForGiveBack(t) PROVE BuffersApart'
  BY <1>5, <1>a DEF LockForGiveBack
<1>6. ASSUME NEW t \in Threads, MapcacheGet(t) PROVE BuffersApart'
  <2>1. CASE got' = got
    BY <1>6, <1>a, <2>1 DEF MapcacheGet
  <2>2. CASE got' # got
    <3>1. PICK e \in mapc : got' = [got EXCEPT ![t] = [Nothing EXCEPT !.buf = e.buf]]
      BY <1>6, <2>2 DEF MapcacheGet, Hold
    <3>2. /\ UNCHANGED <<fb, mapc, heap, maps>> /\ e.buf \in Cached
          /\ \A u \in Threads : got'[u].buf = IF u = t THEN e.buf ELSE got[u].buf
      BY <1>6, <1>c, <3>1 DEF MapcacheGet, Cached, TypeOK
    <3> QED BY <3>2 DEF BuffersApart, Shared, Cached
  <2> QED BY <2>1, <2>2
<1>7. ASSUME NEW t \in Threads, Memalign(t) PROVE BuffersApart'
  <2>1. PICK b \in Buffers \ heap : /\ heap' = heap \cup {b}
                                     /\ got' = [got EXCEPT ![t] = [Nothing EXCEPT !.buf = b]]
    BY <1>7 DEF Memalign, Hold
  <2>2. /\ UNCHANGED <<fb, mapc, maps>> /\ b # NoBuf
        /\ \A u \in Threads : got'[u].buf = IF u = t THEN b ELSE got[u].buf
    BY <1>7, <1>c, <2>1, EngineAssumption DEF Memalign, TypeOK
  <2> QED BY <2>1, <2>2 DEF BuffersApart, Shared, Cached
<1>8. ASSUME NEW t \in Threads, MemalignFails(t) PROVE BuffersApart'
  BY <1>8, <1>a DEF MemalignFails
<1>9. ASSUME NEW t \in Threads, Track(t) PROVE BuffersApart'
  <2>1. /\ UNCHANGED <<mapc, heap, maps, got>> /\ fb' \subseteq fb \cup {got[t].buf}
        /\ got[t].buf \in heap \ Cached
    BY <1>9 DEF Track, CallSound, At
  <2> QED BY <2>1 DEF BuffersApart, Shared, Cached
<1>10. ASSUME NEW t \in Threads, MapcachePut(t) PROVE BuffersApart'
  <2>1. /\ UNCHANGED <<heap, maps, got>> /\ fb' = fb \ {got[t].buf}
        /\ got[t].buf \in heap
        /\ mapc' = mapc \/ mapc' = mapc \cup {[key |-> req[t].key, buf |-> got[t].buf]}
    BY <1>10 DEF MapcachePut, CallSound, At
  <2>2. Cached \subseteq Cached' /\ Cached' \subseteq Cached \cup {got[t].buf}
    BY <2>1 DEF Cached
  <2> HIDE DEF Cached
  <2> QED BY <2>1, <2>2 DEF BuffersApart, Shared
<1>11. ASSUME NEW t \in Threads, Return(t) PROVE BuffersApart'
  <2>1. Min(Free) \in MapIds /\ maps[Min(Free)] = Nothing
    BY <1>11, PlaceIsFree DEF Return, At, InMmap, MmapPC, Free
  <2>2. PICK k \in MapIds : maps[k] = Nothing /\ maps' = [maps EXCEPT ![k] = got[t]]
    BY <1>11, <2>1 DEF Return
  <2>3. /\ UNCHANGED <<fb, mapc, heap>> /\ maps[k].buf = NoBuf
        /\ \A n \in MapIds : maps'[n].buf = IF n = k THEN got[t].buf ELSE maps[n].buf
        /\ \A u \in Threads : got'[u].buf = IF u = t THEN NoBuf ELSE got[u].buf
    BY <1>11, <1>d, <2>2 DEF Return, Hold, TypeOK
  <2> QED BY <2>3 DEF BuffersApart, Shared, Cached
<1>12. ASSUME NEW t \in Threads, FallbackFree(t) PROVE BuffersApart'
  <2>1. CASE got[t].buf \in fb
    <3>1. /\ UNCHANGED <<mapc, maps>> /\ fb' = fb \ {got[t].buf} /\ heap' = heap \ {got[t].buf}
          /\ \A u \in Threads : got'[u].buf = IF u = t THEN NoBuf ELSE got[u].buf
      BY <1>12, <1>d, <2>1 DEF FallbackFree, Hold, TypeOK
    <3>2. got[t].buf \notin Cached \cup {NoBuf}
      BY <2>1, EngineAssumption DEF BuffersApart, TypeOK
    <3> QED BY <3>1, <3>2 DEF BuffersApart, Shared, Cached
  <2>2. CASE got[t].buf \notin fb
    BY <1>12, <1>a, <2>2 DEF FallbackFree
  <2> QED BY <2>1, <2>2
<1>13. ASSUME NEW t \in Threads, ArenaFree(t) PROVE BuffersApart'
  BY <1>13, <1>d DEF ArenaFree, Hold, TypeOK, BuffersApart, Shared, Cached
<1>14. CASE UNCHANGED vars
  BY <1>14, <1>a DEF vars
<1> QED BY <1>1, <1>2, <1>3, <1>4, <1>5, <1>6, <1>7, <1>8, <1>9, <1>10, <1>11, <1>12, <1>13, <1>14
        DEF Next, MmapStep, MunmapStep

-----------------------------------------------------------------------------
(* The properties.                                                         *)

\* Nothing is mapped and nobody calls.
LEMMA InvInit == Init => IInv
<1> SUFFICES ASSUME Init PROVE IInv
  OBVIOUS
<1>1. Cardinality(InMmap) = 0 /\ Cardinality(Free) \in Nat
  <2>1. InMmap = {} /\ Free \subseteq MapIds
    BY DEF Init, InMmap, MmapPC, Free
  <2>2. IsFiniteSet(MapIds)
    BY EngineAssumption, FS_Interval DEF MapIds
  <2>3. IsFiniteSet(Free)
    BY <2>1, <2>2, FS_Subset
  <2>4. Cardinality(Free) \in Nat
    BY <2>3, FS_CardinalityType
  <2>5. Cardinality(InMmap) = 0
    BY <2>1, FS_EmptySet
  <2> QED BY <2>4, <2>5
<1>2. TypeOK
  <2>1. NoRequest \in Requests
    BY EngineAssumption DEF NoRequest
  <2> QED BY <2>1 DEF Init, TypeOK, Nothing
<1>3. KindSound /\ CallSound
  BY Zenon DEF Init, KindSound, OneKind, CallSound, Nothing
<1>4. BoundsSound
  BY <1>1, ArenaAssumption, FS_EmptySet DEF Init, BoundsSound
<1>5. PagesApart /\ BuffersApart
  BY DEF Init, PagesApart, BuffersApart, Shared, Cached, Nothing
<1> QED BY <1>2, <1>3, <1>4, <1>5 DEF IInv

\* Every step of an engine thread keeps the invariant.
LEMMA InvStep == IInv /\ [Next]_vars => IInv'
<1> SUFFICES ASSUME IInv, [Next]_vars PROVE IInv'
  OBVIOUS
<1> USE DEF IInv
<1>1. TypeOK'
  BY TypeKept
<1>2. KindSound' /\ CallSound'
  BY KindKept, CallKept
<1>3. BoundsSound'
  BY <1>1, BoundsKept
<1>4. PagesApart' /\ BuffersApart'
  BY <1>1, PagesKept, BuffersKept
<1> QED BY <1>1, <1>2, <1>3, <1>4

\* So it holds for good.
LEMMA InvAlways == Spec => []IInv
<1> QED BY InvInit, InvStep, PTL DEF Spec

\* Every variable keeps its type, whatever mmap_fake and munmap_fake do.
THEOREM MmapShimTypes == Spec => []TypeOK
<1>1. IInv => TypeOK
  BY DEF IInv
<1> QED BY <1>1, InvAlways, PTL

\* Everything held is a mapping of the engine or what a call holds.
LEMMA HeldIsMapOrCall ==
  ASSUME NEW h \in Held
  PROVE  \/ \E m \in MapIds : h = <<"map", m, maps[m]>> /\ h[3] = maps[m]
         \/ \E t \in Threads : h = <<"call", t, got[t]>> /\ h[3] = got[t]
BY DEF Held

\* The bitmap of mmap_fake is exact: a page is reserved if and only if one
\* mapping or call has it (libc_shim.c:746).
THEOREM BitmapExact == Spec => []ArenaExact
<1>1. ASSUME IInv PROVE ArenaExact
  <2>1. PagesApart /\ TypeOK
    BY <1>1 DEF IInv
  <2>2. used \subseteq UNION {h[3].pages : h \in Held}
    <3> SUFFICES ASSUME NEW x \in used PROVE \E h \in Held : x \in h[3].pages
      OBVIOUS
    <3>1. CASE \E m \in MapIds : x \in maps[m].pages
      <4>1. PICK m \in MapIds : x \in maps[m].pages
        BY <3>1
      <4>2. <<"map", m, maps[m]>> \in Held /\ <<"map", m, maps[m]>>[3] = maps[m]
        BY DEF Held
      <4> QED BY <4>1, <4>2
    <3>2. CASE \E t \in Threads : x \in got[t].pages
      <4>1. PICK t \in Threads : x \in got[t].pages
        BY <3>2
      <4>2. <<"call", t, got[t]>> \in Held /\ <<"call", t, got[t]>>[3] = got[t]
        BY DEF Held
      <4> QED BY <4>1, <4>2
    <3> QED BY <2>1, <3>1, <3>2 DEF PagesApart, TypeOK
  <2>3. ASSUME NEW h \in Held PROVE h[3].pages \subseteq used
    BY <2>1, <2>3, HeldIsMapOrCall DEF PagesApart, TypeOK
  <2>4. ASSUME NEW g \in Held, NEW h \in Held, g # h PROVE g[3].pages \cap h[3].pages = {}
    BY <2>1, <2>4, HeldIsMapOrCall DEF PagesApart
  <2> QED BY <2>2, <2>3, <2>4 DEF ArenaExact
<1> QED BY <1>1, InvAlways, PTL

\* munmap_fake never frees a buffer that a mapping or another call holds, and
\* only pinned file maps share one (libc_shim.c:1189).
THEOREM NoFreedMapping == Spec => []BuffersSafe
<1>1. ASSUME IInv PROVE BuffersSafe
  <2>1. BuffersApart
    BY <1>1 DEF IInv
  <2>2. ASSUME NEW h \in Held PROVE h[3].buf \in heap \cup {NoBuf}
    BY <2>1, HeldIsMapOrCall DEF BuffersApart
  <2>3. ASSUME NEW g \in Held, NEW h \in Held, g # h, g[3].buf = h[3].buf
        PROVE  h[3].buf \in Cached \cup {NoBuf}
    BY <2>1, <2>3, HeldIsMapOrCall DEF BuffersApart, Shared
  <2> QED BY <2>1, <2>2, <2>3 DEF BuffersSafe, BuffersApart
<1> QED BY <1>1, InvAlways, PTL

\* One step of LostOnlyAtLimit.
LostStep == /\ Lost \subseteq Lost'
            /\ Lost' # Lost => Cardinality(mapc) = MapcMax \/ Cardinality(fb) = FbMax

\* Between the tables and the calls on their way no buffer gets out of sight.
LEMMA LostKept ==
  ASSUME IInv, IInv', [Next]_vars
  PROVE  LostStep
<1> USE DEF IInv
<1> DEFINE Transit(t) == pc[t] \in {"track", "put"}
           SameTransit == \A t \in Threads : /\ Transit(t)' <=> Transit(t)
                                             /\ Transit(t) => got'[t].buf = got[t].buf
<1>a. SameTransit => InTransit' = InTransit
  <2> SUFFICES ASSUME SameTransit PROVE InTransit' = InTransit
    OBVIOUS
  <2>1. ASSUME NEW b PROVE b \in InTransit' <=> \E t \in Threads : Transit(t)' /\ got'[t].buf = b
    BY DEF InTransit
  <2>2. ASSUME NEW b PROVE b \in InTransit <=> \E t \in Threads : Transit(t) /\ got[t].buf = b
    BY DEF InTransit
  <2>3. ASSUME NEW b PROVE b \in InTransit' <=> b \in InTransit
    BY <2>1, <2>2
  <2> QED BY <2>3
<1>b. SameTransit /\ UNCHANGED <<fb, mapc, heap>> => LostStep
  BY <1>a DEF LostStep, Lost, Cached
<1>c. FbMax \in Nat /\ MapcMax \in Nat /\ Cardinality(fb) \in Nat /\ Cardinality(mapc) \in Nat
  BY ArenaAssumption, FS_CardinalityType DEF BoundsSound
<1>1. ASSUME NEW t \in Threads, NEW r \in Requests, MmapCall(t, r) PROVE LostStep
  BY <1>1, <1>b DEF MmapCall, Goto, At, TypeOK
<1>2. ASSUME NEW t \in Threads, NEW m \in MapIds, MunmapCall(t, m) PROVE LostStep
  BY <1>2, <1>b DEF MunmapCall, Goto, Hold, At, TypeOK
<1>3. ASSUME NEW t \in Threads, NEW m \in MapIds, TrimCall(t, m) PROVE LostStep
  BY <1>3, <1>b DEF TrimCall, Goto, Hold, At, TypeOK
<1>4. ASSUME NEW t \in Threads, ArenaAlloc(t) PROVE LostStep
  <2>1. /\ UNCHANGED <<fb, mapc, heap>> /\ pc[t] = "arena"
        /\ \E l \in {"cache", "memalign", "short", "return"} : pc' = [pc EXCEPT ![t] = l]
        /\ got' = got \/ \E h : got' = [got EXCEPT ![t] = h]
    BY <1>4 DEF ArenaAlloc, Goto, Hold, At
  <2> QED BY <2>1, <1>b DEF TypeOK
<1>5. ASSUME NEW t \in Threads, LockForGiveBack(t) PROVE LostStep
  BY <1>5, <1>b DEF LockForGiveBack, Goto, At, TypeOK
<1>6. ASSUME NEW t \in Threads, MapcacheGet(t) PROVE LostStep
  <2>1. /\ UNCHANGED <<fb, mapc, heap>> /\ pc[t] = "cache"
        /\ \E l \in {"memalign", "return"} : pc' = [pc EXCEPT ![t] = l]
        /\ got' = got \/ \E h : got' = [got EXCEPT ![t] = h]
    BY <1>6 DEF MapcacheGet, Goto, Hold, At
  <2> QED BY <2>1, <1>b DEF TypeOK
<1>7. ASSUME NEW t \in Threads, Memalign(t) PROVE LostStep
  <2>1. PICK b \in Buffers \ heap : /\ heap' = heap \cup {b}
                                     /\ got' = [got EXCEPT ![t] = [Nothing EXCEPT !.buf = b]]
    BY <1>7 DEF Memalign, Hold
  <2>2. UNCHANGED <<fb, mapc>> /\ pc[t] = "memalign" /\ pc' = [pc EXCEPT ![t] = "track"]
    BY <1>7 DEF Memalign, Goto, At
  <2>3. \A u \in Threads : got'[u].buf = IF u = t THEN b ELSE got[u].buf
    BY <2>1 DEF TypeOK, Nothing
  <2>4. InTransit' = InTransit \cup {b}
    BY <2>2, <2>3 DEF InTransit, TypeOK
  <2> QED BY <2>1, <2>2, <2>4 DEF LostStep, Lost, Cached
<1>8. ASSUME NEW t \in Threads, MemalignFails(t) PROVE LostStep
  BY <1>8, <1>b DEF MemalignFails, Goto, At, TypeOK
<1>9. ASSUME NEW t \in Threads, Track(t) PROVE LostStep
  <2>1. UNCHANGED <<mapc, heap, got>>
    BY <1>9 DEF Track
  <2>2. InTransit' \subseteq InTransit /\ InTransit \subseteq InTransit' \cup {got[t].buf}
    BY <1>9 DEF Track, InTransit, Goto, At, TypeOK
  <2>3. got[t].buf \in InTransit
    BY <1>9 DEF Track, InTransit, At
  <2>4. CASE Cardinality(fb) < FbMax
    <3>1. fb' = fb \cup {got[t].buf}
      BY <1>9, <2>4 DEF Track
    <3>2. Lost' = Lost
      BY <2>1, <2>2, <2>3, <3>1 DEF Lost, Cached
    <3> QED BY <3>2 DEF LostStep
  <2>5. CASE ~ (Cardinality(fb) < FbMax)
    <3>1. Cardinality(fb) = FbMax
      BY <1>c, <2>5 DEF BoundsSound
    <3>2. fb' = fb
      BY <1>9, <2>5 DEF Track
    <3> QED BY <2>1, <2>2, <3>1, <3>2 DEF LostStep, Lost, Cached
  <2> QED BY <2>4, <2>5
<1>10. ASSUME NEW t \in Threads, MapcachePut(t) PROVE LostStep
  <2>1. UNCHANGED <<heap, got>> /\ fb' = fb \ {got[t].buf}
    BY <1>10 DEF MapcachePut
  <2>2. InTransit' \subseteq InTransit /\ InTransit \subseteq InTransit' \cup {got[t].buf}
    BY <1>10 DEF MapcachePut, InTransit, Goto, At, TypeOK
  <2>3. got[t].buf \in InTransit
    BY <1>10 DEF MapcachePut, InTransit, At
  <2>4. CASE Cardinality(mapc) < MapcMax
    <3>1. mapc' = mapc \cup {[key |-> req[t].key, buf |-> got[t].buf]}
      BY <1>10, <2>4 DEF MapcachePut
    <3>2. Cached' = Cached \cup {got[t].buf}
      <4> DEFINE e == [key |-> req[t].key, buf |-> got[t].buf]
      <4>1. e.buf = got[t].buf /\ mapc' = mapc \cup {e}
        BY <3>1
      <4> HIDE DEF e
      <4> QED BY <4>1 DEF Cached
    <3>3. Lost' = Lost
      BY <2>1, <2>2, <2>3, <3>2 DEF Lost
    <3> QED BY <3>3 DEF LostStep
  <2>5. CASE ~ (Cardinality(mapc) < MapcMax)
    <3>1. Cardinality(mapc) = MapcMax
      BY <1>c, <2>5 DEF BoundsSound
    <3>2. mapc' = mapc
      BY <1>10, <2>5 DEF MapcachePut
    <3> QED BY <2>1, <2>2, <2>3, <3>1, <3>2 DEF LostStep, Lost, Cached
  <2> QED BY <2>4, <2>5
<1>11. ASSUME NEW t \in Threads, Return(t) PROVE LostStep
  BY <1>11, <1>b DEF Return, Goto, Hold, At, TypeOK
<1>12. ASSUME NEW t \in Threads, FallbackFree(t) PROVE LostStep
  <2>1. CASE got[t].buf \in fb
    <3>1. /\ UNCHANGED mapc /\ fb' = fb \ {got[t].buf} /\ heap' = heap \ {got[t].buf}
          /\ pc[t] = "unfb" /\ pc' = [pc EXCEPT ![t] = "idle"] /\ got' = [got EXCEPT ![t] = Nothing]
      BY <1>12, <2>1 DEF FallbackFree, Goto, Hold, At
    <3>2. InTransit' = InTransit
      BY <3>1, <1>a DEF TypeOK
    <3>3. Lost' = Lost
      BY <2>1, <3>1, <3>2 DEF Lost, Cached
    <3> QED BY <3>3 DEF LostStep
  <2>2. CASE got[t].buf \notin fb
    BY <1>12, <1>b, <2>2 DEF FallbackFree, Goto, At, TypeOK
  <2> QED BY <2>1, <2>2
<1>13. ASSUME NEW t \in Threads, ArenaFree(t) PROVE LostStep
  BY <1>13, <1>b DEF ArenaFree, Goto, Hold, At, TypeOK
<1>14. CASE UNCHANGED vars
  BY <1>14, <1>b DEF vars
<1> QED BY <1>1, <1>2, <1>3, <1>4, <1>5, <1>6, <1>7, <1>8, <1>9, <1>10, <1>11, <1>12, <1>13, <1>14
        DEF Next, MmapStep, MunmapStep

\* A newlib block is lost only when g_fb or the file-map cache is full at that
\* step (libc_shim.c:1159, 1206), and what is lost stays lost.
THEOREM LossesAreAtLimit == Spec => LostOnlyAtLimit
<1>1. IInv /\ IInv' /\ [Next]_vars => LostStep
  BY LostKept
<1>2. IInv /\ IInv' /\ [Next]_vars =>
        [Lost \subseteq Lost' /\
           (Lost' # Lost => Cardinality(mapc) = MapcMax \/ Cardinality(fb) = FbMax)]_vars
  BY <1>1 DEF LostStep
<1> QED BY <1>2, InvAlways, PTL DEF Spec, LostOnlyAtLimit

=============================================================================
