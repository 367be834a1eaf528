------------------------------ MODULE MmapShim ------------------------------
(***************************************************************************)
(* mmap_fake and munmap_fake of source/libc_shim.c behind the stack-region *)
(* window: the heap-backed arena under g_mmap_lock, the newlib fallback    *)
(* with its g_fb table, and the cache of read-only file maps, both under   *)
(* g_fb_lock.  Engine threads call at any time and every stretch of code   *)
(* between two locks is one step.                                          *)
(*                                                                         *)
(* The code for alias-region commits is dead (overcommit_setup in main.c   *)
(* returns 0 on every path) and is left out.                               *)
(***************************************************************************)
EXTENDS Integers, FiniteSets, FiniteSetsExt

CONSTANTS
  ArenaPages,   \* mmap_pages
  Step,         \* MMAP_BIG_ALIGN / MMAP_PAGE
  Thresh,       \* MMAP_BIG_THRESH / MMAP_PAGE
  Requests,     \* [need, keep, file, key] of the maps the engine makes
  Keys,         \* (inode, offset, length) of the files mapped read-only
  NoKey,        \* no inode or a writable map: never cached
  FbMax,        \* MMAP_FALLBACK_MAX
  MapcMax,      \* MAPC_N
  Buffers,      \* newlib blocks that memalign can return
  NoBuf,
  Threads,
  MaxMaps       \* bound: mappings the engine holds at a time

ASSUME ArenaAssumption == /\ ArenaPages \in Nat \ {0}
                          /\ Step \in Nat \ {0} /\ Thresh \in Nat
                          /\ FbMax \in Nat /\ MapcMax \in Nat
\* need: pages asked for; keep: pages left when the engine has trimmed.
ASSUME RequestAssumption ==
  \A r \in Requests : /\ r.need \in Nat \ {0} /\ r.keep \in 1 .. r.need
                      /\ r.key \in Keys \cup {NoKey}
                      /\ r.file \in BOOLEAN /\ (r.key # NoKey => r.file)
\* Finitely many threads that have something to ask for.
ASSUME EngineAssumption == /\ IsFiniteSet(Threads) /\ Requests # {}
                           /\ MaxMaps \in Nat /\ NoBuf \notin Buffers

VARIABLES
  used,    \* mmap_used: the reserved pages of the arena
  lock,    \* owner of g_mmap_lock across steps, or NoThread
  fb,      \* g_fb: the fallback buffers that munmap would free
  mapc,    \* g_mapc: set of [key, buf]
  heap,    \* newlib: the buffers that are allocated
  maps,    \* engine: its mappings, [pages, over, buf]; over is still to trim
  pc,      \* where each thread is in mmap_fake or munmap_fake
  req,     \* the request each thread works on
  got      \* the memory each thread holds on the way in or out

vars == <<used, lock, fb, mapc, heap, maps, pc, req, got>>

NoThread == "none"
Page     == 0 .. (ArenaPages - 1)
MapIds   == 1 .. MaxMaps
Nothing  == [pages |-> {}, over |-> {}, buf |-> NoBuf]
NoRequest == CHOOSE r \in Requests : TRUE
Cached   == {e.buf : e \in mapc}
MmapPC   == {"arena", "short", "selfLock", "cache", "memalign", "track", "put", "return"}
UnmapPC  == {"unfb", "unarena"}

Init ==
  /\ used = {} /\ lock = NoThread
  /\ fb = {} /\ mapc = {} /\ heap = {}
  /\ maps = [m \in MapIds |-> Nothing]
  /\ pc = [t \in Threads |-> "idle"]
  /\ req = [t \in Threads |-> NoRequest]
  /\ got = [t \in Threads |-> Nothing]

At(t, l)     == pc[t] = l
Goto(t, l)   == pc' = [pc EXCEPT ![t] = l]
Hold(t, m)   == got' = [got EXCEPT ![t] = m]
LockFree     == lock = NoThread
Free         == {m \in MapIds : maps[m] = Nothing}
InMmap       == {t \in Threads : pc[t] \in MmapPC}

-----------------------------------------------------------------------------
(* mmap_fake                                                               *)

\* The engine may call when a place for the result is left (bound MaxMaps).
MmapCall(t, r) ==
  /\ At(t, "idle") /\ Cardinality(Free) > Cardinality(InMmap)
  /\ Goto(t, "arena") /\ req' = [req EXCEPT ![t] = r]
  /\ UNCHANGED <<used, lock, fb, mapc, heap, maps, got>>

\* Big requests start at a slot; small ones anywhere.
Starts(need) == IF need >= Thresh THEN {i \in Page : i % Step = 0} ELSE Page
Kept(need)   == IF need > Step THEN need - Step ELSE need

\* First pages where all of need fits, and where only the tail slot is left.
Fits(need) == {i \in Starts(need) : /\ i + need <= ArenaPages
                                    /\ (i .. (i + need - 1)) \cap used = {}}
FitsTail(need) == {i \in Starts(need) : /\ need >= Thresh /\ i + need > ArenaPages
                                        /\ ArenaPages - i >= Kept(need)
                                        /\ (i .. (ArenaPages - 1)) \cap used = {}}

ReservedUnclipped(need) ==   \* mutant of Reserved: the tail is not clipped
  IF Fits(need) # {} THEN LET i == Min(Fits(need)) IN i .. (i + need - 1)
  ELSE IF FitsTail(need) # {} THEN LET i == Min(FitsTail(need)) IN i .. (i + need - 1)
  ELSE {}

\* mmap_arena_alloc_locked: the lowest fit, else the lowest tail, else none.
Reserved(need) ==
  IF Fits(need) # {} THEN LET i == Min(Fits(need)) IN i .. (i + need - 1)
  ELSE IF FitsTail(need) # {} THEN Min(FitsTail(need)) .. (ArenaPages - 1)
  ELSE {}

\* The pages of a reservation that the engine trims once it is aligned.
Over(p, r) == {x \in p : x >= Min(p) + r.keep}

ArenaAlloc(t) ==
  /\ At(t, "arena") /\ LockFree
  /\ LET r == req[t]
         p == Reserved(r.need) IN
     /\ used' = used \cup p
     /\ IF p = {} THEN Goto(t, IF r.key # NoKey THEN "cache" ELSE "memalign") /\ UNCHANGED got
        ELSE /\ Hold(t, [pages |-> p, over |-> Over(p, r), buf |-> NoBuf])
             /\ Goto(t, IF r.file /\ Cardinality(p) < r.need THEN "short" ELSE "return")
  /\ UNCHANGED <<lock, fb, mapc, heap, maps, req>>

\* A short-reserved file map: mmap_fake takes g_mmap_lock to give the pages
\* back, and mmap_arena_free takes it again.  A libnx Mutex is not recursive:
\* the thread waits for itself in "selfLock", where no step is left to it.
LockForGiveBack(t) ==
  /\ At(t, "short") /\ LockFree
  /\ lock' = t /\ Goto(t, "selfLock")
  /\ UNCHANGED <<used, fb, mapc, heap, maps, req, got>>

MapcacheGet(t) ==
  /\ At(t, "cache")
  /\ \/ \E e \in mapc : /\ e.key = req[t].key
                        /\ Hold(t, [Nothing EXCEPT !.buf = e.buf]) /\ Goto(t, "return")
     \/ /\ \A e \in mapc : e.key # req[t].key
        /\ Goto(t, "memalign") /\ UNCHANGED got
  /\ UNCHANGED <<used, lock, fb, mapc, heap, maps, req>>

\* memalign returns a block nobody has, and the file is read into it.
Memalign(t) ==
  /\ At(t, "memalign")
  /\ \E b \in Buffers \ heap : /\ heap' = heap \cup {b}
                               /\ Hold(t, [Nothing EXCEPT !.buf = b])
  /\ Goto(t, "track")
  /\ UNCHANGED <<used, lock, fb, mapc, maps, req>>

MemalignRetries(t) ==   \* mutant of MemalignFails: it waits for memory instead
  /\ At(t, "memalign") /\ Buffers \subseteq heap
  /\ UNCHANGED vars

\* Out of memory: mmap_fake returns ENOMEM.
MemalignFails(t) ==
  /\ At(t, "memalign") /\ Buffers \subseteq heap
  /\ Goto(t, "idle") /\ req' = [req EXCEPT ![t] = NoRequest]
  /\ UNCHANGED <<used, lock, fb, mapc, heap, maps, got>>

TrackOneShort(t) ==   \* mutant of Track: the last entry of g_fb is not used
  /\ At(t, "track")
  /\ fb' = IF Cardinality(fb) < FbMax - 1 THEN fb \cup {got[t].buf} ELSE fb
  /\ Goto(t, IF req[t].key # NoKey THEN "put" ELSE "return")
  /\ UNCHANGED <<used, lock, mapc, heap, maps, req, got>>

Track(t) ==
  /\ At(t, "track")
  /\ fb' = IF Cardinality(fb) < FbMax THEN fb \cup {got[t].buf} ELSE fb
  /\ Goto(t, IF req[t].key # NoKey THEN "put" ELSE "return")
  /\ UNCHANGED <<used, lock, mapc, heap, maps, req, got>>

MapcachePutUnpinned(t) ==   \* mutant of MapcachePut: the buffer stays in g_fb
  /\ At(t, "put")
  /\ mapc' = IF Cardinality(mapc) < MapcMax
               THEN mapc \cup {[key |-> req[t].key, buf |-> got[t].buf]} ELSE mapc
  /\ Goto(t, "return")
  /\ UNCHANGED <<used, lock, fb, heap, maps, req, got>>

MapcachePut(t) ==
  /\ At(t, "put")
  /\ fb' = fb \ {got[t].buf}
  /\ mapc' = IF Cardinality(mapc) < MapcMax
               THEN mapc \cup {[key |-> req[t].key, buf |-> got[t].buf]} ELSE mapc
  /\ Goto(t, "return")
  /\ UNCHANGED <<used, lock, heap, maps, req, got>>

Return(t) ==
  /\ At(t, "return")
  /\ maps' = [maps EXCEPT ![Min(Free)] = got[t]]
  /\ Hold(t, Nothing) /\ Goto(t, "idle") /\ req' = [req EXCEPT ![t] = NoRequest]
  /\ UNCHANGED <<used, lock, fb, mapc, heap>>

-----------------------------------------------------------------------------
(* munmap_fake                                                             *)

\* The engine gives a mapping back ...
MunmapCall(t, m) ==
  /\ At(t, "idle") /\ maps[m] # Nothing
  /\ Hold(t, [maps[m] EXCEPT !.over = {}]) /\ maps' = [maps EXCEPT ![m] = Nothing]
  /\ Goto(t, "unfb")
  /\ UNCHANGED <<used, lock, fb, mapc, heap, req>>

\* ... or trims an over-map to its aligned block.  In a fallback buffer the
\* trimmed address is in neither table, and the call does nothing.
TrimCall(t, m) ==
  /\ At(t, "idle") /\ maps[m].over # {}
  /\ Hold(t, [Nothing EXCEPT !.pages = maps[m].over])
  /\ maps' = [maps EXCEPT ![m].pages = @ \ maps[m].over, ![m].over = {}]
  /\ Goto(t, "unfb")
  /\ UNCHANGED <<used, lock, fb, mapc, heap, req>>

\* mmap_fallback_free: a tracked buffer is freed; anything else goes on.
FallbackFree(t) ==
  /\ At(t, "unfb")
  /\ IF got[t].buf \in fb
       THEN /\ fb' = fb \ {got[t].buf} /\ heap' = heap \ {got[t].buf}
            /\ Hold(t, Nothing) /\ Goto(t, "idle")
       ELSE Goto(t, "unarena") /\ UNCHANGED <<fb, heap, got>>
  /\ UNCHANGED <<used, lock, mapc, maps, req>>

ArenaFreeOneMore(t) ==   \* mutant of ArenaFree: one page too many is cleared
  /\ At(t, "unarena") /\ LockFree
  /\ used' = used \ (got[t].pages \cup {p + 1 : p \in got[t].pages})
  /\ Hold(t, Nothing) /\ Goto(t, "idle")
  /\ UNCHANGED <<lock, fb, mapc, heap, maps, req>>

\* mmap_arena_free clears exactly the pages; it ignores a pinned buffer.
ArenaFree(t) ==
  /\ At(t, "unarena") /\ LockFree
  /\ used' = used \ got[t].pages
  /\ Hold(t, Nothing) /\ Goto(t, "idle")
  /\ UNCHANGED <<lock, fb, mapc, heap, maps, req>>

-----------------------------------------------------------------------------

MmapStep(t)   == ArenaAlloc(t) \/ LockForGiveBack(t) \/ MapcacheGet(t) \/ Memalign(t)
                   \/ MemalignFails(t) \/ Track(t) \/ MapcachePut(t) \/ Return(t)
MunmapStep(t) == FallbackFree(t) \/ ArenaFree(t)

Next ==
  \E t \in Threads :
    \/ \E r \in Requests : MmapCall(t, r)
    \/ \E m \in MapIds : MunmapCall(t, m) \/ TrimCall(t, m)
    \/ MmapStep(t)
    \/ MunmapStep(t)

Spec == Init /\ [][Next]_vars

\* Threads run: a call that is not waiting for a mutex goes on.
FairSpec == Spec /\ \A t \in Threads : WF_vars(MmapStep(t)) /\ WF_vars(MunmapStep(t))

-----------------------------------------------------------------------------
(* What the shim promises.                                                 *)

TypeOK ==
  /\ used \subseteq Page /\ lock \in Threads \cup {NoThread}
  /\ fb \subseteq Buffers /\ heap \subseteq Buffers
  /\ mapc \subseteq [key : Keys, buf : Buffers]
  /\ maps \in [MapIds -> [pages : SUBSET Page, over : SUBSET Page, buf : Buffers \cup {NoBuf}]]
  /\ pc \in [Threads -> {"idle"} \cup MmapPC \cup UnmapPC]
  /\ req \in [Threads -> Requests]
  /\ got \in [Threads -> [pages : SUBSET Page, over : SUBSET Page, buf : Buffers \cup {NoBuf}]]

\* Everything held: by the engine, or by a call on its way in or out.
Held == {<<"map", m, maps[m]>> : m \in MapIds} \cup {<<"call", t, got[t]>> : t \in Threads}

\* The bitmap is exact: a page is reserved if and only if one mapping has it
\* (libc_shim.c:746, "clear exactly the pages of the sub-range").
ArenaExact ==
  /\ used = UNION {h[3].pages : h \in Held}
  /\ \A g, h \in Held : g # h => g[3].pages \cap h[3].pages = {}

\* Memory of a mapping is never freed under it, and two mappings share a
\* buffer only if it is a pinned file map (libc_shim.c:1189-1190).
BuffersSafe ==
  /\ fb \subseteq heap /\ Cached \subseteq heap \ fb
  /\ \A h \in Held : h[3].buf \in heap \cup {NoBuf}
  /\ \A g, h \in Held :
       g # h /\ g[3].buf = h[3].buf => h[3].buf \in Cached \cup {NoBuf}

\* Buffers that no munmap and no later map can reach: lost for the session.
InTransit == {got[t].buf : t \in {u \in Threads : pc[u] \in {"track", "put"}}}
Lost      == heap \ (fb \cup Cached \cup InTransit)

\* A buffer is lost, for good, only when a table is at its limit: g_fb is full
\* when it would be tracked, or the cache is full when it is pinned
\* (libc_shim.c:1159, 1206).
LostOnlyAtLimit ==
  [][Lost \subseteq Lost' /\
     (Lost' # Lost => Cardinality(mapc) = MapcMax \/ Cardinality(fb) = FbMax)]_vars

\* Every call returns, unless a thread waits for itself with g_mmap_lock held.
CallsReturn == \A t \in Threads : ~ At(t, "idle") ~> At(t, "idle") \/ ~ LockFree

\* A file map that the arena cannot hold in full is served from newlib
\* (libc_shim.c:1246): its call returns.
ShortFileMapsServed == \A t \in Threads : At(t, "short") ~> At(t, "idle")

=============================================================================
