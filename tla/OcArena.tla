------------------------------- MODULE OcArena -------------------------------
(***************************************************************************)
(* The stack-region overcommit (OC) arena of source/libc_shim.c: a window  *)
(* of address space out of which mmap_fake serves the engine's big         *)
(* anonymous PROT_NONE reservations, and a heap pool of physical pages     *)
(* that mprotect_fake aliases into the window (svcMapMemory) when the      *)
(* engine commits part of a reservation.                                   *)
(*                                                                         *)
(* Pages are numbered from the start of the window.  Three parties act on  *)
(* it: the shim, under g_mmap_lock; the engine, which reserves, trims,     *)
(* commits and unmaps; and libnx, which may map a thread stack inside the  *)
(* window at any time.                                                     *)
(***************************************************************************)
EXTENDS Integers, FiniteSets

CONSTANTS
  Pages,        \* oc_pages: pages of the window
  Step,         \* MMAP_BIG_ALIGN / MMAP_PAGE: pages of one aligned slot
  PoolPages,    \* oc_pool_pages: physical pages that back the window
  EngineAlign,  \* region granularity of the libunity that is loaded
  Blocks,       \* sizes, in pages, of the blocks the engine wants to keep
  Ids,          \* names for the engine's live reservations
  StackPages,   \* pages of one thread stack
  StackLimit    \* bound: window pages under thread stacks at a time

\* oc_find_stack_window rounds the window to whole slots; Unity's blocks are
\* whole regions; MMAP_ARENA_ALIGN "must match Unity's region granularity".
ASSUME WindowAssumption == /\ Pages \in Nat \ {0}
                           /\ Step \in Nat /\ Step > 1
                           /\ Pages % Step = 0
                           /\ PoolPages \in Nat \ {0}
                           /\ StackPages \in Nat \ {0} /\ StackLimit \in Nat
ASSUME EngineAssumption == /\ EngineAlign \in Nat \ {0} /\ Ids # {}
                           /\ \A b \in Blocks : /\ b \in Nat \ {0}
                                                /\ b % Step = 0

VARIABLES
  used,       \* oc_used: pages reserved, as a set
  committed,  \* oc_committed: pages the shim believes are backed
  bump,       \* oc_pool_bump: next pool page to hand out
  alias,      \* the kernel's view: the pool page behind each window page
  foreign,    \* the kernel's view: pages under a thread stack
  scan,       \* the reservation in progress, g_mmap_lock being held
  base,       \* engine: first page of each live reservation
  block,      \* engine: size of the block it keeps of that reservation
  owned       \* engine: the window pages it has been given and not unmapped

vars == <<used, committed, bump, alias, foreign, scan, base, block, owned>>

Page    == 0 .. (Pages - 1)
NoAlias == -1
NoBase  == -1

\* The engine over-maps, so that an aligned block fits wherever the map lands.
Need(b) == b + EngineAlign - 1
\* Pages the shim expects the engine to keep of an over-map of n pages.
Kept(n) == IF n > Step THEN n - Step ELSE n

Idle     == [pass |-> 0, slot |-> 0, need |-> 0, id |-> CHOOSE i \in Ids : TRUE]
LockFree == scan.pass = 0
Mapped   == foreign \cup committed

TypeOK ==
  /\ used \subseteq Page
  /\ committed \subseteq Page
  /\ bump \in 0 .. PoolPages
  /\ alias \in [Page -> NoAlias .. (PoolPages - 1)]
  /\ foreign \subseteq Page
  /\ scan \in [pass : 0 .. 2, slot : Nat, need : Nat, id : Ids]
  /\ base \in [Ids -> NoBase .. (Pages - 1)]
  /\ block \in [Ids -> Blocks \cup {0}]
  /\ owned \in [Ids -> SUBSET Page]

Init ==
  /\ used = {} /\ committed = {} /\ bump = 0
  /\ alias = [p \in Page |-> NoAlias]
  /\ foreign = {}
  /\ scan = Idle
  /\ base = [i \in Ids |-> NoBase]
  /\ block = [i \in Ids |-> 0]
  /\ owned = [i \in Ids |-> {}]

-----------------------------------------------------------------------------
(* mmap of a big anonymous PROT_NONE range: one aligned slot per step.     *)

\* mmap_fake takes g_mmap_lock and starts the scan.
Mmap(i, b) ==
  /\ LockFree /\ base[i] = NoBase
  /\ scan' = [pass |-> 1, slot |-> 0, need |-> Need(b), id |-> i]
  /\ block' = [block EXCEPT ![i] = b]
  /\ UNCHANGED <<used, committed, bump, alias, foreign, base, owned>>

\* svcQueryMemory reports whole spans: the mapped pages that touch range r.
MappedSpans(r) ==
  {q \in Page : \E m \in {foreign, committed} : \E p \in r \cap m :
                  (p .. q) \cup (q .. p) \subseteq m}

RestartScan == scan' = [scan EXCEPT !.slot = 0]   \* mutant of NextSlot

NextSlot == scan' = [scan EXCEPT !.slot = @ + Step]

Occupied(r) == r \cap used # {} /\ NextSlot /\ UNCHANGED <<used, base, owned>>

\* oc_range_occupied: a stack landed here; mark it so that scans route around.
RouteAround(r) ==
  /\ r \cap used = {} /\ r \cap Mapped # {}
  /\ used' = used \cup MappedSpans(r)
  /\ NextSlot
  /\ UNCHANGED <<base, owned>>

GrantFirstFree(r) ==   \* mutant of Grant: only the first page is looked at
  /\ scan.slot \notin used /\ r \cap Mapped = {}
  /\ used' = used \cup r
  /\ base' = [base EXCEPT ![scan.id] = scan.slot]
  /\ owned' = [owned EXCEPT ![scan.id] = r]
  /\ scan' = Idle

Grant(r) ==
  /\ r \cap used = {} /\ r \cap Mapped = {}
  /\ used' = used \cup r
  /\ base' = [base EXCEPT ![scan.id] = scan.slot]
  /\ owned' = [owned EXCEPT ![scan.id] = r]
  /\ scan' = Idle

Visit(r) ==
  /\ Occupied(r) \/ RouteAround(r) \/ Grant(r)
  /\ UNCHANGED <<committed, bump, alias, foreign, block>>

\* Pass 1: the whole over-map fits in the window.
ProbeFull ==
  /\ scan.pass = 1 /\ scan.slot + scan.need <= Pages
  /\ Visit(scan.slot .. (scan.slot + scan.need - 1))

EndFull ==
  /\ scan.pass = 1 /\ scan.slot + scan.need > Pages
  /\ scan' = [pass |-> 2, slot |-> 0, need |-> scan.need, id |-> scan.id]
  /\ UNCHANGED <<used, committed, bump, alias, foreign, base, block, owned>>

\* The slots pass 2 passes over: pass 1's, and those too short for the block.
TailNotFit(s, n) == s + n <= Pages   \* mutant of TailSkipped: no "avail < kept"

TailSkipped(s, n) == s + n <= Pages \/ Pages - s < Kept(n)

SkipTail ==
  /\ scan.pass = 2 /\ scan.slot < Pages /\ TailSkipped(scan.slot, scan.need)
  /\ NextSlot
  /\ UNCHANGED <<used, committed, bump, alias, foreign, base, block, owned>>

\* Pass 2: the over-map spills past the window; reserve only what is inside.
ProbeTail ==
  /\ scan.pass = 2 /\ scan.slot < Pages /\ ~ TailSkipped(scan.slot, scan.need)
  /\ Visit(scan.slot .. (Pages - 1))

\* The window is full: mmap_fake falls through to the heap-backed arena.
WindowFull ==
  /\ scan.pass = 2 /\ scan.slot >= Pages
  /\ scan' = Idle
  /\ UNCHANGED <<used, committed, bump, alias, foreign, base, block, owned>>

-----------------------------------------------------------------------------
(* mprotect and munmap of a range of n pages from page f, which the engine *)
(* owns as far as the window goes.                                         *)

RangeEnd(f, n) == IF f + n > Pages THEN Pages ELSE f + n

EngineRange(i, f, n) == f .. (RangeEnd(f, n) - 1) \subseteq owned[i]

\* The uncommitted run that starts at page s and ends before page e.
RunFrom(s, e) == {p \in s .. (e - 1) : (s .. p) \cap committed = {}}

FreshAll(f, stop) == f .. (stop - 1)   \* mutant of Fresh: backed pages not skipped

\* The pages from f up to stop that the commit loop has just backed.
Fresh(f, stop) == (f .. (stop - 1)) \ committed

\* The loop of oc_commit_locked over [f, e) ends at page stop: at the end, or
\* at a run that the pool cannot hold or that svcMapMemory refuses.
StopsAt(f, e, stop) ==
  \/ stop = e
  \/ /\ stop \notin committed
     /\ stop = f \/ (stop - 1) \in committed
     /\ \/ bump + Cardinality(Fresh(f, stop)) + Cardinality(RunFrom(stop, e)) > PoolPages
        \/ RunFrom(stop, e) \cap foreign # {}

\* Pool pages are handed out in the order of the window pages.
Aliased(new) ==
  [p \in Page |-> IF p \in new THEN bump + Cardinality({q \in new : q < p}) ELSE alias[p]]

BackOverdrawn(new) ==   \* mutant of Back: the pool's end is not checked
  /\ new \cap foreign = {}
  /\ committed' = committed \cup new
  /\ alias' = Aliased(new)
  /\ bump' = bump + Cardinality(new)

BackOneTooMany(new) ==   \* mutant of Back: off by one in the bump pointer
  /\ bump + Cardinality(new) < PoolPages /\ new \cap foreign = {}
  /\ committed' = committed \cup new
  /\ alias' = Aliased(new)
  /\ bump' = bump + Cardinality(new) + 1

\* svcMapMemory of the runs that make up new, which takes the next pool pages.
Back(new) ==
  /\ bump + Cardinality(new) <= PoolPages /\ new \cap foreign = {}
  /\ committed' = committed \cup new
  /\ alias' = Aliased(new)
  /\ bump' = bump + Cardinality(new)

\* mprotect_fake, any protection but PROT_NONE, which it ignores here.
Mprotect(i, f, n) ==
  /\ LockFree /\ EngineRange(i, f, n)
  /\ \E stop \in f .. RangeEnd(f, n) :
       StopsAt(f, RangeEnd(f, n), stop) /\ Back(Fresh(f, stop))
  /\ UNCHANGED <<used, foreign, scan, base, block, owned>>

MunmapAll(i, f, n) ==   \* mutant of Munmap: committed pages are given back too
  /\ LockFree /\ EngineRange(i, f, n)
  /\ LET gone == f .. (RangeEnd(f, n) - 1) IN
     /\ used' = used \ gone
     /\ owned' = [owned EXCEPT ![i] = @ \ gone]
  /\ base' = [base EXCEPT ![i] = IF owned'[i] = {} THEN NoBase ELSE @]
  /\ UNCHANGED <<committed, bump, alias, foreign, scan, block>>

\* munmap_fake: committed pages stay reserved, the others may be reused.
Munmap(i, f, n) ==
  /\ LockFree /\ EngineRange(i, f, n)
  /\ LET gone == f .. (RangeEnd(f, n) - 1) IN
     /\ used' = used \ (gone \ committed)
     /\ owned' = [owned EXCEPT ![i] = @ \ gone]
  /\ base' = [base EXCEPT ![i] = IF owned'[i] = {} THEN NoBase ELSE @]
  /\ UNCHANGED <<committed, bump, alias, foreign, scan, block>>

-----------------------------------------------------------------------------
(* libnx maps and unmaps thread stacks where the window is not mapped.     *)

StackMapped(r) ==
  /\ r \cap Mapped = {} /\ Cardinality(foreign \cup r) <= StackLimit
  /\ foreign' = foreign \cup r
  /\ UNCHANGED <<used, committed, bump, alias, scan, base, block, owned>>

StackUnmapped(r) ==
  /\ r \subseteq foreign
  /\ foreign' = foreign \ r
  /\ UNCHANGED <<used, committed, bump, alias, scan, base, block, owned>>

Stack(f) == f .. (f + StackPages - 1)

Scanning == ProbeFull \/ EndFull \/ SkipTail \/ ProbeTail \/ WindowFull

Next ==
  \/ \E i \in Ids, b \in Blocks : Mmap(i, b)
  \/ Scanning
  \/ \E i \in Ids, f \in Page, n \in 1 .. (Pages + EngineAlign) :
       Mprotect(i, f, n) \/ Munmap(i, f, n)
  \/ \E f \in Page : Stack(f) \subseteq Page /\ (StackMapped(Stack(f)) \/ StackUnmapped(Stack(f)))

Spec == Init /\ [][Next]_vars

\* The scan is a bounded loop under the lock: it runs to its end.
FairSpec == Spec /\ WF_vars(Scanning)

-----------------------------------------------------------------------------
(* What the arena promises.                                                *)

\* No reservation is handed out over another: whatever the engine still owns
\* is marked reserved, and no page has two owners (libc_shim.c:742-744, the
\* "reused out from under the engine" crash the arenas were written against).
ReservationsDisjoint ==
  /\ \A i \in Ids : owned[i] \subseteq used
  /\ \A i, j \in Ids : i # j => owned[i] \cap owned[j] = {}

\* The shim's commit bitmap is the kernel's mapping, each window page has a
\* pool page of its own below the bump pointer, none lies under a thread
\* stack, and none can be reserved again (libc_shim.c:1013-1015).
CommitConsistent ==
  /\ committed = {p \in Page : alias[p] # NoAlias}
  /\ \A p \in committed : alias[p] < bump
  /\ \A p, q \in committed : alias[p] = alias[q] => p = q
  /\ committed \subseteq used
  /\ committed \cap foreign = {}

\* The aligned block the engine keeps of an over-map lies in the window
\* (libc_shim.c:1062-1063: "the kept block lives there").
AlignUp(p, a) == ((p + a - 1) \div a) * a
KeptBlockInside ==
  \A i \in Ids : base[i] # NoBase => AlignUp(base[i], EngineAlign) + block[i] <= Pages

\* No pool page is lost: the bump pointer counts exactly the pages behind the
\* window, also when a commit stops half way (libc_shim.c:979-1011).
PoolExact == bump = Cardinality(committed)

\* libc_shim.c, oc_committed and oc_pool_bump: the pages believed committed are
\* those backed by a pool page of their own, and the pool has been handed out
\* exactly as far as they are many.
BackingExact == CommitConsistent /\ PoolExact

\* Seen from the engine the window is a page allocator: a reservation starts
\* unbacked and is nobody else's, a page once backed keeps its pool page for
\* ever, also across munmap, and no two pages share one.
Allocator == INSTANCE PageAllocator WITH backing <- alias
ImplementsAllocator == Allocator!Spec

\* A scan under g_mmap_lock always ends and releases it.
ScanEnds == ~ LockFree ~> LockFree

=============================================================================
