------------------------------ MODULE BootMemory ------------------------------
(* main.c before the loader: __libnx_initheap cuts the process heap into the  *)
(* newlib heap, the zone of the game's modules and the mmap arena; main then  *)
(* looks for a hole in the stack region for the overcommit window, reserves   *)
(* it, takes the commit pool from the newlib heap and arms the arena.         *)
EXTENDS Integers, FiniteSets

CONSTANTS
  Addrs, Sizes,   \* where the kernel may put the heap, and how big it may be
  Page,           \* 0x1000
  Align,          \* MMAP_ARENA_ALIGN
  SoRegion,       \* SO_REGION_BYTES
  Floor,          \* newlib_floor
  Extra,          \* what must be left besides for an arena: 256 MB
  Reserve,        \* MMAP_ARENA_RESERVE
  Want,           \* OC_WINDOW_BYTES
  Pool,           \* OC_POOL_BYTES
  Top,            \* the addresses 0..Top around the stack region,
  StackFirst, StackEnd,   \*   and where the region is
  Mappings        \* what may be mapped there at boot: sets of addresses

BootAssumption ==
  /\ Page \in Nat \ {0} /\ Align \in Nat \ {0} /\ Align % Page = 0
  /\ \A n \in {SoRegion, Floor, Extra, Reserve, Want, Pool} : n \in Nat /\ n % Page = 0
  /\ Reserve % Align = 0 /\ Want % Align = 0
  /\ \A a \in Addrs : a \in Nat /\ a % Page = 0
  /\ \A s \in Sizes : s \in Nat /\ s % (2 * Page) = 0
  /\ StackFirst \in 1..StackEnd /\ StackEnd \in Nat /\ Top \in Nat /\ StackEnd <= Top

VARIABLES
  pc,       \* where main is
  heap,     \* the process heap and how it was cut
  mapped,   \* the addresses that are mapped
  scan,     \* oc_find_stack_window: a, best_a, best_l
  win,      \* the window it returns: base and size, size 0 if none
  reserved, \* the virtmem reservation, as a set of addresses
  pool,     \* where the commit pool is, 0 if there is none
  armed     \* oc_arena_init returned 1

vars == <<pc, heap, mapped, scan, win, reserved, pool, armed>>

NoWindow == [base |-> 0, size |-> 0]

Init ==
  /\ pc = "heap"
  /\ heap = [addr |-> 0, size |-> 0, fake |-> 0, so |-> 0, zone |-> 0, arena |-> 0, bytes |-> 0]
  /\ mapped \in Mappings
  /\ scan = [a |-> StackFirst, base |-> 0, len |-> 0]
  /\ win = NoWindow /\ reserved = {} /\ pool = 0 /\ armed = FALSE

-----------------------------------------------------------------------------
Lower(m, n) == IF m < n THEN m ELSE n
Down(x, a) == x - (x % a)                  \* x & ~(a - 1)
Up(x, a) == Down(x + a - 1, a)             \* ALIGN_MEM

SoZone(size) == Lower(SoRegion, size \div 2)

(* There is an arena when the zone, its alignment and a newlib heap of the   *)
(* least size leave enough; it takes no more than what they leave, than 30%  *)
(* of the heap, and than its cap.                                            *)
Roomy(size) == size > SoZone(size) + Align + Floor + Extra
Capped(size) == Down(((size - SoZone(size) - Align) * 30) \div 100, Align)
ArenaBytes(size) ==
  IF Roomy(size)
  THEN Lower(Lower(Reserve, Down(size - SoZone(size) - Align - Floor, Align)), Capped(size))
  ELSE 0
FakeHeapUnaligned(size) ==           \* mutant: no room to align the arena
  IF Roomy(size) THEN size - SoZone(size) - ArenaBytes(size)
  ELSE IF size > SoZone(size) THEN size - SoZone(size)
  ELSE size \div 2
FakeHeap(size) ==
  IF Roomy(size) THEN size - SoZone(size) - ArenaBytes(size) - Align
  ELSE IF size > SoZone(size) THEN size - SoZone(size)
  ELSE size \div 2

SoBase(addr, size) == Up(addr + FakeHeap(size), Page)
ArenaBase(addr, size) == Up(SoBase(addr, size) + SoZone(size), Align)

InitHeap ==
  /\ pc = "heap"
  /\ \E addr \in Addrs, size \in Sizes :
       heap' = [addr |-> addr, size |-> size, fake |-> FakeHeap(size),
                so |-> SoBase(addr, size), zone |-> SoZone(size),
                arena |-> IF ArenaBytes(size) = 0 THEN 0 ELSE ArenaBase(addr, size),
                bytes |-> ArenaBytes(size)]
  /\ pc' = "scan"
  /\ UNCHANGED <<mapped, scan, win, reserved, pool, armed>>

-----------------------------------------------------------------------------
(* oc_find_stack_window.  svcQueryMemory reports a hole whole, also outside  *)
(* of the region, and mapped memory in pieces of one kind.                   *)
SameKind(p, q) == \A x, y \in p..q : (x \in mapped) = (y \in mapped)
Spans(a) == { s \in (0..a) \X (a..Top) :
                /\ SameKind(s[1], s[2])
                /\ a \in mapped \/ /\ s[1] = 0 \/ (s[1] - 1) \in mapped
                                   /\ s[2] = Top \/ (s[2] + 1) \in mapped }

HoleFirst(s) == IF s[1] < StackFirst THEN StackFirst ELSE s[1]
HoleEnd(s) == Lower(s[2] + 1, StackEnd)
Longest(s) ==
  IF s[1] \notin mapped /\ HoleEnd(s) - HoleFirst(s) > scan.len
  THEN [a |-> s[2] + 1, base |-> HoleFirst(s), len |-> HoleEnd(s) - HoleFirst(s)]
  ELSE [scan EXCEPT !.a = s[2] + 1]

QuerySpan ==
  /\ pc = "scan" /\ scan.a < StackEnd
  /\ \E s \in Spans(scan.a) : scan' = Longest(s)
  /\ UNCHANGED <<pc, heap, mapped, win, reserved, pool, armed>>

(* The scan ends at the end of the region, or when a query fails.            *)
Window ==
  LET first == Up(scan.base, Align)
      avail == Down(scan.base + scan.len - first, Align)
  IN IF scan.base = 0 \/ first >= scan.base + scan.len \/ avail = 0 THEN NoWindow
     ELSE [base |-> first, size |-> Lower(avail, Want)]
EndScan ==
  /\ pc = "scan"
  /\ win' = Window
  /\ pc' = "arm"
  /\ UNCHANGED <<heap, mapped, scan, reserved, pool, armed>>

-----------------------------------------------------------------------------
(* main: reserve the window, allocate the pool, oc_arena_init.               *)
Range(w) == w.base..(w.base + w.size - 1)
PoolFits(at) == heap.addr <= at /\ at + Pool <= heap.addr + heap.fake

ReserveWindow ==
  /\ pc = "arm" /\ win.size > 0
  /\ \/ reserved' = Range(win) /\ pc' = "pool"
     \/ UNCHANGED reserved /\ pc' = "booted"         \* no reservation
  /\ UNCHANGED <<heap, mapped, scan, win, pool, armed>>
NoHole ==
  /\ pc = "arm" /\ win.size = 0
  /\ pc' = "booted"
  /\ UNCHANGED <<heap, mapped, scan, win, reserved, pool, armed>>
MakePool ==
  /\ pc = "pool"
  /\ \/ \E at \in {Up(heap.addr, Page), heap.addr + heap.fake - Pool} :
          PoolFits(at) /\ pool' = at
     \/ UNCHANGED pool
  /\ pc' = "init"
  /\ UNCHANGED <<heap, mapped, scan, win, reserved, armed>>
ArenaInit ==
  /\ pc = "init"
  /\ armed' \in IF pool = 0 THEN {FALSE} ELSE BOOLEAN   \* its bitmaps may fail too
  /\ pc' = "booted"
  /\ UNCHANGED <<heap, mapped, scan, win, reserved, pool>>

Next == \/ InitHeap \/ QuerySpan \/ EndScan \/ ReserveWindow \/ NoHole
        \/ MakePool \/ ArenaInit

Spec == Init /\ [][Next]_vars

-----------------------------------------------------------------------------
TypeOK ==
  /\ pc \in {"heap", "scan", "arm", "pool", "init", "booted"}
  /\ scan.len \in 0..(StackEnd - StackFirst) /\ armed \in BOOLEAN

(* The newlib heap, the module zone and the arena follow each other without  *)
(* overlap inside the memory the kernel gave, whatever its size; an arena is *)
(* aligned to the engine's regions, and newlib keeps at least its floor and  *)
(* more than the arena gets.                                                 *)
CutSound(h) ==
  /\ h.addr + h.fake <= h.so
  /\ h.so + h.zone <= h.addr + h.size
  /\ h.bytes > 0 => /\ h.so + h.zone <= h.arena
                    /\ h.arena + h.bytes <= h.addr + h.size
                    /\ h.arena % Align = 0 /\ h.bytes % Align = 0
                    /\ h.fake >= Floor /\ h.fake > h.bytes

(* An armed window is whole aligned slots, as the arena assumes, inside the  *)
(* stack region, was not mapped when it was found and is reserved; its pool  *)
(* lies in the newlib heap.                                                  *)
WindowSound ==
  armed =>
    /\ win.size > 0 /\ win.base % Align = 0 /\ win.size % Align = 0 /\ win.size <= Want
    /\ Range(win) \subseteq StackFirst..(StackEnd - 1)
    /\ Range(win) \cap mapped = {} /\ reserved = Range(win)
    /\ PoolFits(pool)

MemoryLaidOut == (pc # "heap" => CutSound(heap)) /\ WindowSound
=============================================================================
