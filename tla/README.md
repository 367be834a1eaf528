# A verification development for laytonbmr_nx

laytonbmr_nx runs the Android build of a Unity game on the Switch: it loads the
arm64 libraries of the game and answers what they import from bionic, the NDK
and Java with code of its own on top of libnx, newlib and SDL. The engine is
not ours and its threads are many, so what matters here is that the small
systems behind the imports keep their promises in every order of calls.

The modules below are TLA+ specifications of those systems, translated from
`source/`. TLC checks them on small instances; TLAPS proves the most important
properties for every value of the constants.

## The system

| Part | State | Operations | Interacts through | What is hard | Correct when | Modules |
|---|---|---|---|---|---|---|
| Overcommit arena (`libc_shim.c` 868-1024) | `oc_used`, `oc_committed`, `oc_pool_bump` | `oc_alloc_locked`, `oc_commit_locked`, `oc_free_locked` | mmap, mprotect, munmap under `g_mmap_lock`; libnx maps stacks in the window | stacks that land during a search, the short tail slot, partial commits | reservations disjoint, each backed page its own pool page | OcArena, PageAllocator |
| Heap-backed mmap (`libc_shim.c` 740-866, 1027-1330) | `mmap_used`, `g_fb`, `g_mapc` | `mmap_fake`, `munmap_fake` | several engine threads, two mutexes | the sections between the locks, full tables, a short slot for a file | nothing freed under a user, nothing lost unless a table is full, calls return | MmapShim |
| Saves (`libc_shim.c` 534-612, 1481-1560, `main.c` 438-450) | files, `g_write_fd`, `nx_sd_dirty` | open, write, close, rename, `nx_sd_flush` | game threads, render loop, HOME | a kill between any two steps, reuse of descriptors | a finished save survives, never torn, never older | SaveStore |
| PlayerPrefs (`unity_jni.c` 95-335, `unity_input_hook.c` 205-300) | `g_kv`, prefs.kv | set, delete, clear, getAll, flush, load | hooks, Java calls | escapes, replaced and removed entries, an iterator in between | what was set is read back | Prefs |
| Files and read-ahead (`libc_shim.c` 400-533, 556-611, `imports.c` 375-415) | `g_ra`, positions, inodes | open, read, pread, lseek, close | reading threads | short reads, a moved position, reused descriptors | the bytes at the caller's position, one inode per file | Files |
| Configuration (`config.c`) | config.txt | read, write again | the player's editor | retired options, a kill while writing | the file says what the process runs with | Config |
| JNI references (`jni_fake.c` 56-114, 748-800) | `locals`, `frames` | NewLocal, Delete, NewGlobal, Push, Pop | every engine thread | one table for all threads, full table | no usable reference freed, none leaked | JniRefs |
| Java surface (`jni_fake.c`, `unity_jni.c`) | pools of names, handles, screen size | calls, fields, strings, arrays, streams | engine threads, FMOD | unlocked pools, rules that overlap, numbers used again | one name one handle, one question one answer, copies inside bounds | JavaNames, JavaCalls, JavaArrays, JavaStreams, AudioProperties |
| futex (`libc_shim.c` 150-197) | a mutex and a condition per bucket | wait, wake | il2cpp's collector and thread pool | compare and sleep against a wake | no wake lost, calls return | Futex, KernelFutex |
| pthread shim (`imports.c` 95-370, `libc_shim.c` 1691-1789) | lazily made objects, keys, semaphores | lock, wait, keys, threads, pthread_kill | every engine thread, the collector | objects made at first use, capped waits, destructors that set values | exclusion, waiters return, each value destroyed once | PthreadShim, EngineThreads, GcBridge |
| Touch and pointer (`unity_input_hook.c`, `android_native_unity.c` 226-341) | slots, emulated mouse, cursor pair | one update per frame | HID in, the engine's Input out | fingers that swap in a frame, full slots, the pair | phases in order, gesture follows one finger | TouchHook |
| Pipes and loopers (`fakefd.c`, `android_native_unity.c` 114-178) | rings, sixteen loopers | read, write, close, wake, poll | engine threads | close against a blocked reader, wake against sleep | no byte lost, no wake lost | FakePipes, Loopers |
| Audio (`opensles.c`) | `g_players`, a buffer queue and `cur` per player | create, enqueue, clear, mix, destroy | engine threads and SDL's audio thread, which calls the engine back | callbacks with `g_reg_lock` held, clear against the mixer, reclaiming players | buffers complete in order and once, no freed player used, no wait in a cycle | Audio, SoundQueues |
| Boot memory (`main.c` 255-385, 640-665) | heap cut, window | `__libnx_initheap`, arena set-up | arena, loader | sizes at the floors, holes cut by alignment | zones apart, window aligned | BootMemory |
| Loader (`so_util.c`) | modules, imports, pages | load, relocate, resolve, map, initialise | boot | a full zone, names in two places, packed tables | each import is bound to what was loaded before, or poisoned, before any code runs | Loader |
| Code patches (`main.c` 453-780, `so_util.c` 654-676) | words of the game's code | compare, write through an alias, grant a purchase | boot, render loop | other versions of the game, an alias that cannot be mapped, a kill after the grant | nothing but a failed mapping leaves a patch in halves; a grant is bought and in the preferences | CodePatches |
| Render loop and clock (`main.c` 100-260, 790-930) | ticks, vsync counter | frame, limiter, clock thread | TimeManager::Update, HOME | the clock thread against the loop | time never goes back, waits end | RenderLoop |
| Window (`android_native_unity.c` 41-112, `imports.c` 548-680) | sizes, surfaces, GL state | create, crop, swap, cursor | Mesa, the engine | a crop that Mesa undoes | frames whole, one surface | Surface |
| Watchdog (`diag.c`) | thread registry | register, wait, dump | every thread | threads that end while paused | slots apart, all run again | Watchdog |
| Overlay (`saltynx.cpp`) | counters, a shared page | frame, publish, start, stop | SaltyNX | a page that is wiped, exit | honest rate, goodbye before unmapping | Overlay |

## Modules

Each specification module states its constants and their assumptions, the
actions in the order of the code, and then its properties. Definitions whose
comment says `mutant` are not part of a specification: each is one definition of
the model with a plausible slip in it, kept beside it to show that a property
notices.

### Memory

**PageAllocator** is what the overcommit arena promises, in terms the engine
sees: reservations own disjoint pages, a page may be backed once by a pool page
of its own, and a release gives pages up but never a backing.

**OcArena** is the arena. `used`, `committed` and `bump` are the arrays and the
bump pointer of the code; `alias` and `foreign` are the kernel's mappings, which
the code sees through svcQueryMemory and svcMapMemory; `base`, `block` and
`owned` record what the engine was told. A search visits one slot per step
(`ProbeFull`, `EndFull`, `SkipTail`, `ProbeTail`, `WindowFull`), so a stack can
appear between two probes; within one slot, the query and the grant are one
step, as nothing but the query separates them. A commit is one step that picks
the page at which the loop stops, which is the end or the run that failed.

**BootMemory** cuts the heap as `__libnx_initheap` does, scans the stack region
for the largest hole (one svcQueryMemory per step), reserves the window, takes
the pool and arms the arena. Addresses are small numbers in units that keep the
ratios of the constants.

**MmapShim** is the rest of mmap_fake and munmap_fake, with a program counter
per thread: the arena search under `g_mmap_lock`, the give-back of a short file
map, the cache lookup, memalign, the two sections under `g_fb_lock`, and the two
attempts of munmap. Overcommit reservations do not appear here.

### What is on the card

**SaveStore** has the file contents as the process sees them (`view`) and as
of the last commit (`card`). Game threads save through open, mark, write,
fsync, close, unmark, commit and rename; the main thread changes preferences,
flushes them and commits from the render loop; `HomeKill` restarts from the card.

**Prefs** has what is in the preferences: the typed entries in the order the
array holds them, the text of the file as a sequence of characters of which only
those that are escaped are told apart, the load that parses it, and the Java
iterator over all entries. `Fits` keeps keys and values to lines of the
buffer prefs_load reads into. A flush whose fopen fails changes nothing there; that the
next one comes is SaveStore's, where `PrefsLeft` is such a flush.

**Files** is descriptors: the path search in the game directory, directories made for files
that are written (for paths that begin at a device, at the root, as those managed_root gives
the game, or in the game directory), inode numbers, the loop of read_fake over short reads,
pread as seek, read and seek back, and the read-ahead table with its lock. `StaticFds` is
what an unused entry of `g_ra` holds: 0 as the static table has it, where nothing ever
attaches, and -1 as its comment means it, so that both are checked. File contents are their
own offsets.

**Config** boots, rewrites and is killed between the truncation and the end of the
file; players' edits are files as sequences of names and values.

### Java

**JniRefs** is the table of locals and the stack of marks, and next to it what
each thread believes it holds. With `AnyUse = FALSE` the thread deletes and
promotes only what its innermost frame holds, keeps one global reference per
object, and deletes it only when no local reference to it is left; a result of
PopLocalFrame is a local reference of that frame. That is how the engine behaves
and the discipline the table needs.

**JavaNames** is the four intern pools; `Cut` is what the field of a pool keeps of a name,
and a lookup compares the whole name with what is kept. It takes a step to look, to count
and to write, as the code has no lock for classes and ids, and `LoneIntern = TRUE` is an
engine that asks for those from one thread at a time. **JavaCalls** has the rules in their
order: `Activity` is the list of call_object, `ObjectField`, `CallInt` and `IntField` the
others; a rule takes a call when the name has one of its parts. The chain `Begin` ...
`Store` is how a preference key is made: getBytes, a new String, Uri.encode, put.
**JavaArrays** is strings as UTF-8 of UTF-16 units, the regions of a string, clamped, with
the zero that ends a UTF-8 one, and arrays, whose regions are checked as the code checks
them: one of a negative length passes, its copy runs over the memory behind the array, and
the program ends there (`RanOff`, `Restart`). **JavaStreams** is the assets and the
descriptors that share a number with their handle. **AudioProperties** is FMOD asking for
the rate and the buffer size when the shim may see the key, only the last field, or nothing.

### Threads and signals

**KernelFutex** is futex(2): blocked threads, wakers, spurious wakes. **Futex**
is futex_impl, every mutex and condition-variable operation a step. The timed
and the capped wait are one, since only their return values differ.

**PthreadShim** is a word that holds a static initialiser or the address of a
newlib object made at first use, and newlib's mutexes, conditions and rwlocks
behind it; a look at the word, the store of a new object and the work on it are
three steps. `LoneFirstUse = TRUE` is an engine that does not race on the first use.
**EngineThreads** is threads, keys, and the destructor walk over the array of a
thread that ends. **GcBridge** is the collector's stop-the-world, where
pthread_kill posts what a handler would have.

**TouchHook** is one frame per step: the HID feed builds the list of fingers with
the cursor and its pinch partner, and the hook assigns slots, phases and the
emulated mouse. Positions are numbers on a line.

**FakePipes** is descriptors, rings with reference counts and readers asleep on
the one condition; bytes carry the number under which they were written.
**Loopers** is the table of loopers found by thread handle, with handles that are
given out again.

### Sound

**SoundQueues** is what a user of OpenSL ES buffer queues counts on: buffers of
a player complete in order and once, and only a clear or a destroy takes them
away. **Audio** is the players of `opensles.c`: `slots` is `g_players`, `queue`,
`cur`, `playing` and `drained` are the fields of a player, and `at` is the slot
the audio thread is at, which it visits with `g_reg_lock` held. `mixer` follows
mix_player through the dry test, the fetch, the store into `cur` that is made
without p->lock, and the callback. The engine (FMOD, external) has a mutex of
its own, which its callback takes too. With `AnyUse = FALSE` the engine keeps
four rules that this implementation needs and OpenSL ES does not ask for: it
clears a player only when it is stopped and the mixer is not in it, it does not
hold its mutex over a create or a destroy, it forgets a player it left dry for
forty blocks, and it keeps no more players than there are slots.

### Boot and run

**Loader** loads the modules into the zone one after the other, applies the packed
relocation table entry by entry, binds imports to shims, exports and stubs or poisons
them, maps the segments in runs of equal permission, and runs the constructors last.
**CodePatches** is the plan of patches in the order of main: compare, then for each
call reserve an address, map, write, release. Reserving and mapping may fail, `MaxFails`
times in a boot, and main goes on; `failed` remembers the words. Beside it the purchase of
the shop, which the render loop buys, marks and saves: `view` is the file of the preferences
as the process sees it and `card` what is committed, so that a kill may lose the packs and
the next start buys them again.
**RenderLoop** is the main thread's frame with the hook in TimeManager::Update and
the limiter, and the clock thread; a time is kept as its age. **Surface** is the
window. **Watchdog** is the registry and the look at the paused threads; the lock of
stdio, which both take to print, is part of it. **Overlay** is the counters of the
presenting thread and every step of the publisher.

### Instances

The `MC` modules give the constants values that a configuration cannot write; sizes and
sets of model values are in the configurations, and Audio needs no module of its own. In
an `MC` module that theorems are about (MCTouchHook, MCFutex, MCJava, MCOcArena, MCStorage)
the sizes are constants with assumptions, so that what is proved is proved for every
instance. These five hold several
components side by side: the variable `part` is chosen by the first state, a step
of one part leaves the others' variables alone, and they share no state. A behaviour
is therefore exactly one of one component, the state count is the sum of theirs, and
a property such as `part = "loading" => ...` is that component's invariant. Fairness
to "a step of this part or of that" is fairness to each, since a part never changes,
and a leads-to over a disjunction of conditions that belong to different parts is the
conjunction of theirs. Composition that matters happens inside modules: SaveStore
composes saves, preferences and the render loop; Audio the engine, the mixer and the
registry; Surface the engine, Mesa and the cursor; MmapShim two locks and two tables.

## Runs

| Run | Shows | Bounds |
|---|---|---|
| oc_arena | reservations, commits and backings stay consistent, the kept block is inside, searches end, PageAllocator is implemented; `BootSound`: the heap cut and window, the modules, the patches; `LoopSound`, `LoopProceeds`: clock, window, watchdog, overlay | arena: window of two slots, pool one page short of it, two reservations, one stack. Boot: twenty heap sizes around every change of the cut, sixteen stack regions. Loader: three modules of one or two pages in a zone that not all fit, one of which imports what only a later one exports. Patches: at most two words of another version, one mapping that fails in a boot. Loop: ages to three. Watchdog: three threads for two slots. Overlay: three frames, one wipe |
| mmap_shim | the bitmap is exact, buffers are safe, lost only at a limit, calls return | two threads, three requests (over-map, big file, cached file), one entry in each table so both fill |
| save_store | a closed save is committed, targets are whole and never older, preferences reach their file; `StorageSound`: reads, inodes, directories, the text of the preferences, config.txt | one saver, three saves, two sets, one kill. Files: two threads with a descriptor each, five paths (from the device, from "/", relative), a file larger than the window, one slot of read-ahead. Preferences: two entries with every escaped character. Config: three boots, five files |
| jni_refs | references valid, the table exact, leaks only when full; `JavaAnswers`; `ValuesSound` | one thread, four objects for a table of three, frames nested three deep. Names: two threads, pools of one and two, a label that is cut to another. Arrays: lengths to two, regions from before the start to past the end, negative lengths included. Streams: two assets, three handles, two descriptors. Keys: two threads, two keys, each made twice, one destructor that sets a value again |
| futex | no wake lost, implements KernelFutex, calls return; `ThreadsSound`: locks exclude; `ThreadsProceed`: condition waiters and the collector come back | three threads, two words in one bucket; the shim: two threads with a condition, a plain and a recursive mutex and an rwlock, each made at most twice |
| touch_hook | phases in order, ended slots held for one frame, the mouse gesture, the pair; `SignalsSound`, `SignalsArrive` | two fingers and the pair for three slots; two pipes for descriptors of two and a half, two threads; two loopers, two threads |
| audio | no freed player or missing buffer is played, SoundQueues is implemented, what is enqueued on a playing player is played | three players for two slots, so that one is reclaimed; two buffers, rings of one; dry after two blocks; one engine thread |
| short_file_map | *violated*: a file map with a short slot locks `g_mmap_lock` twice | as mmap_shim |
| two_savers | *violated*: a closed save is not committed when another thread gets its descriptor | two savers |
| prefs_reach_card | *violated*: flushed preferences are not committed | one saver, no kill |
| two_jni_threads | *violated*: a pop frees what another thread registered | two threads, otherwise as jni_refs |
| clear_in_block | *violated*: a clear takes away the buffer the mixer is playing | as audio, `AnyUse = TRUE` |

The bounds are chosen so that every table is filled and every pair of actors
meets; what a third of a kind would add is only more of the same conflict,
except where a proof covers every number anyway. `CHECK_DEADLOCK FALSE` appears
where the system rests once its bounded work is done or its tables are full.

### Fairness

* OcArena: a search is a loop under a mutex; it runs (`WF` of its steps).
* MmapShim: a thread inside a call goes on when it is not waiting for a mutex.
* SaveStore: a save once begun is finished; the render loop comes back to
  nx_save_prefs and gets through it, and the fopen of the preferences, which may fail,
  does not fail every time (`SF` of `PrefsOpen`). Nothing forces a new save or a kill.
* Futex: threads run and time passes (`WF`); a libnx mutex is handed over by
  the kernel's address arbiter to its waiters in turn, so whoever keeps
  asking gets it (`SF` of the three acquisitions). Nothing forces a wake.
* PthreadShim: as Futex; the cap of the wait is a timer (`WF` of `CapFires`), and a
  thread that holds a lock gives it back (`SF` of `Unlock` and of acquisitions).
  Nothing forces a signal. GcBridge: the collector runs.
* Audio: SDL asks for block after block (`WF` of the mixer's steps), each block
  and each buffer has finitely many frames (`SF` of both ends of playing, per
  slot), an engine thread leaves its mutex (`WF`), and the callback that waits
  for that mutex gets it (`SF`). Nothing forces the engine to do anything else.
* FakePipes and Loopers: a thread that was woken, or whose timeout is over, runs
  (`WF`). Nothing forces a write, a close or a wake.
* RenderLoop: time passes, the main thread and the clock thread run (`WF`). The
  engine returns from nativeRender when it likes.
* Watchdog: threads leave stdio (`WF`), and the watchdog, which waits for a lock
  others take and give back, gets it (`SF`).
* Overlay: the publisher runs and a stop whose thread has ended returns (`WF`).
  Nothing forces SaltyNX to come.
* The others: safety only, no fairness.

### What the engine is assumed to do

Some promises hold only for an engine that keeps to the rules the shims were made
for. Each rule is a constant, so that a run without it shows what is lost:
`AnyUse` (JniRefs, Audio), `LoneFirstUse` (two threads race on a static mutex and
both enter), `LoneIntern` (a name gets two entries), `DeleteEmpty` (the next key in
the entry reads the values of the deleted one), `CloseIdle` (a reader wakes on a
freed ring), `WithinFile` and `FdFirst` (a stream skipped past its end answers that
fewer than no bytes are available; an asset closed first leaves its descriptor to
another), `StallIsQuiet` (a handle paused by the watchdog names another thread),
`LateLocks` (a destructor that locks registers a thread that is gone). What the engine
asks of an array region is not such a constant: a negative length is in the run, and
`ArraysExact` says what holds of the others; that start + len does not overflow an int is
in `ArraysAssumption`.

## Proofs

`OcArenaProofs` proves, for any window, pool, step, blocks and stacks that meet
`WindowAssumption` and `EngineAssumption`: type correctness, disjoint
reservations, exact backing (`BackingExact`: the pages committed are marked used, each has
a pool page of its own, and the bump pointer counts them and stays in the
pool), and that every step is one of PageAllocator. The invariants are not inductive
alone: `IInv` adds that a reservation in progress owns nothing yet, that backings lie
below the bump pointer, and that backed pages are marked. That the kept block lies inside
needs one thing more: the engine must mask with the step of the search (`EngineAlign =
Step`). That is what the region patch of `region_patch.h` establishes, which CodePatches
shows to be written whole unless a mapping fails; without it, the theorem does not hold, and
it is stated with that assumption.

Beside the arena, the same module proves what runs with the game (`LoopIsSound`), for any
sizes that meet the assumptions of each part: frame periods, the stall after which the clock
thread steps in, threads and slots of the registry, screens, frames, durations kept. Each
part has an invariant of its own:

- `LoopInv`, the render loop and the clock thread: who reads the time under `g_clock_lock`
  has it until the engine is told (`LockSound`), and the frames presented since the last
  wait are worth no more than a period and what is still due (`PaceSound`), which is why the
  limiter never lets a burst through.
- `ShowInv`: there is one surface at most, the one kept (`SurfacesSound`); a window that has
  a surface is cut to the size set last, and once Mesa has settled its crop stays, so that
  the frame shown is whole (`WindowCut`).
- `WatchInv`: a slot in use and its thread name each other (`SlotsSound`), and the slot the
  watchdog stopped a thread of stays in use until it let it go (`LookSound`). The latter rests
  on `StallIsQuiet`: no thread ends while the watchdog looks at them.
- `OverlayInv`: a pause makes a span of which a frame is counted next (`SpansSound`); the
  publisher lives from the start to the stop, and a block marked is the overlay's own and
  its page mapped until then (`OwnerSound`); what it read of the counts is not more than was
  counted (`PublisherSound`).

And it proves what comes before (`BootIsSound`), for any sizes of the heap and what the
kernel has mapped, any modules, symbols, RELR tables and versions of the game:

- `LoadInv`, the loader. Behind an entry of a RELR table, each word has been relocated as
  often as the entries so far name it, and the place the next bitmap counts from is that of
  the last address and of the bitmaps since (`RelrSound`). A module is bound while later
  ones are not there yet, so that an import means the first export among the earlier ones,
  or is poisoned (`SlotsBound`): the answer of dlsym, when a module before exports the name.
  The images follow each other in the zone (`ImagesApart`), and a page has the permission of
  the pass that went over it (`PagesPermitted`), so none gets one twice.
- `MemInv`, the cut of the memory: the sizes are whole pages, so the zone begins exactly
  where newlib ends, and what is kept for the alignment is enough for it (`HeapIsCut`); the
  longest hole lies in the stack region with nothing mapped (`HoleSound`), and the window in it.
- `PatchInv`, the patches: of those behind that fit the game, each word is written or its
  mapping failed, and the others have changed nothing; those ahead are not there; of the one
  under way the words compared were right and the calls behind are settled in the same way
  (`PlanSound`). No two patches write one word (`PatchesAssumption`). Any number of mappings
  may fail (`MaxFails`). The entries of the methods the game is called by are never written,
  so that a start that finds them right arms the grant (`EntriesKept`), and `GrantSound` has
  the order of the purchases, the mark and the save.

`FutexProofs` proves type correctness, that no wake is lost, and that futex_impl
implements KernelFutex, for any threads, words and buckets. The argument is the
comment of the code made exact: only the holder of a bucket's mutex is between
compare and sleep, so a waker that finds a sleeper whose word changed is itself
the pending wake, or one is still on its way.

The same module proves `ThreadsSound` of the pthread shim: for any threads, mutexes,
conditions and rwlocks, no two threads are told they hold one lock, but for readers. What
makes it inductive (`ShimInv`) is who may rely on what across the unlocked first use: a
thread that found the word static, and has not stored its object yet, is alone with that
word (`WordsSound`); a thread holds a lock exactly if the object its word names says so
(`HoldersSound`); and the object a call goes on with is that of the word, unless the call is
about to make one (`CallsSound`). The first of these is no merit of the code: `ensure_mutex`
and its like test and store without a lock, so the theorem assumes `LoneFirstUse`, that two
threads do not meet in the first use of one lock.

`MmapShimProofs` proves type correctness, that the bitmap is exact, that no mapping reads
a freed buffer, and that buffers are lost only at a limit, for any arena, requests, table
sizes and finite set of threads (`ArenaAssumption`, `RequestAssumption` and
`EngineAssumption` of MmapShim). `ArenaExact` and `BuffersSafe` speak of everything held, by
maps and by calls under way, as one set, which no step argument can take apart; `IInv`
says the same of maps and calls one by one (`PagesApart`, `BuffersApart`), and adds what
makes it inductive: a call holds nothing before it got memory, and a buffer between the
two sections of `g_fb_lock` is still the call's own (`CallSound`), a mapping has pages or a
buffer (`KindSound`), and a place is left for each result, with the tables inside their
sizes (`BoundsSound`).

`SaveStoreProofs` proves, for any number of threads that save, descriptors, saves and
kills, that the target of a rename is never torn and never older. `IInv` orders the
versions, committed, renamed, written (`VersionsSound`), and says who holds the
descriptors that are open (`BusySound`), without which the open of a saver could find none.
That a closed save is committed is proved for at most one saver: its mark is then its own
until it looks it up (`OneSaverSound`). With two it is false, as two_savers shows.

The same module proves `StorageIsSound`, the rest of what is on the card, for any threads,
paths, files of the game, slots, windows, characters, keys, values and edits of the player:

- `FilesInv`, the descriptors. A read that is under way has got the bytes from its offset on
  (`CallOk`), a descriptor nobody uses stands where the last read or seek left it, in the
  file or in the slot that stands for it (`PositionsSound`), and a slot goes with its
  descriptor, so that no two have the same one (`DescriptorsSound`). An inode number stands
  for the file its descriptor reads (`InodesSound`). That no file has two rests on
  `FilesAssumption`: no path but its own ends in the name of a save that lies in the game
  directory, as a read of that other path would find the save under a second number.
  Directories are made below one that is there (`DirsSound`).
- `PrefsInv`, the preferences. The file holds what some list was written as, and the list of
  what it is to hold (`FileIs`); nothing is to be written only when that is what the game
  set; and an iterator gave the list up to its index. That loading such a text gives the list
  back is `PrefsReadBack`, on every text the buffer holds line by line: unescaping undoes
  escaping (`UnescEsc`), an escaped text has no tab and no newline (`EscPlain`), so each
  line parses as its entry (`ParsedLine`), and no line spills into the next (`LineLoaded`).
  Escaping, writing and loading are recursive functions on sequences. What holds of them for
  every text is proved without an induction rule: the lengths of the sequences that are not in
  a set have a least (`AllSequences`), and that a function satisfies its recursive definition
  follows from one that is put together of its beginnings (`BeginsExists`, `RecursionExists`).
- `ConfigInv`: what was written is read back as what the process runs with (`WrittenRead`).

`JniRefsProofs` proves that one thread with `AnyUse = FALSE` finds its references valid,
the table exact, and leaks only when the array is full, for any size of the array and any
objects (`OneThread`). Two threads violate it, as two_jni_threads shows, and so would
frames nested deeper than there are marks, hence `MaxDepth <= MaxFrames`: a push that finds
the array of marks full answers as if it had pushed, and its pop takes the mark of the frame
outside. `IInv` adds that marks never fall (`MarksSound`), that every entry is a reference of
an open frame and stands in its part of the array (`EntriesPlaced`), and that no reference
is of two frames (`ScopesSound`). `RefsInWhole` carries this to jni_refs, whose specification
holds other components beside JniRefs. Of those it also proves:

- `ValuesAreSound`, the keys and their destructors. `ThreadInv` says that a value sits in
  the thread's array or in the one libnx walks, never in both, that what the walk has passed
  needs no destructor any more, and that each further turn of libnx took a value set again
  (`WalkSound`): this is why no value stays, as long as destructors stop setting values
  before libnx stops turning (`Rearms < Iterations` in `ThreadingAssumption`; the code stops
  as well, without the call). A key is deleted only when no thread has a value of it.
- `NamesAreOneToOne`. `NamesInv`: a lookup that takes an entry takes the one after the last,
  for a name that has none, and no two lookups of a pool are under way, because of
  locals_lock or because one thread asks for classes and ids (`LookupsApart`).
- `StreamsAreRight`. `StreamsInv`: a descriptor has one owner, and the number the engine was
  given of one is of an asset descriptor that is still open (`OwnersSound`).
- `OutputAlwaysOpens`: an attempt asks for each property once, so that the calls counted
  so far say which answer the next one gets.
- `CopiesAreExact`, strings and arrays, for strings of any units and any length, and arrays
  of any length. What a text is encoded as is a recursive function on sequences of units;
  that it counts as many units as it was made of (`UnitsCounted`), is no longer than three
  bytes for each (`ThreeBytes`) and, of single bytes, has each unit at its own place
  (`SingleBytesAre`) is proved by taking a last unit away. `ArraysInv` adds to `ArraysExact`
  that the bytes kept are what the units encode as up to a zero, and what a buffer was
  filled with is the region that was asked for.
- `CallsAgree`, calls and fields. The first rule that takes a call answers it
  (`FirstByParts`), and each question of jni_refs gets the one answer on its topic, by
  whichever of the four lists it is answered (`QuestionsAnswered`), for any width and height.
  The chain holds the key it began with, as text or as bytes, up to the store (`ChainSound`),
  for any keys. The provers take a string for an atom and do not see that one is part of
  another: which part is in which text is a table in MCJava, and `TextAssumption` says that
  the table agrees with strstr; TLC evaluates it in jni_refs, text by text.

`JavaIsRight` puts the five together: every conjunct of `JavaAnswers`.

`AudioProofs` proves, for any number of players, slots, buffers and engine threads, that an
engine with `AnyUse = FALSE` neither has a freed player used nor a buffer played that is
gone (`MixerSound`), and that the players implement SoundQueues (`ImplementsQueues`). With
`AnyUse = TRUE` the first is false, as clear_in_block shows. `IInv` adds what the code never
states: a player the mixer is in was counted as not dry, and its buffer is in the queue, in
hand or in `cur` but never in two (`MixerPlaced`); a player stands in one slot
(`SlotsSound`); and one that was dry for long enough to be reclaimed has nothing to play and
nobody who would feed it, while a freed one has its fields cleared (`DrainedSound`). From
that, what a player has not completed is one buffer at most before its queue (`OneBefore`), so
that the steps of the mixer from the queue to `cur` change nothing a user sees.

`TouchHookProofs` proves, for any fingers, number of slots, screen, pinch offset and stick
steps, everything the touch_hook run checks except liveness: no finger has two slots, the
phases of a finger come in order and each is reported (`FingersReported`), the mouse keeps to
its gesture (`MouseGesture`), and the pair stays together and on the screen. What Down and
Lifted compute is stated by lemmas on `InOrder` (a set of places, listed in order, has them
all, once, and ascending), from which the slots kept for lifted fingers are seen to be enough:
`NewFit` and `ReportsFit` show that nothing is ever cut, which is what the code's comment "the
slots reserved above guarantee one Ended frame" says. `GestureInv` is what the four mouse
variables owe to each other and to the last list (a button is down exactly while tracking a
finger that is reported, and the hook is idle only after an empty list); `PairInv` says where
the virtual fingers stand, without which a partner left from the last frame could be anywhere.
Beside it, `SignalsAreSound` proves pipes and loopers (`PipesInv`: a ring is counted once by
each descriptor and got \o buf is what was sent; `LoopersInv`: an entry in use is one thread's
and its count is the references given out), for as many threads as the table of loopers
has entries (`LoopingAssumption`; the seventeenth is the case the list below names).

`NumberFacts` has what those proofs share: lemmas on least numbers and on sizes of sets,
and induction on and recursion over sequences (`AllSequences`, `RecursionExists`), which
SaveStoreProofs and JniRefsProofs use for what texts are written and encoded as.

Only model-checked: liveness under fairness (`ScanEnds`, `CallsReturn`, `PrefsReachFile`,
`PlaysOut`, `ThreadsProceed`, `SignalsArrive`, `LoopProceeds`), which is beyond the proof
system. Every invariant and every action property of the passing runs is a theorem; where a
theorem asks for more than the run has (`OneThread`, `AnyUse = FALSE`, `EngineAlign = Step`,
at most one saver), the assumption is named in it, and the run shows an instance that meets it.

## What was seen and has no run

Reading the code against the models showed more than the five findings; none of these
contradicts a promise of the repository, or none that a run here can show.

* The read-ahead never attaches (`libc_shim.c` 435): free slots are looked for by
  `fd < 0` in a static table of zeros. Files checks both contents of the table.
* pthread_once lets a second caller go on while the first initialises (`imports.c` 225);
  a deleted key leaves its values (`imports.c` 345).
* Preference lines longer than 2047 characters are cut when loaded (`unity_jni.c` 125).
* A name longer than its field of a pool (classes 96, names 64, signatures 160) is not
  found again and takes an entry each time, and a shorter name that equals what was kept of
  it is answered with its entry (`jni_fake.c` 134, 225, 286).
* getISO3Language and getDisplayLanguage are answered "en" by the rule for
  "Language", which stands before theirs (`jni_fake.c` 478).
* The "A" forms of the calls pass no arguments on (`jni_fake.c` 846); String regions take
  UTF-16 offsets as byte offsets, which is exact for single-byte text only, and
  ArraysExact says so.
* The seventeenth looper is NULL and pollOnce locks it (`android_native_unity.c` 166).
* The clock thread ends when the game quits, while the engine may still wait in
  nativeRender; its subtraction may underflow and tick once more than needed (`main.c` 230).
* The comment "restore exactly what we changed" of the cursor (`imports.c` 654) leaves out
  the framebuffer and the attribute pointers, which ShownWhole excludes by name.
* so_patch_code may fail, and no caller looks at its result (`main.c` 473, 711, 725): a patch
  of several words, such as that of the Choreographer, is then in memory in halves. The
  input and preference hooks are written without a comparison (`unity_input_hook.c` 82, 282).
* A module is bound as soon as it is loaded (`main.c` 419), so what only a later module
  exports is poisoned, though the comment at `so_util.c` 287 says that such imports "must be
  resolved after all modules are loaded".
* The packs the loop grants are in the preferences, which are not committed (prefs_reach_card):
  a kill may lose them, and the next start, which grants without looking, buys them again.
* GetArrayRegion and SetArrayRegion compare start + len with the length of the array, in an
  int, and do not refuse a negative len (`jni_fake.c` 989, 995); GetStringUTFRegion writes its
  zero after the len bytes asked for (`jni_fake.c` 919).
* The paths managed_root gives the game begin with "/" (`unity_jni.c` 89), so that
  mkdir_p_dir starts at "/switch", which its comment says it must not try to make
  (`libc_shim.c` 359); the directories are there and nothing is made.
* A kill between truncation and the end of the rewrite of config.txt loses the player's
  values; the next boot runs with what it reads, which is what ConfigKept says.

## Not modelled

No caller in this tree: the movie ring of `opensles.c` (`cr3_stubs.c` stands in for the
movie player), so_unload, so_patch_stack_canaries, so_find_addr, the commit and
decommit of the heap arena. The AudioTrack pump of `jni_fake.c` 689 is disabled.

Wrappers without state of their own: most of `imports.c` and `unity_imports.c` (the
tables and the C library), `ndk_stubs.c`, `cr3_stubs.c`, `firebase_stub.c`, the interfaces of
OpenSL objects that answer constants, stdio for the engine's `__sF`, the synthetic files
under /proc, error screens, headers.

Abstracted everywhere: file and page contents, sample values, formatting and
logging, the encoding of instructions, ELF headers. The deadlines of futexes and timed
condition waits are nondeterministic, as times are only compared where RenderLoop
compares them. pthread_once, semaphores outside the collector, and Java calls that answer
nothing are left out, since each is one assignment with nothing to relate it to. Beacons
and traces of `diag.c` are printed and never read back. The session room, resolution and
api of the overlay are written once for another program.
