------------------------------ MODULE MCOcArena ------------------------------
(* What main.c builds up and keeps going: the overcommit arena, and beside it *)
(* the boot that cuts the memory, the loader that fills it with the game's    *)
(* modules, the patches of their code, the render loop with the clock thread, *)
(* the window it draws into, the watchdog, and the overlay that shows the     *)
(* rate of the frames.                                                        *)
(* They share no state, so a behaviour is one of one part, which the first    *)
(* state chooses, and the others stay as they begin.  TLC gets the sizes from *)
(* the configuration; those that are sets of functions or of tuples are       *)
(* written here.                                                              *)
EXTENDS OcArena, TLC

CONSTANTS
  main, unity, il2cpp, malloc, start, absent, None,
  Modules, Shims, Stubs, Defines, Imports, ModuleSizes, Zone, Bits, Tables,   \* Loader
  Addrs, HeapSizes, SmallPage, Align, SoRegion, Floor, Extra, MapReserve, Want,  \* BootMemory
  Pool, Top, StackFirst, StackEnd, Mappings,
  Cap, Period, Stall,                                                         \* RenderLoop
  Users, MaxSlots,                                                            \* Watchdog
  Ring, Retry, MaxFrames, MaxWipes,                                           \* Overlay
  Regions, Entries, Hooks, Games, MaxFails,                                   \* CodePatches
  Configured, AutoSize, Asked, Reasserts, Settles, ShownFrames, MaxSurfaces       \* Surface

VARIABLES
  part,
  at, list, mod, slot, page, pass, relr, ran,                \* Loader
  pc, heap, mapped, hole, win, reserved, pool, armed,        \* BootMemory
  mainAt, clk, lock, tm, lastTick, game, vs, news, due, quit, burst,   \* RenderLoop
  thread, self, slots, wd, idle, stdio, paused,                        \* Watchdog
  salty, shared, mine, shown, counted, since, still, ticks, span,      \* Overlay
  inFrame, owner, pub, wipes,
  words, card, patchAt, aliases, failed, grant, ready, buying, bought,  \* CodePatches
  view, saved, writing, refused,
  screen, size, geom, window, kept, alive, held, frames, gl, before, seen   \* Surface

-----------------------------------------------------------------------------
\* A name of the import table that a module exports as well, a name of another
\* module, which one imports before and one after it is loaded, and one that is
\* nowhere; a zone that not all modules fit.
Entry(n) == [kind |-> "address", at |-> n]
Bitmap(bits) == [kind |-> "bitmap", bits |-> bits]
MCModules == <<main, unity, il2cpp>>
MCDefines == main :> {} @@ unity :> {start} @@ il2cpp :> {malloc}
MCImports == main :> {malloc, start, absent} @@ unity :> {malloc, absent}
             @@ il2cpp :> {start, absent}
MCTables == { <<>>, <<Entry(0), Bitmap({1}), Bitmap({2})>>,
              <<Entry(1), Bitmap({1, 2}), Entry(0)>> }
Loading == INSTANCE Loader WITH Sizes <- ModuleSizes, scan <- pass

\* Heaps around every size at which the cut changes, in units of half a page,
\* and a stack region with four addresses that may be mapped.
MCHeapSizes ==
  { 4 * k : k \in {0, 1, 3, 5, 7, 14, 20, 27, 28, 29, 30, 31, 32, 33, 40, 55, 57, 58, 70, 90} }
MCMappings == { {0, 1, 12} \cup m : m \in SUBSET {3, 4, 8, 10} }
Booting == INSTANCE BootMemory WITH
  Sizes <- HeapSizes, Page <- SmallPage, Reserve <- MapReserve, scan <- hole

Rendering == INSTANCE RenderLoop WITH main <- mainAt, last <- lastTick

\* No destructor of a thread-local value locks a mutex, and a thread that waits
\* while nothing is drawn does not end.
Watching == INSTANCE Watchdog WITH
  Threads <- Users, LateLocks <- FALSE, StallIsQuiet <- TRUE, slot <- slots

Overlaying == INSTANCE Overlay WITH
  page <- shared, block <- mine, count <- counted, last <- since, frame <- inFrame

\* The words of at most two patches are those of another version of the game.
MCRegions == <<"region1", "region2", "region3">>
MCHooks == <<"GetTouch", "GetInt">>
MCPatched == {"setOutput", "choreo0", "choreo1", "initPayment", "isUseShop", "getPrice"}
               \cup Entries \cup { MCRegions[i] : i \in 1..3 } \cup { MCHooks[i] : i \in 1..2 }
MCGames == { [w \in MCPatched |-> IF w \in O THEN "other" ELSE "from"] :
               O \in { {v, w} : v, w \in MCPatched } \cup {{}} }
Patching == INSTANCE CodePatches WITH
  code <- words, game <- card, pc <- patchAt, card <- saved

\* The size the config names and the one the game asks for.
MCConfigured == {<<0, 0>>, <<2, 1>>}
MCAutoSize == <<4, 2>>
MCAsked == {<<4, 2>>, <<1, 1>>}
Showing == INSTANCE Surface WITH Auto <- AutoSize, MaxFrames <- ShownFrames, shown <- seen

ASSUME LoadingAssumption == Loading!LoaderAssumption /\ Loading!RelrAssumption
ASSUME BootingAssumption == Booting!BootAssumption
ASSUME RenderingAssumption == Rendering!RenderAssumption
ASSUME WatchingAssumption == Watching!WatchdogAssumption
ASSUME OverlayingAssumption == Overlaying!OverlayAssumption
ASSUME PatchingAssumption == Patching!PatchesAssumption
ASSUME ShowingAssumption == Showing!SurfaceAssumption

loadingVars == <<at, list, mod, slot, page, pass, relr, ran>>
bootingVars == <<pc, heap, mapped, hole, win, reserved, pool, armed>>
renderingVars == <<mainAt, clk, lock, tm, lastTick, game, vs, news, due, quit, burst>>
watchingVars == <<thread, self, slots, wd, idle, stdio, paused>>
overlayingVars == <<salty, shared, mine, shown, counted, since, still, ticks, span, inFrame,
                    owner, pub, wipes>>
patchingVars == <<words, card, patchAt, aliases, failed, grant, ready, buying, bought,
                  view, saved, writing, refused>>
showingVars == <<screen, size, geom, window, kept, alive, held, frames, gl, before, seen>>
bootVars == <<loadingVars, bootingVars, patchingVars>>
loopVars == <<renderingVars, showingVars, watchingVars, overlayingVars>>
allVars == <<part, vars, bootVars, loopVars>>

InArena(A) == part = "arena" /\ A /\ UNCHANGED <<part, bootVars, loopVars>>
InBoot(p, A) == part = p /\ A /\ UNCHANGED <<part, vars, loopVars>>
InLoading(A) == InBoot("loading", A /\ UNCHANGED <<bootingVars, patchingVars>>)
InBooting(A) == InBoot("booting", A /\ UNCHANGED <<loadingVars, patchingVars>>)
InPatching(A) == InBoot("patching", A /\ UNCHANGED <<loadingVars, bootingVars>>)
InRun(p, A) == part = p /\ A /\ UNCHANGED <<part, vars, bootVars>>
InLoop(A) == InRun("loop", A /\ UNCHANGED <<showingVars, watchingVars, overlayingVars>>)
InShow(A) == InRun("show", A /\ UNCHANGED <<renderingVars, watchingVars, overlayingVars>>)
InWatch(A) == InRun("watch", A /\ UNCHANGED <<renderingVars, showingVars, overlayingVars>>)
InOverlay(A) == InRun("overlay", A /\ UNCHANGED <<renderingVars, showingVars, watchingVars>>)

MCInit ==
  /\ part \in {"arena", "loading", "booting", "patching", "loop", "show", "watch", "overlay"}
  /\ Init /\ Loading!Init /\ Booting!Init /\ Patching!Init
  /\ Rendering!Init /\ Showing!Init /\ Watching!Init /\ Overlaying!Init
  /\ part = "overlay" \/ salty = "up"
  /\ part = "booting" \/ mapped = CHOOSE m \in Mappings : TRUE
  /\ part = "patching" \/ card = CHOOSE g \in Games : TRUE
  /\ part = "show" \/ screen = CHOOSE s \in Showing!Screens : TRUE

MCNext ==
  \/ InArena(Next) \/ InLoading(Loading!Next) \/ InBooting(Booting!Next)
  \/ InPatching(Patching!Next) \/ InLoop(Rendering!Next) \/ InShow(Showing!Next)
  \/ InWatch(Watching!Next) \/ InOverlay(Overlaying!Next)

\* The fairness of each part.  A behaviour never changes its part, so fairness
\* to a step of one part or of another is fairness to each.
MCFairness ==
  /\ WF_allVars(InArena(Scanning) \/ InLoop(Rendering!Elapse) \/ InWatch(Watching!Prints))
  /\ WF_allVars(InLoop(Rendering!MainStep) \/ InOverlay(Overlaying!Publishes))
  /\ WF_allVars(InLoop(Rendering!ClkStep) \/ InOverlay(Overlaying!StopEnds))
  /\ SF_allVars(InWatch(Watching!WdStep))

MCSpec == MCInit /\ [][MCNext]_allVars /\ MCFairness

-----------------------------------------------------------------------------

\* main.c, so_util.c: the game starts in memory that is cut without overlap,
\* in modules that are whole, relocated once and bound as dlsym answers but for
\* what is loaded later; a patch that fits is written, but for the words whose
\* mapping failed, and no other changes anything; what the loop granted is in
\* the file of the preferences unless that could not be opened.
BootSound ==
  /\ part = "loading" => /\ Loading!TypeOK /\ Loading!BoundLikeDlsym
                         /\ Loading!ImagesWhole /\ Loading!RelocatedOnce
  /\ part = "booting" => Booting!TypeOK /\ Booting!MemoryLaidOut
  /\ part = "patching" => Patching!TypeOK /\ Patching!PatchedWhole /\ Patching!GrantedOnce

\* main.c, imports.c, diag.c, saltynx.cpp: the engine's clock never goes back and
\* frames keep their pace; each is shown whole, on the one surface; every thread
\* has a slot of the registry of its own, and none stays paused; the overlay shows
\* the rate of the frames there are, and none once the game has ended.
LoopSound ==
  /\ part = "loop" => Rendering!TypeOK /\ Rendering!ClockSound
  /\ part = "show" => Showing!TypeOK /\ Showing!ShownWhole
  /\ part = "watch" => Watching!TypeOK /\ Watching!SlotsApart
  /\ part = "overlay" => Overlaying!TypeOK /\ Overlaying!OverlayHonest

\* An engine that waits for a presentation or its clock gets on, and a look of
\* the watchdog at the threads ends; a running game attaches to SaltyNX when it
\* is there, and stopping the overlay returns.  A behaviour is one of one part, so
\* this says EngineProceeds, WatchdogHarmless and OverlayAttaches of them.
Waiting == Rendering!EngineWaits \/ Watching!LooksOn \/ Overlaying!OverlayOwes
LoopProceeds == Waiting ~> ~Waiting

=============================================================================
