---------------------------- MODULE MCTouchHook ----------------------------
(* The Android side of the shims: the input hook, and beside it the loopers    *)
(* and the pipes the engine wakes its threads by.  They share no state, so a   *)
(* behaviour is one of one part, which the first state chooses, and the others *)
(* stay as they begin.  TLC gets the sizes from the configuration: two panel   *)
(* fingers and the virtual pair for three slots on a screen just wide enough   *)
(* for either side, two pipes for the descriptors of two and a half, and a     *)
(* looper for each of two threads, one of which polls with a timeout.          *)
EXTENDS TouchHook

CONSTANTS
  Users, None,                                      \* threads that signal each other
  MaxFakeFds, PipeCap, Rings, Chunk, MaxSent,       \* FakePipes
  MaxLoopers, MaxRefs, Timed                        \* Loopers

VARIABLES
  part,
  fds, ring, reader,                  \* FakePipes
  alive, looper, poll, refs, fell     \* Loopers

\* At the edge of the screen a step leaves the cursor where it is.
MCStickSteps == {-1, 1}

-----------------------------------------------------------------------------
\* No thread reads from a descriptor that is closed under it.
Piping == INSTANCE FakePipes WITH Threads <- Users, CloseIdle <- TRUE

Looping == INSTANCE Loopers WITH Handles <- Users

ASSUME PipingAssumption == Piping!PipesAssumption
\* The table is large enough for the threads there are.
ASSUME LoopingAssumption == /\ Looping!LoopersAssumption /\ None \notin Users
                            /\ IsFiniteSet(Users) /\ Cardinality(Users) <= MaxLoopers

pipingVars == <<fds, ring, reader>>
loopingVars == <<alive, looper, poll, refs, fell>>
allVars == <<part, vars, pipingVars, loopingVars>>

InHook(A) == part = "hook" /\ A /\ UNCHANGED <<part, pipingVars, loopingVars>>
InPiping(A) == part = "piping" /\ A /\ UNCHANGED <<part, vars, loopingVars>>
InLooping(A) == part = "looping" /\ A /\ UNCHANGED <<part, vars, pipingVars>>

MCInit == part \in {"hook", "piping", "looping"} /\ Init /\ Piping!Init /\ Looping!Init

MCNext == InHook(Next) \/ InPiping(Piping!Next) \/ InLooping(Looping!Next)

\* The fairness of each part.  A behaviour never changes its part, so fairness
\* to a step of one part or of another is fairness to each.
MCFairness == \A t \in Users :
  WF_allVars(InPiping(Piping!Awakes(t)) \/ InLooping(Looping!Polls(t)))

MCSpec == MCInit /\ [][MCNext]_allVars /\ MCFairness

-----------------------------------------------------------------------------

\* unity_input_hook.c: a finger begins once, goes on from where it was and ends
\* once, and one that found no slot waits no longer than a frame for it.
FingersReported == Lifecycle /\ DeferredOneFrame

\* fakefd.c, android_native_unity.c: a pipe carries what was written, in order,
\* once; a thread polls a looper of its own and sleeps on none that is awake.
SignalsSound ==
  /\ Piping!TypeOK /\ Piping!PipesCarry
  /\ Looping!TypeOK /\ Looping!LoopersSound

\* A reader of a pipe and a thread that polls a looper are woken.
SignalsArrive == Piping!ReadersReturn /\ Looping!WakesArrive

=============================================================================
