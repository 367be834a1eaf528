------------------------------- MODULE MCFutex -------------------------------
(* How the engine's threads meet: futex_impl, and beside it the pthread shim  *)
(* and the collector's stop-the-world.  They share no state, so a behaviour   *)
(* is one of one part, which the first state chooses, and the others stay as  *)
(* they begin.  TLC gets from the configuration three threads with two words  *)
(* that share a bucket, and for the shim two threads with a condition, a      *)
(* plain and a recursive mutex and an rwlock.                                 *)
EXTENDS Futex

CONSTANTS
  Users,                               \* threads of the shim and of the bridge
  Mutexes, RecursiveOnes, Conds, RwLocks, MaxDepth, MaxGen,     \* PthreadShim
  MaxCount                             \* GcBridge

VARIABLES
  part,
  slot, real, pcall, held,            \* PthreadShim
  base, ready, gate, sem, gc          \* GcBridge

\* Two words that share a bucket, so that a wake for one word finds sleepers
\* of the other.
MCBucket == [u \in Words |-> CHOOSE h \in Buckets : TRUE]

-----------------------------------------------------------------------------
\* A lock that is used for the first time is used by one thread alone.
Shim == INSTANCE PthreadShim WITH Threads <- Users, LoneFirstUse <- TRUE, call <- pcall

Bridge == INSTANCE GcBridge WITH Mutators <- Users

ASSUME ShimAssumption == Shim!PthreadAssumption
ASSUME BridgeAssumption == Bridge!GcAssumption

pthreadVars == <<slot, real, pcall, held>>
bridgeVars == <<base, ready, gate, sem, gc>>
allVars == <<part, vars, pthreadVars, bridgeVars>>

InFutex(A) == part = "futex" /\ A /\ UNCHANGED <<part, pthreadVars, bridgeVars>>
InShim(A) == part = "shim" /\ A /\ UNCHANGED <<part, vars, bridgeVars>>
InBridge(A) == part = "gc" /\ A /\ UNCHANGED <<part, vars, pthreadVars>>

MCInit ==
  /\ part \in {"futex", "shim", "gc"} /\ Init /\ Shim!Init /\ Bridge!Init
  /\ part = "futex" \/ word = [u \in Words |-> 0]

MCNext == InFutex(Next) \/ InShim(Shim!Next) \/ InBridge(Bridge!Next)

\* The fairness of each part.  A behaviour never changes its part, so fairness
\* to a step of one part or of another is fairness to each.
ShimRuns(t) == t \in Users /\ InShim(Shim!Runs(t))
ShimMoves(t) == t \in Users /\ InShim(Shim!Moves(t))
MCFairness ==
  /\ \A t \in Threads :
       /\ WF_allVars(InFutex(Runs(t)) \/ ShimRuns(t))
       /\ SF_allVars(InFutex(Takes(t)) \/ ShimMoves(t))
  /\ WF_allVars(InBridge(Bridge!Collects))

MCSpec == MCInit /\ [][MCNext]_allVars /\ MCFairness

-----------------------------------------------------------------------------

\* imports.c, pthread: no two threads are told they hold one lock, but for
\* readers, whatever the lock is made of and whenever it was made.
ThreadsSound == Shim!TypeOK /\ Shim!Excludes /\ Bridge!TypeOK

\* A thread that waits on a condition comes back with its mutex although the
\* signal may be missed, and a collector that stops the world gets the
\* acknowledgements no signal handler sends.
ThreadsProceed == Shim!WaitersReturn /\ Bridge!StopReturns

=============================================================================
