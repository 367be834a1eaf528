------------------------------- MODULE JniRefs -------------------------------
(***************************************************************************)
(* Reference lifetimes in the fake JNI environment (source/jni_fake.c).    *)
(* Strings, arrays and bitmaps that JNI calls return are heap blocks; one  *)
(* array of local references, with a stack of frame marks, decides when    *)
(* they are freed.  Both are global to the process and guarded by          *)
(* locals_lock, so that every call below is one step.  A global reference  *)
(* is the same pointer, taken out of the array.                            *)
(*                                                                         *)
(* The engine's side is what JNI promises it: a local reference is valid   *)
(* in its thread until it is deleted or its frame is popped, and a global  *)
(* one until it is deleted.                                                *)
(***************************************************************************)
EXTENDS Integers, Sequences, FiniteSets, Functions

CONSTANTS
  Threads,
  Objects,      \* addresses of heap blocks; a freed one may be reused
  NoObject,
  MaxLocals,    \* MAX_LOCALS
  MaxFrames,    \* MAX_FRAMES
  MaxDepth,     \* bound: frames the engine nests in a thread
  AnyUse        \* TRUE: the engine uses references in any order JNI allows;
                \* FALSE: only within the innermost frame, which suits the array

ASSUME JniAssumption == /\ MaxLocals \in Nat \ {0} /\ MaxFrames \in Nat \ {0}
                        /\ MaxDepth \in Nat /\ AnyUse \in BOOLEAN
                        /\ NoObject \notin Objects

VARIABLES
  locals,      \* locals[]: the array, with what is left above the top
  top,         \* locals_top
  frames,      \* frames[], up to frame_top
  live,        \* heap: the blocks that are allocated
  scope,       \* engine: per thread, the local references of each open frame
  globals      \* engine: objects it holds a global reference to

vars == <<locals, top, frames, live, scope, globals>>

Slots == 1 .. MaxLocals

Init ==
  /\ locals = [i \in Slots |-> NoObject] /\ top = 0 /\ frames = <<>>
  /\ live = {} /\ globals = {}
  /\ scope = [t \in Threads |-> <<{}>>]

Depth(t)  == Len(scope[t])
Inner(t)  == scope[t][Depth(t)]
Locals(t) == UNION Range(scope[t])

\* The references the engine deletes or promotes.
Usable(t) == IF AnyUse THEN Locals(t) ELSE Inner(t)

\* Forget a local reference, whichever frame it is of.
Without(t, o) == [scope EXCEPT ![t] = [d \in DOMAIN @ |-> @[d] \ {o}]]

-----------------------------------------------------------------------------

NewLocalUnchecked(t) ==   \* mutant of NewLocal: MAX_LOCALS is not looked at
  \E o \in Objects \ live :
    /\ live' = live \cup {o}
    /\ locals' = [locals EXCEPT ![top + 1] = o] /\ top' = top + 1
    /\ scope' = [scope EXCEPT ![t][Depth(t)] = @ \cup {o}]
    /\ UNCHANGED <<frames, globals>>

\* A JNI call that returns a new string or array: reg_local.
NewLocal(t) ==
  \E o \in Objects \ live :
    /\ live' = live \cup {o}
    /\ IF top < MaxLocals THEN locals' = [locals EXCEPT ![top + 1] = o] /\ top' = top + 1
                          ELSE UNCHANGED <<locals, top>>
    /\ scope' = [scope EXCEPT ![t][Depth(t)] = @ \cup {o}]
    /\ UNCHANGED <<frames, globals>>

\* Where the search from the top finds a reference; 0 if it does not.
Found(o) == IF \E i \in 1 .. top : locals[i] = o
              THEN CHOOSE i \in 1 .. top : /\ locals[i] = o
                                           /\ \A j \in (i + 1) .. top : locals[j] # o
              ELSE 0

\* An entry is taken out by moving the top one into its place.
TakeOut(i) ==
  /\ locals' = [locals EXCEPT ![i] = locals[top]]
  /\ top' = top - 1

\* j_DeleteLocalRef, delete_local
DeleteLocalRef(t, o) ==
  /\ o \in Usable(t)
  /\ scope' = Without(t, o)
  /\ IF Found(o) # 0 THEN TakeOut(Found(o)) /\ live' = live \ {o}
                     ELSE UNCHANGED <<locals, top, live>>
  /\ UNCHANGED <<frames, globals>>

NewGlobalRefKeeps(t, o) ==   \* mutant of NewGlobalRef: the local entry stays
  /\ o \in Usable(t) /\ o \notin globals
  /\ globals' = globals \cup {o}
  /\ UNCHANGED <<locals, top, frames, live, scope>>

\* j_NewGlobalRef: the entry goes, the object stays, and so does the engine's
\* local reference.
NewGlobalRef(t, o) ==
  /\ o \in Usable(t) /\ o \notin globals
  /\ globals' = globals \cup {o}
  /\ IF Found(o) # 0 THEN TakeOut(Found(o)) ELSE UNCHANGED <<locals, top>>
  /\ UNCHANGED <<frames, live, scope>>

\* j_DeleteGlobalRef frees at once, whatever local references are left.
DeleteGlobalRef(o) ==
  /\ o \in globals /\ (AnyUse \/ \A t \in Threads : o \notin Locals(t))
  /\ globals' = globals \ {o} /\ live' = live \ {o}
  /\ UNCHANGED <<locals, top, frames, scope>>

PushLocalFrameMarksNext(t) ==   \* mutant of PushLocalFrame: off by one in the mark
  /\ Depth(t) <= MaxDepth
  /\ frames' = IF Len(frames) < MaxFrames THEN Append(frames, top + 1) ELSE frames
  /\ scope' = [scope EXCEPT ![t] = Append(@, {})]
  /\ UNCHANGED <<locals, top, live, globals>>

\* j_PushLocalFrame: a frame beyond MAX_FRAMES is not recorded.
PushLocalFrame(t) ==
  /\ Depth(t) <= MaxDepth
  /\ frames' = IF Len(frames) < MaxFrames THEN Append(frames, top) ELSE frames
  /\ scope' = [scope EXCEPT ![t] = Append(@, {})]
  /\ UNCHANGED <<locals, top, live, globals>>

FreedWithResult(mark, result) ==   \* mutant of FreedByPop: the result is freed too
  {locals[i] : i \in (mark + 1) .. top}

FreedBelowTop(mark, result) ==   \* mutant of FreedByPop: the last entry is missed
  {locals[i] : i \in (mark + 1) .. (top - 1)} \ {result}

\* free_ref on every entry above the mark, but for the result.
FreedByPop(mark, result) == {locals[i] : i \in (mark + 1) .. top} \ {result}

\* j_PopLocalFrame: back to the last mark of any thread; the result, a local
\* reference of the frame, moves to the frame below.
PopLocalFrame(t, result) ==
  /\ Depth(t) > 1 /\ result \in (Inner(t) \ globals) \cup {NoObject}
  /\ LET mark == IF frames = <<>> THEN 0 ELSE frames[Len(frames)]
         kept == result # NoObject /\ mark < MaxLocals IN
     /\ live' = live \ FreedByPop(mark, result)
     /\ top' = IF kept THEN mark + 1 ELSE mark
     /\ locals' = IF kept THEN [locals EXCEPT ![mark + 1] = result] ELSE locals
     /\ frames' = IF frames = <<>> THEN frames ELSE SubSeq(frames, 1, Len(frames) - 1)
  /\ scope' = [scope EXCEPT ![t] =
                 [d \in 1 .. (Depth(t) - 1) |->
                    IF d = Depth(t) - 1 THEN @[d] \cup ({result} \ {NoObject}) ELSE @[d]]]
  /\ UNCHANGED globals

Next ==
  \/ \E t \in Threads :
       \/ NewLocal(t) \/ PushLocalFrame(t)
       \/ \E o \in Objects : DeleteLocalRef(t, o) \/ NewGlobalRef(t, o)
       \/ \E o \in Objects \cup {NoObject} : PopLocalFrame(t, o)
  \/ \E o \in Objects : DeleteGlobalRef(o)

Spec == Init /\ [][Next]_vars

-----------------------------------------------------------------------------

TypeOK ==
  /\ locals \in [Slots -> Objects \cup {NoObject}] /\ top \in 0 .. MaxLocals
  /\ frames \in Seq(0 .. MaxLocals) /\ Len(frames) <= MaxFrames
  /\ live \subseteq Objects /\ globals \subseteq Objects
  /\ scope \in [Threads -> Seq(SUBSET Objects)]

\* Every reference the engine may use points to a live object
\* (jni_fake.c:58, "matches the engine's Push/PopLocalFrame brackets").
RefsValid == globals \cup UNION {Locals(t) : t \in Threads} \subseteq live

\* No object is registered twice, so that no pop or delete frees it twice, and
\* an object with a global reference is not registered at all.
RegisteredOnce ==
  /\ \A i, j \in 1 .. top : locals[i] = locals[j] => i = j
  /\ \A i \in 1 .. top : locals[i] \in live \ globals

\* Blocks that are allocated and that no delete and no pop will free.
Leaked == live \ (globals \cup {locals[i] : i \in 1 .. top})

\* A local reference is freed by its delete or by the pop of its frame; a block
\* gets out of reach only when the array is full (jni_fake.c:69-76).
LeaksOnlyWhenFull == [][Leaked' \subseteq Leaked \/ top = MaxLocals]_vars

\* The marks are those of the engine's open frames: what is between two marks
\* is what the engine got in that frame, and a pop frees no more than that.
FramesMatch ==
  \A t \in Threads :
    /\ Len(frames) = Depth(t) - 1
    /\ \A d \in 1 .. Depth(t) : \A o \in scope[t][d] \ (globals \cup Leaked) :
         \E i \in (IF d = 1 THEN 1 ELSE frames[d - 1] + 1)
                    .. (IF d = Depth(t) THEN top ELSE frames[d]) : locals[i] = o

\* jni_fake.c, locals[] and frames[]: every entry is a live block that is no
\* global reference, once, and what lies between two marks is what the engine
\* got in that frame.
TableSound == TypeOK /\ RegisteredOnce /\ FramesMatch

=============================================================================
