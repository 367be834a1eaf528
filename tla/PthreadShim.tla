----------------------------- MODULE PthreadShim -----------------------------
(* imports.c, pthread: the engine was linked against bionic, whose mutexes,   *)
(* conditions and rwlocks are small words the engine owns.  The shim keeps in *)
(* such a word the address of a newlib object made at its first use: every    *)
(* call first looks at the word ("check"), makes an object and stores it if   *)
(* it holds a static initialiser ("store"), then reads the word again and     *)
(* works on what it finds ("go").  Nothing makes those steps atomic.          *)
EXTENDS Naturals, FiniteSets

CONSTANTS
  Threads,       \* the engine's threads
  Mutexes,       \* the words it uses as mutexes,
  RecursiveOnes, \*   those of them initialised as recursive,
  Conds,         \*   as conditions
  RwLocks,       \*   and as reader-writer locks
  MaxDepth,      \* how deep it nests a recursive one
  MaxGen,        \* how many objects one word has at a time
  LoneFirstUse,  \* the engine does not race on the first use of a lock
  None           \* no thread, no object

PthreadAssumption ==
  /\ RecursiveOnes \subseteq Mutexes
  /\ MaxDepth \in Nat \ {0}
  /\ LoneFirstUse \in BOOLEAN
  /\ MaxGen \in Nat \ {0}
  /\ Mutexes \cap RwLocks = {} /\ (Mutexes \cup RwLocks) \cap Conds = {}
  /\ None \notin Threads \cup Mutexes \cup RwLocks \cup Conds
  /\ None \notin (Mutexes \cup RwLocks \cup Conds) \X (1..MaxGen)

VARIABLES
  slot,    \* the words: a heap object, or the static initialiser (None)
  real,    \* the newlib objects: holder, depth, readers, whether recursive
  call,    \* the call each thread is in
  held     \* the locks each thread has been told it holds

vars == <<slot, real, call, held>>

Locks == Mutexes \cup RwLocks
LockWords == Locks \cup Conds
(* A newlib object is named by the word it was made for and its turn. *)
Objs == LockWords \X (1..MaxGen)
Idle == [op |-> "none", at |-> "idle", w |-> None, m |-> None, o |-> None]
NewObject(recursive) == [by |-> None, n |-> 0, rd |-> {}, rec |-> recursive]
Dead == NewObject(FALSE)

Init ==
  /\ slot = [w \in LockWords |-> None]
  /\ real = [o \in Objs |-> Dead]
  /\ call = [t \in Threads |-> Idle]
  /\ held = [t \in Threads |-> {}]

(* A heap address nobody refers to any more: what calloc may return. *)
Unused(w) ==
  { o \in {w} \X (1..MaxGen) :
              /\ slot[w] # o
              /\ \A t \in Threads : call[t].o # o
              /\ real[o] = Dead }

(* A thread enters a call of the shim. *)
Enter(t, op, w, m) ==
  /\ call[t] = Idle
  /\ call' = [call EXCEPT ![t] = [op |-> op, at |-> "check", w |-> w, m |-> m, o |-> None]]
  /\ UNCHANGED <<slot, real, held>>

UsedBy(u, w) == call[u].w = w \/ call[u].m = w

(* What the engine asks for.  It holds one lock at a time, takes no lock it *)
(* holds unless it is a recursive mutex, gives back what it holds, and waits *)
(* on a condition with a plain mutex held, as std::condition_variable does. *)
Depth(t, m) == IF m \in held[t] THEN real[slot[m]].n ELSE 0
Lock == \E t \in Threads, m \in Mutexes, op \in {"lock", "trylock", "timedlock"} :
          /\ held[t] \subseteq RecursiveOnes \cap {m} /\ Depth(t, m) < MaxDepth
          /\ LoneFirstUse /\ slot[m] = None => \A u \in Threads : ~UsedBy(u, m)
          /\ Enter(t, op, m, None)
Read == \E t \in Threads, r \in RwLocks, op \in {"rdlock", "wrlock"} :
          /\ held[t] = {}
          /\ LoneFirstUse /\ slot[r] = None => \A u \in Threads : ~UsedBy(u, r)
          /\ Enter(t, op, r, None)
Unlock(t) == \E w \in held[t] : Enter(t, "unlock", w, None)
Wait == \E t \in Threads, c \in Conds : \E m \in (held[t] \cap Mutexes) \ RecursiveOnes :
          Enter(t, "wait", c, m)
Signal == \E t \in Threads, c \in Conds, op \in {"signal", "broadcast"} : Enter(t, op, c, None)

(* ensure_mutex, ensure_cond, get_rwlock: a word below 0x10000 is a static   *)
(* initialiser and gets an object; anything else is one.                    *)
IsStaticAlways(w) == TRUE        \* mutant: every call makes an object
IsStatic(w) == slot[w] = None
Check(t) ==
  /\ call[t].at = "check"
  /\ \/ /\ ~IsStatic(call[t].w)
        /\ call' = [call EXCEPT ![t].at = "go"]
        /\ UNCHANGED real
     \/ /\ IsStatic(call[t].w)
        /\ Unused(call[t].w) # {}
        /\ LET o == CHOOSE u \in Unused(call[t].w) : TRUE IN
             /\ call' = [call EXCEPT ![t].at = "store", ![t].o = o]
             /\ real' = [real EXCEPT ![o] = NewObject(call[t].w \in RecursiveOnes)]
  /\ UNCHANGED <<slot, held>>

Store(t) ==
  /\ call[t].at = "store"
  /\ slot' = [slot EXCEPT ![call[t].w] = call[t].o]
  /\ call' = [call EXCEPT ![t].at = "go", ![t].o = None]
  /\ UNCHANGED <<real, held>>

Free(o, t) == real[o].by = None \/ (real[o].rec /\ real[o].by = t)
Taken(o, t) == [real EXCEPT ![o].by = t, ![o].n = @ + 1]
Given(o) == [real EXCEPT ![o].n = @ - 1, ![o].by = IF real[o].n = 1 THEN None ELSE @]
Return(t) == call' = [call EXCEPT ![t] = Idle]

(* pthread_mutex_lock, trylock and timedlock on the object the word names   *)
(* now; the lock that finds it taken waits for that object.                 *)
TryMutex(t) ==
  LET o == slot[call[t].w] IN
  /\ call[t].at = "go" /\ call[t].op \in {"lock", "trylock", "timedlock"}
  /\ \/ /\ Free(o, t)
        /\ real' = Taken(o, t)
        /\ held' = [held EXCEPT ![t] = @ \cup {call[t].w}]
        /\ Return(t)
     \/ /\ ~Free(o, t) /\ call[t].op = "lock"
        /\ call' = [call EXCEPT ![t].at = "block", ![t].o = o]
        /\ UNCHANGED <<real, held>>
     \/ ~Free(o, t) /\ call[t].op = "trylock" /\ Return(t) /\ UNCHANGED <<real, held>>
  /\ UNCHANGED <<slot>>
PollsEnd(t) ==           \* a thousand failed tries: ETIMEDOUT
  /\ call[t].at = "go" /\ call[t].op = "timedlock" /\ ~Free(slot[call[t].w], t)
  /\ Return(t) /\ UNCHANGED <<slot, real, held>>

(* A blocked lock, and a wait that takes its mutex again, get the object. *)
Acquire(t) ==
  LET o == call[t].o IN
  /\ call[t].at = "block" /\ Free(o, t)
  /\ real' = Taken(o, t)
  /\ held' = [held EXCEPT ![t] = @ \cup {IF call[t].op = "wait" THEN call[t].m ELSE call[t].w}]
  /\ Return(t)
  /\ UNCHANGED <<slot>>

UnlockMutex(t) ==
  /\ call[t].at = "go" /\ call[t].op = "unlock" /\ call[t].w \in Mutexes
  /\ real' = Given(slot[call[t].w])
  /\ held' = [held EXCEPT ![t] = IF real[slot[call[t].w]].n = 1 THEN @ \ {call[t].w} ELSE @]
  /\ Return(t)
  /\ UNCHANGED <<slot>>

(* pthread_rwlock_rdlock, wrlock and unlock. *)
RwLock(t) ==
  LET o == slot[call[t].w] IN
  /\ call[t].at = "go" /\ call[t].op \in {"rdlock", "wrlock"}
  /\ real[o].by = None
  /\ \/ call[t].op = "rdlock" /\ real' = [real EXCEPT ![o].rd = @ \cup {t}]
     \/ call[t].op = "wrlock" /\ real[o].rd = {} /\ real' = Taken(o, t)
  /\ held' = [held EXCEPT ![t] = @ \cup {call[t].w}]
  /\ Return(t)
  /\ UNCHANGED <<slot>>
RwUnlock(t) ==
  LET o == slot[call[t].w] IN
  /\ call[t].at = "go" /\ call[t].op = "unlock" /\ call[t].w \in RwLocks
  /\ \/ real[o].by = t /\ real' = Given(o)
     \/ real[o].by # t /\ real' = [real EXCEPT ![o].rd = @ \ {t}]
  /\ held' = [held EXCEPT ![t] = @ \ {call[t].w}]
  /\ Return(t)
  /\ UNCHANGED <<slot>>

(* pthread_cond_wait and timedwait give the mutex back and sleep on the     *)
(* object the condition's word names now.                                   *)
Sleep(t) ==
  LET o == slot[call[t].w] IN
  /\ call[t].at = "go" /\ call[t].op = "wait"
  /\ real' = Given(slot[call[t].m])
  /\ held' = [held EXCEPT ![t] = @ \ {call[t].m}]
  /\ call' = [call EXCEPT ![t].at = "sleep", ![t].o = o]
  /\ UNCHANGED <<slot>>

Awake(T) == call' = [t \in Threads |->
  IF t \in T THEN [call[t] EXCEPT !.at = "block", !.o = slot[call[t].m]] ELSE call[t]]

(* pthread_cond_signal wakes one sleeper of the object its word names now.  *)
Notify(t) ==
  LET sleepers == { u \in Threads : call[u].at = "sleep" /\ call[u].o = slot[call[t].w] } IN
  /\ call[t].at = "go" /\ call[t].op \in {"signal", "broadcast"}
  /\ \E woken \in {S \in SUBSET sleepers : IF call[t].op = "signal" /\ sleepers # {}
                                           THEN Cardinality(S) = 1 ELSE S = sleepers} :
       call' = [u \in Threads |->
                  IF u = t THEN Idle
                  ELSE IF u \in woken THEN [call[u] EXCEPT !.at = "block", !.o = slot[call[u].m]]
                  ELSE call[u]]
  /\ UNCHANGED <<slot, real, held>>

CapNever(t) == FALSE /\ UNCHANGED vars     \* mutant of CapFires: no cap
(* COND_WAIT_CAP_MS: no wait lasts longer than 16 ms. *)
CapFires(t) ==
  /\ call[t].at = "sleep"
  /\ Awake({t})
  /\ UNCHANGED <<slot, real, held>>

(* pthread_*_destroy of a word in no use makes it a static initialiser.     *)
Destroy ==
  \E w \in Mutexes \cup Conds :
    /\ slot[w] # None
    /\ \A u \in Threads : ~UsedBy(u, w) /\ w \notin held[u]
    /\ real' = [real EXCEPT ![slot[w]] = Dead]
    /\ slot' = [slot EXCEPT ![w] = None]
    /\ UNCHANGED <<call, held>>

Step(t) == \/ Check(t) \/ Store(t) \/ TryMutex(t) \/ PollsEnd(t) \/ Acquire(t)
           \/ UnlockMutex(t) \/ RwLock(t) \/ RwUnlock(t) \/ Sleep(t) \/ Notify(t)

Next == \/ Lock \/ Read \/ Wait \/ Signal \/ Destroy
        \/ \E t \in Threads : \/ Unlock(t) \/ Step(t) \/ CapFires(t)

Spec == Init /\ [][Next]_vars

(* Running threads take their steps, the clock goes on, and a thread that   *)
(* holds a lock or waits for one, again and again, gives it back or gets it: *)
(* newlib's locks do not starve a waiter for ever.                           *)
Runs(t) == CapFires(t) \/ Step(t)
Moves(t) == Unlock(t) \/ Acquire(t)
Fairness == \A t \in Threads : WF_vars(Runs(t)) /\ SF_vars(Moves(t))

TypeOK ==
  /\ slot \in [LockWords -> Objs \cup {None}]
  /\ real \in [Objs -> [by : Threads \cup {None}, n : 0..MaxDepth, rd : SUBSET Threads, rec : BOOLEAN]]
  /\ held \in [Threads -> SUBSET Locks]

(* No two threads are told they hold one lock, but for readers.              *)
Excludes ==
  \A t, u \in Threads : t # u =>
    \A w \in held[t] \cap held[u] :
      w \in RwLocks /\ {t, u} \subseteq real[slot[w]].rd

(* A thread that waits on a condition comes back with its mutex, also when   *)
(* the signaller worked on another object, or signalled before it slept, and *)
(* although nobody signals at all.                                           *)
WaitersReturn == \A t \in Threads :
  call[t].op = "wait" ~> call[t] = Idle
=============================================================================
