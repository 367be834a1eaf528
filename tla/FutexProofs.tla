----------------------------- MODULE FutexProofs -----------------------------
(***************************************************************************)
(* Theorems about Futex, for any threads, words, buckets and hash.         *)
(*                                                                         *)
(* TypeOK, which ties each bucket's mutex to the thread in its critical    *)
(* section, is inductive by itself; NoWakeLost is inductive given TypeOK,  *)
(* and the refinement needs TypeOK only.                                   *)
(*                                                                         *)
(* Beside it the pthread shim, for any threads, mutexes, conditions and    *)
(* rwlocks, when a lock's first use is one thread's (LoneFirstUse), and    *)
(* the semaphore of the collector's stop-the-world.                        *)
(***************************************************************************)
EXTENDS MCFutex, TLAPS

LEMMA CallsNonempty == NoCall \in Calls
<1>1. PICK u \in Words, v \in Vals : TRUE
  BY FutexAssumption
<1>2. [word |-> u, val |-> v] \in Calls
  BY DEF Calls
<1> QED
  BY <1>2 DEF NoCall

LEMMA TypeInit == Init => TypeOK
<1> SUFFICES ASSUME Init PROVE TypeOK
  OBVIOUS
<1>1. call \in [Threads -> Calls]
  BY CallsNonempty DEF Init
<1>2. \A t \in Threads : Lock(t) \in Buckets
  BY <1>1, FutexAssumption DEF Lock, Calls
<1> QED
  BY <1>1, <1>2, FutexAssumption DEF Init, TypeOK, PC, InLock

LEMMA TypeStep == TypeOK /\ [Next]_vars => TypeOK'
<1> SUFFICES ASSUME TypeOK, [Next]_vars PROVE TypeOK'
  OBVIOUS
<1> USE FutexAssumption
<1>0. \A t \in Threads : Lock(t) \in Buckets
  BY DEF TypeOK, Lock, Calls
<1>1. ASSUME NEW t \in Threads, NEW u \in Words, NEW v \in Vals, WaitCall(t, u, v)
      PROVE  TypeOK'
  BY <1>0, <1>1 DEF TypeOK, WaitCall, At, Goto, Lock, Calls, PC, InLock
<1>2. ASSUME NEW t \in Threads, NEW u \in Words, NEW v \in Vals, StoreAndWake(t, u, v)
      PROVE  TypeOK'
  BY <1>0, <1>2 DEF TypeOK, StoreAndWake, At, Goto, Lock, Calls, PC, InLock
<1>3. ASSUME NEW t \in Threads, LockWait(t) PROVE TypeOK'
  BY <1>0, <1>3 DEF TypeOK, LockWait, Acquire, At, Goto, Lock, PC, InLock
<1>4. ASSUME NEW t \in Threads, Compare(t) PROVE TypeOK'
  BY <1>0, <1>4 DEF TypeOK, Compare, At, Goto, Lock, PC, InLock
<1>5. ASSUME NEW t \in Threads, Sleep(t) PROVE TypeOK'
  BY <1>0, <1>5 DEF TypeOK, Sleep, Release, At, Goto, Lock, PC, InLock
<1>6. ASSUME NEW t \in Threads, TimeUp(t) PROVE TypeOK'
  BY <1>0, <1>6 DEF TypeOK, TimeUp, At, Goto, Lock, PC, InLock
<1>7. ASSUME NEW t \in Threads, Relock(t) PROVE TypeOK'
  BY <1>0, <1>7 DEF TypeOK, Relock, Acquire, At, Goto, Lock, PC, InLock
<1>8. ASSUME NEW t \in Threads, Unlock(t) PROVE TypeOK'
  BY <1>0, <1>8, CallsNonempty DEF TypeOK, Unlock, Release, At, Goto, Lock, Calls, PC, InLock
<1>9. ASSUME NEW t \in Threads, LockWake(t) PROVE TypeOK'
  BY <1>0, <1>9 DEF TypeOK, LockWake, Acquire, At, Goto, Lock, PC, InLock
<1>10. ASSUME NEW t \in Threads, WakeAll(t) PROVE TypeOK'
  BY <1>0, <1>10 DEF TypeOK, WakeAll, At, Lock, PC, InLock
<1>11. CASE UNCHANGED vars
  BY <1>11 DEF TypeOK, vars, Lock
<1> QED
  BY <1>1, <1>2, <1>3, <1>4, <1>5, <1>6, <1>7, <1>8, <1>9, <1>10, <1>11 DEF Next, Step

-----------------------------------------------------------------------------

LEMMA NoWakeInit == Init => NoWakeLost
BY DEF Init, NoWakeLost

LEMMA NoWakeStep == TypeOK /\ NoWakeLost /\ [Next]_vars => NoWakeLost'
<1> SUFFICES ASSUME TypeOK, NoWakeLost, [Next]_vars PROVE NoWakeLost'
  OBVIOUS
<1> USE FutexAssumption
<1>1. ASSUME NEW t \in Threads, NEW u \in Words, NEW v \in Vals, WaitCall(t, u, v)
      PROVE  NoWakeLost'
  BY <1>1 DEF TypeOK, NoWakeLost, WaitCall, At, Goto, Calls
<1>2. ASSUME NEW t \in Threads, NEW u \in Words, NEW v \in Vals, StoreAndWake(t, u, v)
      PROVE  NoWakeLost'
  BY <1>2 DEF TypeOK, NoWakeLost, StoreAndWake, At, Goto, Calls
<1>3. ASSUME NEW t \in Threads, LockWait(t) \/ Relock(t) PROVE NoWakeLost'
  BY <1>3 DEF TypeOK, NoWakeLost, LockWait, Relock, At, Goto, Calls
<1>4. ASSUME NEW t \in Threads, Compare(t) PROVE NoWakeLost'
  BY <1>4 DEF TypeOK, NoWakeLost, Compare, At, Goto, Calls
<1>5. ASSUME NEW t \in Threads, Sleep(t) \/ TimeUp(t) PROVE NoWakeLost'
  BY <1>5 DEF TypeOK, NoWakeLost, Sleep, TimeUp, At, Goto, Calls
<1>6. ASSUME NEW t \in Threads, Unlock(t) PROVE NoWakeLost'
  BY <1>6 DEF TypeOK, NoWakeLost, Unlock, At, Goto, Calls
<1>7. ASSUME NEW t \in Threads, LockWake(t) PROVE NoWakeLost'
  BY <1>7 DEF TypeOK, NoWakeLost, LockWake, At, Goto, Calls
<1>8. ASSUME NEW t \in Threads, WakeAll(t) PROVE NoWakeLost'
  \* Nobody is between its compare and its sleep while t has the mutex.
  <2> SUFFICES ASSUME NEW r \in Threads, pc'[r] \in {"sleep", "asleep"},
                      word'[call'[r].word] # call'[r].val
               PROVE  \E s \in Threads : /\ pc'[s] \in {"wake", "wakeAll"}
                                         /\ call'[s].word = call'[r].word
    BY DEF NoWakeLost
  <2>1. r # t /\ pc[r] = pc'[r] /\ Lock(r) # Lock(t)
    BY <1>8 DEF WakeAll, TypeOK, At, InLock
  <2>2. PICK s \in Threads : /\ pc[s] \in {"wake", "wakeAll"}
                             /\ call[s].word = call[r].word
    BY <1>8, <2>1 DEF WakeAll, NoWakeLost
  <2>3. s # t
    BY <2>1, <2>2 DEF Lock
  <2> QED
    BY <1>8, <2>2, <2>3 DEF WakeAll, TypeOK, At
<1>9. CASE UNCHANGED vars
  BY <1>9 DEF NoWakeLost, vars
<1> QED
  BY <1>1, <1>2, <1>3, <1>4, <1>5, <1>6, <1>7, <1>8, <1>9 DEF Next, Step

-----------------------------------------------------------------------------

\* In every behaviour each bucket's mutex has at most the one holder that is in
\* its critical section, and all values are of their types.
THEOREM FutexTypeCorrect == Spec => []TypeOK
<1> QED
  BY TypeInit, TypeStep, PTL DEF Spec

\* No thread sleeps in FUTEX_WAIT on a value that is gone, unless its wake is
\* still on the way: the 16 ms cap is never needed against futex_impl itself.
THEOREM FutexNoWakeLost == Spec => []NoWakeLost
<1> QED
  BY NoWakeInit, NoWakeStep, FutexTypeCorrect, PTL DEF Spec

-----------------------------------------------------------------------------

Blocked == [t \in Threads |-> IF pc[t] \in {"sleep", "asleep"}
                                THEN <<call[t].word, call[t].val>> ELSE None]
Waking  == [t \in Threads |-> IF pc[t] \in {"wake", "wakeAll"} THEN call[t].word ELSE None]

\* None is neither a word nor a wait.
LEMMA NoneApart ==
  ASSUME TypeOK, NEW t \in Threads
  PROVE  None # call[t].word /\ None # <<call[t].word, call[t].val>>
<1>1. call[t].word \in Words /\ call[t].val \in Vals
  BY DEF TypeOK, Calls
<1>2. <<call[t].word, call[t].val>> \in Words \X Vals
  BY <1>1
<1> QED
  BY <1>1, <1>2, FutexAssumption

LEMMA KernelInit == Init => Kernel!Init
BY DEF Init, Kernel!Init

\* Steps that no caller can tell apart: nobody blocks, wakes up or stores.
LEMMA KernelStutter ==
  ASSUME TypeOK, NEW t \in Threads,
         LockWait(t) \/ Relock(t) \/ Sleep(t) \/ Unlock(t) \/ LockWake(t)
  PROVE  UNCHANGED <<word, Blocked, Waking>>
<1>1. UNCHANGED word
  BY DEF LockWait, Relock, Sleep, Unlock, LockWake
<1>2. UNCHANGED Blocked
  BY DEF TypeOK, LockWait, Relock, Sleep, Unlock, LockWake, At, Goto, Blocked
<1>3. UNCHANGED Waking
  BY DEF TypeOK, LockWait, Relock, Sleep, Unlock, LockWake, At, Goto, Waking
<1> QED
  BY <1>1, <1>2, <1>3

LEMMA KernelStep == TypeOK /\ [Next]_vars => [Kernel!Next]_<<word, Blocked, Waking>>
<1> SUFFICES ASSUME TypeOK, [Next]_vars PROVE [Kernel!Next]_<<word, Blocked, Waking>>
  OBVIOUS
<1> USE FutexAssumption
<1> USE DEF Blocked, Waking
<1>1. ASSUME NEW t \in Threads, NEW u \in Words, NEW v \in Vals, WaitCall(t, u, v)
      PROVE  UNCHANGED <<word, Blocked, Waking>>
  BY <1>1 DEF TypeOK, WaitCall, At, Goto
<1>2. ASSUME NEW t \in Threads, NEW u \in Words, NEW v \in Vals, StoreAndWake(t, u, v)
      PROVE  Kernel!StoreAndWake(t, u, v)
  BY <1>2 DEF TypeOK, StoreAndWake, At, Goto, Calls, Kernel!StoreAndWake, Kernel!Store
<1>3. ASSUME NEW t \in Threads, NEW u \in Words, NEW v \in Vals, Compare(t),
             u = call[t].word, v = call[t].val, word[u] = v
      PROVE  Kernel!Wait(t, u, v)
  <2>1. pc' = [pc EXCEPT ![t] = "sleep"] /\ pc[t] = "compare" /\ UNCHANGED <<word, call>>
    BY <1>3 DEF Compare, At, Goto
  <2>2. Blocked[t] = None /\ UNCHANGED Waking
    BY <2>1 DEF TypeOK
  <2>3. Blocked' = [Blocked EXCEPT ![t] = <<u, v>>]
    BY <1>3, <2>1 DEF TypeOK
  <2>4. word[u] = v /\ UNCHANGED <<word, Waking>>
    BY <1>3, <2>1, <2>2
  <2> HIDE DEF Blocked, Waking
  <2> QED
    BY <2>2, <2>3, <2>4 DEF Kernel!Wait, Blocked, Waking
<1>4. ASSUME NEW t \in Threads, Compare(t), word[call[t].word] # call[t].val
      PROVE  UNCHANGED <<word, Blocked, Waking>>
  BY <1>4 DEF TypeOK, Compare, At, Goto
<1>5. ASSUME NEW t \in Threads, TimeUp(t)
      PROVE  Kernel!Spurious(t)
  <2>1. Blocked[t] # None
    BY <1>5, NoneApart DEF TimeUp, At
  <2>2. Blocked' = [Blocked EXCEPT ![t] = None] /\ UNCHANGED <<word, Waking>>
    BY <1>5 DEF TimeUp, At, Goto, TypeOK
  <2> QED
    BY <2>1, <2>2 DEF Kernel!Spurious
<1>6. ASSUME NEW t \in Threads, WakeAll(t)
      PROVE  Kernel!Wake(t)
  <2> DEFINE S == {r \in Threads : At(r, "asleep") /\ Lock(r) = Lock(t)}
  <2>1. S \in SUBSET {r \in Threads : Blocked[r] # None}
    BY DEF TypeOK, At, Calls
  <2>2. \A r \in Threads, v \in Vals : Blocked[r] = <<Waking[t], v>> => r \in S
    <3> SUFFICES ASSUME NEW r \in Threads, NEW v \in Vals, Blocked[r] = <<Waking[t], v>>
                 PROVE  r \in S
      OBVIOUS
    <3>1. Waking[t] = call[t].word /\ call[t].word \in Words
      BY <1>6 DEF WakeAll, At, TypeOK, Calls
    <3>2. pc[r] \in {"sleep", "asleep"} /\ call[r].word = call[t].word
      BY <3>1
    <3>3. pc[r] # "sleep"
      BY <1>6, <3>2 DEF WakeAll, At, TypeOK, InLock, Lock
    <3> QED
      BY <3>2, <3>3 DEF At, Lock
  <2>3. Blocked' = [r \in Threads |-> IF r \in S THEN None ELSE Blocked[r]]
    BY <1>6 DEF WakeAll, At, TypeOK
  <2>4. Waking[t] # None
    BY <1>6, NoneApart DEF WakeAll, At
  <2>5. Waking' = [Waking EXCEPT ![t] = None]
    BY <1>6 DEF WakeAll, At, TypeOK
  <2>6. UNCHANGED word
    BY <1>6 DEF WakeAll
  <2> HIDE DEF S, Blocked, Waking
  <2> QED
    BY <2>1, <2>2, <2>3, <2>4, <2>5, <2>6 DEF Kernel!Wake, Blocked, Waking
<1>7. CASE UNCHANGED vars
  BY <1>7 DEF vars
<1>8. \A t \in Threads, u \in Words, v \in Vals : Kernel!StoreAndWake(t, u, v) => Kernel!Next
  BY DEF Kernel!Next
<1>9. \A t \in Threads, u \in Words, v \in Vals : Kernel!Wait(t, u, v) => Kernel!Next
  BY DEF Kernel!Next
<1>10. \A t \in Threads : call[t].word \in Words /\ call[t].val \in Vals
  BY DEF TypeOK, Calls
<1>11. \A t \in Threads : Kernel!Spurious(t) \/ Kernel!Wake(t) => Kernel!Next
  BY DEF Kernel!Next
<1> HIDE DEF Blocked, Waking
<1>12. ASSUME NEW t \in Threads, Compare(t) PROVE [Kernel!Next]_<<word, Blocked, Waking>>
  <2>1. CASE word[call[t].word] = call[t].val
    <3>1. PICK u \in Words, v \in Vals : u = call[t].word /\ v = call[t].val
      BY <1>10
    <3> QED BY <1>12, <1>3, <1>9, <2>1, <3>1
  <2>2. CASE word[call[t].word] # call[t].val
    BY <1>12, <1>4, <2>2
  <2> QED BY <2>1, <2>2
<1>13. ASSUME NEW t \in Threads, Step(t) PROVE [Kernel!Next]_<<word, Blocked, Waking>>
  <2>1. CASE LockWait(t) \/ Relock(t) \/ Sleep(t) \/ Unlock(t) \/ LockWake(t)
    BY <2>1, KernelStutter
  <2>2. CASE TimeUp(t) \/ WakeAll(t)
    BY <2>2, <1>5, <1>6, <1>11
  <2> QED BY <1>12, <1>13, <2>1, <2>2 DEF Step
<1> QED
  BY <1>1, <1>2, <1>7, <1>8, <1>13 DEF Next

\* futex_impl is a futex: a wait blocks only on the value it expects, compared
\* and blocked in one step, and a wake leaves nobody blocked on its word.
THEOREM FutexIsKernelFutex == Spec => ImplementsFutex
<1>1. Init => Kernel!Init
  BY KernelInit
<1>2. TypeOK /\ [Next]_vars => [Kernel!Next]_<<word, Blocked, Waking>>
  BY KernelStep
<1> QED
  BY <1>1, <1>2, FutexTypeCorrect, PTL DEF Spec, ImplementsFutex, Kernel!Spec, Blocked, Waking


-----------------------------------------------------------------------------
(* The pthread shim: the invariant.                                        *)

TakeOps == {"lock", "trylock", "timedlock"}
RwOps   == {"rdlock", "wrlock"}
TellOps == {"signal", "broadcast"}
CallOf  == [op : TakeOps \cup RwOps \cup TellOps \cup {"none", "unlock", "wait"},
            at : {"idle", "check", "store", "go", "block", "sleep"},
            w  : Shim!LockWords \cup {None}, m : Mutexes \cup {None}, o : Shim!Objs \cup {None}]

\* A word names an object that was made for it, and no other word does.
WordsSound ==
  /\ slot \in [Shim!LockWords -> Shim!Objs \cup {None}]
  /\ \A w \in Shim!LockWords : slot[w] # None => slot[w] \in {w} \X (1 .. MaxGen)
  /\ real \in [Shim!Objs -> [by : Users \cup {None}, n : 0 .. MaxDepth,
                             rd : SUBSET Users, rec : BOOLEAN]]

\* A thread holds a lock just when the object the word names says so.
HoldersSound ==
  /\ held \in [Users -> SUBSET Shim!Locks]
  /\ \A t \in Users : \A w \in held[t] : slot[w] # None
  /\ \A w \in Mutexes : slot[w] # None =>
       /\ \A t \in Users : w \in held[t] <=> real[slot[w]].by = t
       /\ real[slot[w]].by = None <=> real[slot[w]].n = 0
       /\ w \notin RecursiveOnes => real[slot[w]].n <= 1
  /\ \A w \in RwLocks : slot[w] # None =>
       /\ \A t \in Users : w \in held[t] <=> real[slot[w]].by = t \/ t \in real[slot[w]].rd
       /\ IF real[slot[w]].by = None THEN real[slot[w]].n = 0
          ELSE real[slot[w]].n = 1 /\ real[slot[w]].rd = {}

\* What the thread of a call holds, and what it waits for.
AskSound(t) ==
  /\ pcall[t].op \in TakeOps =>
       /\ pcall[t].w \in Mutexes /\ pcall[t].m = None
       /\ pcall[t].w \in held[t] =>
            pcall[t].w \in RecursiveOnes /\ real[slot[pcall[t].w]].n < MaxDepth
  /\ pcall[t].op \in RwOps => pcall[t].w \in RwLocks \ held[t] /\ pcall[t].m = None
  /\ pcall[t].op = "unlock" => pcall[t].w \in held[t] /\ pcall[t].m = None
  /\ pcall[t].op \in TellOps => pcall[t].w \in Conds /\ pcall[t].m = None
  /\ pcall[t].op = "wait" =>
       /\ pcall[t].w \in Conds /\ pcall[t].m \in Mutexes \ RecursiveOnes
       /\ slot[pcall[t].m] # None
       /\ pcall[t].m \in held[t] <=> pcall[t].at \in {"check", "store", "go"}

Alone(t) == \A u \in Users \ {t} : ~ Shim!UsedBy(u, pcall[t].w)

\* Where the call is: the word it found static is its own until it has stored an
\* object there, and an object it waits for is the one the word still names.
PlaceSound(t) ==
  /\ pcall[t].at \in {"check", "store", "go", "block", "sleep"} /\ pcall[t].op # "none"
  /\ pcall[t].at = "go" => slot[pcall[t].w] # None
  /\ pcall[t].at = "sleep" => pcall[t].op = "wait"
  /\ pcall[t].at = "block" => /\ pcall[t].op \in {"lock", "wait"}
                              /\ pcall[t].op = "lock" => pcall[t].o = slot[pcall[t].w]
                              /\ pcall[t].op = "wait" => pcall[t].o = slot[pcall[t].m]
                              /\ pcall[t].o # None
  /\ pcall[t].at = "store" =>
       /\ pcall[t].o \in {pcall[t].w} \X (1 .. MaxGen)
       /\ pcall[t].w \in Shim!Locks =>
            /\ slot[pcall[t].w] = None /\ real[pcall[t].o].by = None
            /\ real[pcall[t].o].n = 0 /\ real[pcall[t].o].rd = {}
  /\ pcall[t].w \in Shim!Locks /\ slot[pcall[t].w] = None => Alone(t)

CallsSound ==
  /\ pcall \in [Users -> CallOf]
  /\ \A t \in Users : pcall[t] = Shim!Idle \/ (AskSound(t) /\ PlaceSound(t))

ShimInv == WordsSound /\ HoldersSound /\ CallsSound

-----------------------------------------------------------------------------
(* What the steps of the shim leave as it was.                             *)

\* The words are apart, and None is none of them.
LEMMA WordsApart ==
  /\ Shim!Locks \subseteq Shim!LockWords /\ Conds \subseteq Shim!LockWords
  /\ Mutexes \subseteq Shim!Locks /\ RwLocks \subseteq Shim!Locks
  /\ Mutexes \cap RwLocks = {} /\ Shim!Locks \cap Conds = {} /\ RecursiveOnes \subseteq Mutexes
  /\ None \notin Shim!LockWords /\ None \notin Users /\ None \notin Shim!Objs
  /\ MaxDepth \in Nat \ {0}
BY ShimAssumption DEF Shim!PthreadAssumption, Shim!Locks, Shim!LockWords, Shim!Objs

\* An object is of one word.
LEMMA OneWord ==
  ASSUME NEW v \in Shim!LockWords, NEW w \in Shim!LockWords, NEW o \in {v} \X (1 .. MaxGen),
         NEW p \in {w} \X (1 .. MaxGen), o = p
  PROVE  v = w
OBVIOUS

\* A call stays sound while another thread steps: its own words name what they
\* named, a mutex it holds keeps its count, an object it has made is not used, and
\* nobody comes to use what it uses alone.
LEMMA CallKept ==
  ASSUME ShimInv, NEW u \in Users, pcall[u] # Shim!Idle, pcall'[u] = pcall[u], held'[u] = held[u],
         slot'[pcall[u].w] = slot[pcall[u].w] \/ (pcall[u].w \in Conds /\ slot'[pcall[u].w] # None),
         pcall[u].op = "wait" => slot'[pcall[u].m] = slot[pcall[u].m],
         pcall[u].w \in held[u] /\ pcall[u].w \in Mutexes =>
           real'[slot[pcall[u].w]] = real[slot[pcall[u].w]],
         pcall[u].at = "store" => real'[pcall[u].o] = real[pcall[u].o],
         pcall[u].w \in Shim!Locks /\ slot[pcall[u].w] = None =>
           \A v \in Users \ {u} : ~ Shim!UsedBy(v, pcall[u].w)'
  PROVE  AskSound(u)' /\ PlaceSound(u)'
<1>1. AskSound(u) /\ PlaceSound(u)
  BY DEF ShimInv, CallsSound
<1>2. Mutexes \cap Conds = {} /\ RwLocks \cap Conds = {} /\ Shim!Locks \cap Conds = {}
  BY WordsApart
<1>3. AskSound(u)'
  BY <1>1, <1>2 DEF AskSound, TakeOps, RwOps, TellOps
<1>4. PlaceSound(u)'
  BY <1>1, <1>2 DEF PlaceSound, AskSound, Alone, TakeOps
<1> QED BY <1>3, <1>4

-----------------------------------------------------------------------------
(* A thread enters a call.                                                 *)

\* A call begins soundly when the engine may ask for it, and a lock that has no
\* object yet is asked for by one thread alone.
LEMMA EnterStep ==
  ASSUME ShimInv, NEW t \in Users,
         NEW op \in TakeOps \cup RwOps \cup TellOps \cup {"unlock", "wait"},
         NEW w \in Shim!LockWords, NEW m \in Mutexes \cup {None},
         Shim!Enter(t, op, w, m),
         AskSound(t)', m # None => slot[m] # None,
         w \in Shim!Locks /\ slot[w] = None => \A u \in Users : ~ Shim!UsedBy(u, w)
  PROVE  ShimInv'
<1>1. /\ pcall[t] = Shim!Idle /\ UNCHANGED <<slot, real, held>>
      /\ pcall' = [pcall EXCEPT ![t] = [op |-> op, at |-> "check", w |-> w, m |-> m, o |-> None]]
  BY DEF Shim!Enter
<1>2. WordsSound' /\ HoldersSound'
  BY <1>1 DEF ShimInv, WordsSound, HoldersSound
<1>3. /\ pcall \in [Users -> CallOf]
      /\ pcall'[t] = [op |-> op, at |-> "check", w |-> w, m |-> m, o |-> None]
      /\ \A u \in Users \ {t} : pcall'[u] = pcall[u]
  BY <1>1 DEF ShimInv, CallsSound
<1>4. pcall' \in [Users -> CallOf]
  <2>1. [op |-> op, at |-> "check", w |-> w, m |-> m, o |-> None] \in CallOf
    BY DEF CallOf
  <2> QED BY <1>1, <1>3, <2>1
<1>5. PlaceSound(t)'
  <2>1. w \in Shim!Locks /\ slot[w] = None => \A u \in Users \ {t} : ~ Shim!UsedBy(u, w)'
    BY <1>3 DEF Shim!UsedBy
  <2> QED BY <1>1, <1>3, <2>1 DEF PlaceSound, Alone, TakeOps, RwOps, TellOps
<1>6. ASSUME NEW u \in Users \ {t}
      PROVE  pcall'[u] = Shim!Idle \/ (AskSound(u)' /\ PlaceSound(u)')
  <2>1. CASE pcall[u] = Shim!Idle
    BY <1>3, <2>1
  <2>2. CASE pcall[u] # Shim!Idle
    <3>1. ASSUME pcall[u].w \in Shim!Locks, slot[pcall[u].w] = None, NEW v \in Users \ {u}
          PROVE  ~ Shim!UsedBy(v, pcall[u].w)'
      <4>1. ~ Shim!UsedBy(v, pcall[u].w)
        BY <2>2, <3>1 DEF ShimInv, CallsSound, PlaceSound, Alone
      <4>2. pcall[u].w # w /\ pcall[u].w # m
        BY <3>1, WordsApart DEF Shim!UsedBy
      <4> QED BY <1>3, <4>1, <4>2 DEF Shim!UsedBy
    <3> QED BY <1>1, <1>3, <2>2, <3>1, CallKept
  <2> QED BY <2>1, <2>2
<1> QED BY <1>2, <1>4, <1>3, <1>5, <1>6 DEF ShimInv, CallsSound

\* The engine locks a mutex, an rwlock, gives one back, waits and signals.
LEMMA AskStep ==
  ASSUME ShimInv,
         Shim!Lock \/ Shim!Read \/ Shim!Wait \/ Shim!Signal \/ \E t \in Users : Shim!Unlock(t)
  PROVE  ShimInv'
<1>1. CASE Shim!Lock
  <2>1. PICK t \in Users, w \in Mutexes, op \in TakeOps :
          /\ held[t] \subseteq RecursiveOnes \cap {w} /\ Shim!Depth(t, w) < MaxDepth
          /\ slot[w] = None => \A u \in Users : ~ Shim!UsedBy(u, w)
          /\ Shim!Enter(t, op, w, None)
    BY <1>1 DEF Shim!Lock, TakeOps
  <2>2. AskSound(t)'
    BY <2>1 DEF AskSound, Shim!Enter, Shim!Depth, TakeOps, RwOps, TellOps, ShimInv, CallsSound
  <2> QED BY <2>1, <2>2, EnterStep, WordsApart
<1>2. CASE Shim!Read
  <2>1. PICK t \in Users, w \in RwLocks, op \in RwOps :
          /\ held[t] = {}
          /\ slot[w] = None => \A u \in Users : ~ Shim!UsedBy(u, w)
          /\ Shim!Enter(t, op, w, None)
    BY <1>2 DEF Shim!Read, RwOps
  <2>2. AskSound(t)'
    BY <2>1 DEF AskSound, Shim!Enter, TakeOps, RwOps, TellOps, ShimInv, CallsSound
  <2> QED BY <2>1, <2>2, EnterStep, WordsApart
<1>3. CASE Shim!Wait
  <2>1. PICK t \in Users, c \in Conds : \E m \in (held[t] \cap Mutexes) \ RecursiveOnes :
          Shim!Enter(t, "wait", c, m)
    BY <1>3 DEF Shim!Wait
  <2>2. PICK m \in (held[t] \cap Mutexes) \ RecursiveOnes : Shim!Enter(t, "wait", c, m)
    BY <2>1
  <2>3. slot[m] # None
    BY DEF ShimInv, HoldersSound
  <2>4. AskSound(t)'
    BY <2>2, <2>3 DEF AskSound, Shim!Enter, TakeOps, RwOps, TellOps, ShimInv, CallsSound
  <2> QED BY <2>2, <2>3, <2>4, EnterStep, WordsApart
<1>4. CASE Shim!Signal
  <2>1. PICK t \in Users, c \in Conds, op \in TellOps : Shim!Enter(t, op, c, None)
    BY <1>4 DEF Shim!Signal, TellOps
  <2>2. AskSound(t)'
    BY <2>1 DEF AskSound, Shim!Enter, TakeOps, RwOps, TellOps, ShimInv, CallsSound
  <2> QED BY <2>1, <2>2, EnterStep, WordsApart
<1>5. ASSUME NEW t \in Users, Shim!Unlock(t)
      PROVE  ShimInv'
  <2>1. PICK w \in held[t] : Shim!Enter(t, "unlock", w, None)
    BY <1>5 DEF Shim!Unlock
  <2>2. w \in Shim!Locks /\ slot[w] # None
    BY DEF ShimInv, HoldersSound
  <2>3. AskSound(t)'
    BY <2>1 DEF AskSound, Shim!Enter, TakeOps, RwOps, TellOps, ShimInv, CallsSound
  <2> QED BY <2>1, <2>2, <2>3, EnterStep, WordsApart
<1> QED BY <1>1, <1>2, <1>3, <1>4, <1>5

-----------------------------------------------------------------------------
(* A word gets its object.                                                 *)

\* When only one call changes and no word and no count does, the others stay sound.
LEMMA OthersKept ==
  ASSUME ShimInv, NEW t \in Users, UNCHANGED <<slot, held>>,
         \A u \in Users \ {t} : pcall'[u] = pcall[u],
         pcall'[t].w \in {pcall[t].w, None}, pcall'[t].m \in {pcall[t].m, None},
         \A u \in Users \ {t} : pcall[u].at = "store" => real'[pcall[u].o] = real[pcall[u].o],
         \A w \in Mutexes : slot[w] # None => real'[slot[w]] = real[slot[w]],
         NEW u \in Users \ {t}
  PROVE  pcall'[u] = Shim!Idle \/ (AskSound(u)' /\ PlaceSound(u)')
<1>1. CASE pcall[u] = Shim!Idle
  BY <1>1
<1>2. CASE pcall[u] # Shim!Idle
  <2>1. ASSUME pcall[u].w \in Shim!Locks, slot[pcall[u].w] = None, NEW v \in Users \ {u}
        PROVE  ~ Shim!UsedBy(v, pcall[u].w)'
    <3>1. ~ Shim!UsedBy(v, pcall[u].w)
      BY <1>2, <2>1 DEF ShimInv, CallsSound, PlaceSound, Alone
    <3>2. pcall[u].w # None
      BY <2>1, WordsApart
    <3> QED BY <3>1, <3>2 DEF Shim!UsedBy
  <2>2. pcall[u].w \in held[u] => slot[pcall[u].w] # None
    BY DEF ShimInv, HoldersSound
  <2> QED BY <1>2, <2>1, <2>2, CallKept
<1> QED BY <1>1, <1>2

\* A call is about a word.
LEMMA CallTyped ==
  ASSUME ShimInv, NEW t \in Users, pcall[t] # Shim!Idle
  PROVE  /\ pcall \in [Users -> CallOf] /\ pcall[t] \in CallOf /\ pcall[t].w \in Shim!LockWords
         /\ AskSound(t) /\ PlaceSound(t)
<1>1. pcall \in [Users -> CallOf] /\ AskSound(t) /\ PlaceSound(t)
  BY DEF ShimInv, CallsSound
<1>2. pcall[t].op \in TakeOps \cup RwOps \cup TellOps \cup {"none", "unlock", "wait"}
  BY <1>1 DEF CallOf
<1>3. held[t] \subseteq Shim!Locks
  BY DEF ShimInv, HoldersSound
<1> QED BY <1>1, <1>2, <1>3, WordsApart DEF AskSound, PlaceSound

\* An object that a call has made is one of its word.
LEMMA MadeForWord ==
  ASSUME ShimInv, NEW t \in Users, pcall[t].at = "store"
  PROVE  pcall[t].o \in {pcall[t].w} \X (1 .. MaxGen) /\ pcall[t].o \in Shim!Objs
<1>1. pcall[t] # Shim!Idle
  BY DEF Shim!Idle
<1>2. PlaceSound(t) /\ pcall[t].w \in Shim!LockWords
  BY <1>1, CallTyped
<1>3. pcall[t].o \in {pcall[t].w} \X (1 .. MaxGen)
  BY <1>2 DEF PlaceSound
<1> QED BY <1>2, <1>3 DEF Shim!Objs

\* A word that is looked at: a static one gets an object that nobody knows yet.
LEMMA CheckStep ==
  ASSUME ShimInv, NEW t \in Users, Shim!Check(t)
  PROVE  ShimInv'
<1>1. /\ pcall[t].at = "check" /\ UNCHANGED <<slot, held>> /\ pcall \in [Users -> CallOf]
      /\ AskSound(t) /\ PlaceSound(t) /\ pcall[t].w \in Shim!LockWords
  <2>1. pcall[t].at = "check" /\ UNCHANGED <<slot, held>> /\ pcall[t] # Shim!Idle
    BY DEF Shim!Check, Shim!Idle
  <2> QED BY <2>1, CallTyped
<1>2. CASE ~ Shim!IsStatic(pcall[t].w)
  <2>1. /\ UNCHANGED real /\ slot[pcall[t].w] # None
        /\ pcall' = [pcall EXCEPT ![t].at = "go"]
    BY <1>2 DEF Shim!Check, Shim!IsStatic
  <2>2. WordsSound' /\ HoldersSound'
    BY <1>1, <2>1 DEF ShimInv, WordsSound, HoldersSound
  <2>3. pcall' \in [Users -> CallOf]
    BY <1>1, <2>1 DEF CallOf
  <2>4. /\ pcall'[t] = [pcall[t] EXCEPT !.at = "go"]
        /\ \A u \in Users \ {t} : pcall'[u] = pcall[u]
    BY <1>1, <2>1
  <2>5. AskSound(t)' /\ PlaceSound(t)'
    BY <1>1, <2>1, <2>4 DEF AskSound, PlaceSound, CallOf
  <2>6. \A u \in Users \ {t} : pcall'[u] = Shim!Idle \/ (AskSound(u)' /\ PlaceSound(u)')
    BY <1>1, <2>1, <2>4, OthersKept DEF CallOf
  <2> QED BY <2>2, <2>3, <2>5, <2>6 DEF ShimInv, CallsSound
<1>3. CASE Shim!IsStatic(pcall[t].w)
  <2>1. PICK o \in Shim!Unused(pcall[t].w) :
          /\ pcall' = [pcall EXCEPT ![t].at = "store", ![t].o = o]
          /\ real' = [real EXCEPT ![o] = Shim!NewObject(pcall[t].w \in RecursiveOnes)]
    BY <1>3 DEF Shim!Check, Shim!IsStatic
  <2>2. /\ o \in {pcall[t].w} \X (1 .. MaxGen) /\ o \in Shim!Objs /\ slot[pcall[t].w] = None
        /\ \A u \in Users : pcall[u].o # o
    BY <1>1, <1>3, <2>1 DEF Shim!Unused, Shim!Objs, Shim!IsStatic
  <2>3. \A w \in Shim!LockWords : slot[w] # None => slot[w] # o
    <3> TAKE w \in Shim!LockWords
    <3>1. slot[w] # None => slot[w] \in {w} \X (1 .. MaxGen)
      BY DEF ShimInv, WordsSound
    <3> QED BY <1>1, <2>2, <3>1, OneWord
  <2>4. /\ real'[o] = Shim!NewObject(pcall[t].w \in RecursiveOnes)
        /\ \A p \in Shim!Objs \ {o} : real'[p] = real[p]
    BY <2>1, <2>2 DEF ShimInv, WordsSound
  <2>5. Shim!NewObject(pcall[t].w \in RecursiveOnes) \in
          [by : Users \cup {None}, n : 0 .. MaxDepth, rd : SUBSET Users, rec : BOOLEAN]
    BY WordsApart DEF Shim!NewObject
  <2>6. WordsSound'
    BY <1>1, <2>1, <2>5 DEF ShimInv, WordsSound
  <2>7. \A w \in Shim!LockWords : slot[w] # None => real'[slot[w]] = real[slot[w]]
    BY <2>3, <2>4 DEF ShimInv, WordsSound
  <2>8. HoldersSound'
    BY <1>1, <2>7, WordsApart DEF ShimInv, HoldersSound
  <2>9. /\ pcall'[t] = [pcall[t] EXCEPT !.at = "store", !.o = o]
        /\ \A u \in Users \ {t} : pcall'[u] = pcall[u]
    BY <1>1, <2>1
  <2>10. pcall' \in [Users -> CallOf]
    <3>1. [pcall[t] EXCEPT !.at = "store", !.o = o] \in CallOf
      <4>1. pcall[t] \in CallOf /\ o \in Shim!Objs
        BY <1>1, <2>2
      <4> QED BY ONLY <4>1 DEF CallOf
    <3> QED BY <1>1, <2>1, <3>1
  <2>11. AskSound(t)'
    <3>1. /\ pcall'[t].op = pcall[t].op /\ pcall'[t].w = pcall[t].w /\ pcall'[t].m = pcall[t].m
          /\ pcall'[t].at = "store"
      BY <1>1, <2>9 DEF CallOf
    <3>2. pcall[t].w \notin held[t]
      BY <2>2 DEF ShimInv, HoldersSound
    <3> QED BY <1>1, <3>1, <3>2 DEF AskSound
  <2>12. PlaceSound(t)'
    <3>1. /\ pcall'[t].op = pcall[t].op /\ pcall'[t].w = pcall[t].w /\ pcall'[t].m = pcall[t].m
          /\ pcall'[t].at = "store" /\ pcall'[t].o = o
      BY <1>1, <2>9 DEF CallOf
    <3>2. real'[o].by = None /\ real'[o].n = 0 /\ real'[o].rd = {}
      BY <2>4 DEF Shim!NewObject
    <3>3. pcall[t].w \in Shim!Locks => \A u \in Users \ {t} : ~ Shim!UsedBy(u, pcall[t].w)'
      BY <1>1, <2>2, <2>9 DEF PlaceSound, Alone, Shim!UsedBy
    <3> QED BY <1>1, <2>2, <3>1, <3>2, <3>3 DEF PlaceSound, Alone
  <2>13. ASSUME NEW u \in Users \ {t}
         PROVE  pcall'[u] = Shim!Idle \/ (AskSound(u)' /\ PlaceSound(u)')
    <3>1. \A v \in Users \ {t} : pcall[v].at = "store" => real'[pcall[v].o] = real[pcall[v].o]
      <4> SUFFICES ASSUME NEW v \in Users \ {t}, pcall[v].at = "store"
                   PROVE  real'[pcall[v].o] = real[pcall[v].o]
        OBVIOUS
      <4>1. pcall[v].o \in Shim!Objs /\ pcall[v].o # o
        BY <2>2, MadeForWord
      <4> QED BY <2>4, <4>1
    <3>2. \A w \in Mutexes : slot[w] # None => real'[slot[w]] = real[slot[w]]
      BY <2>7, WordsApart
    <3>3. pcall'[t].w = pcall[t].w /\ pcall'[t].m = pcall[t].m
      BY <1>1, <2>9 DEF CallOf
    <3> QED BY <1>1, <2>9, <3>1, <3>2, <3>3, OthersKept
  <2> QED BY <2>6, <2>8, <2>10, <2>11, <2>12, <2>13 DEF ShimInv, CallsSound
<1> QED BY <1>2, <1>3

\* The object is stored in the word; a lock's word was the caller's alone.
LEMMA StoreStep ==
  ASSUME ShimInv, NEW t \in Users, Shim!Store(t)
  PROVE  ShimInv'
<1> DEFINE w == pcall[t].w
           o == pcall[t].o
<1>1. /\ pcall[t].at = "store" /\ UNCHANGED <<real, held>>
      /\ slot' = [slot EXCEPT ![w] = o]
      /\ pcall' = [pcall EXCEPT ![t].at = "go", ![t].o = None]
  BY DEF Shim!Store
<1>2. /\ pcall \in [Users -> CallOf] /\ pcall[t] \in CallOf /\ w \in Shim!LockWords
      /\ AskSound(t) /\ PlaceSound(t)
  BY <1>1, CallTyped DEF Shim!Idle
<1>3. o \in {w} \X (1 .. MaxGen) /\ o \in Shim!Objs /\ o # None
  BY <1>1, MadeForWord, WordsApart
<1>4. w \in Shim!Locks => /\ slot[w] = None /\ real[o].by = None /\ real[o].n = 0 /\ real[o].rd = {}
                          /\ Alone(t)
  BY <1>1, <1>2 DEF PlaceSound
<1>5. slot'[w] = o /\ \A v \in Shim!LockWords \ {w} : slot'[v] = slot[v]
  BY <1>1, <1>2 DEF ShimInv, WordsSound
<1>6. /\ pcall'[t] = [pcall[t] EXCEPT !.at = "go", !.o = None]
      /\ \A u \in Users \ {t} : pcall'[u] = pcall[u]
  BY <1>1, <1>2
<1>7. /\ pcall'[t].op = pcall[t].op /\ pcall'[t].w = w /\ pcall'[t].m = pcall[t].m
      /\ pcall'[t].at = "go" /\ pcall'[t] \in CallOf
  BY <1>2, <1>6 DEF CallOf
<1>8. pcall' \in [Users -> CallOf]
  BY <1>1, <1>2, <1>6, <1>7
<1> HIDE DEF w, o
<1>9. WordsSound'
  <2>1. slot' \in [Shim!LockWords -> Shim!Objs \cup {None}]
    BY <1>1, <1>3 DEF ShimInv, WordsSound
  <2>2. \A v \in Shim!LockWords : slot'[v] # None => slot'[v] \in {v} \X (1 .. MaxGen)
    BY <1>3, <1>5 DEF ShimInv, WordsSound
  <2> QED BY <1>1, <2>1, <2>2 DEF ShimInv, WordsSound
<1>10. HoldersSound'
  <2>1. \A v \in Users : held[v] \subseteq Shim!LockWords /\ (w \in Shim!Locks => w \notin held[v])
    BY <1>4, WordsApart DEF ShimInv, HoldersSound
  <2>2. \A v \in Users : \A x \in held[v] : slot'[x] # None
    BY <1>3, <1>5, <2>1 DEF ShimInv, HoldersSound
  <2>3. ASSUME NEW x \in Mutexes, slot'[x] # None
        PROVE  /\ \A v \in Users : x \in held[v] <=> real[slot'[x]].by = v
               /\ real[slot'[x]].by = None <=> real[slot'[x]].n = 0
               /\ x \notin RecursiveOnes => real[slot'[x]].n <= 1
    <3>1. CASE x = w
      BY <1>4, <1>5, <2>1, <3>1, WordsApart
    <3>2. CASE x # w
      BY <1>5, <2>3, <3>2, WordsApart DEF ShimInv, HoldersSound
    <3> QED BY <3>1, <3>2
  <2>4. ASSUME NEW x \in RwLocks, slot'[x] # None
        PROVE  /\ \A v \in Users : x \in held[v] <=> real[slot'[x]].by = v \/ v \in real[slot'[x]].rd
               /\ IF real[slot'[x]].by = None THEN real[slot'[x]].n = 0
                  ELSE real[slot'[x]].n = 1 /\ real[slot'[x]].rd = {}
    <3>1. CASE x = w
      BY <1>4, <1>5, <2>1, <3>1, WordsApart
    <3>2. CASE x # w
      BY <1>5, <2>4, <3>2, WordsApart DEF ShimInv, HoldersSound
    <3> QED BY <3>1, <3>2
  <2> QED BY <1>1, <2>2, <2>3, <2>4 DEF ShimInv, HoldersSound
<1>11. AskSound(t)' /\ PlaceSound(t)'
  <2>1. w \in held[t] => w \notin Shim!Locks
    BY <1>4 DEF ShimInv, HoldersSound
  <2>2. pcall[t].op = "wait" => slot'[pcall[t].m] = slot[pcall[t].m]
    BY <1>2, <1>5, WordsApart DEF AskSound, w
  <2>3. AskSound(t)'
    BY <1>1, <1>2, <1>7, <2>1, <2>2, WordsApart DEF AskSound, w
  <2>4. PlaceSound(t)'
    BY <1>2, <1>3, <1>5, <1>7 DEF PlaceSound, w
  <2> QED BY <2>3, <2>4
<1>12. ASSUME NEW u \in Users \ {t}
       PROVE  pcall'[u] = Shim!Idle \/ (AskSound(u)' /\ PlaceSound(u)')
  <2>1. CASE pcall[u] = Shim!Idle
    BY <1>6, <2>1
  <2>2. CASE pcall[u] # Shim!Idle
    <3>1. /\ pcall[u].w \in Shim!LockWords /\ AskSound(u) /\ PlaceSound(u)
      BY <2>2, CallTyped
    <3>2. w \in Shim!Locks => pcall[u].w # w /\ pcall[u].m # w
      BY <1>4 DEF Alone, Shim!UsedBy, w
    <3>3. w \in Shim!Locks \/ w \in Conds
      BY <1>2 DEF Shim!LockWords, w
    <3>4. slot'[pcall[u].w] = slot[pcall[u].w] \/ (pcall[u].w \in Conds /\ slot'[pcall[u].w] # None)
      BY <1>3, <1>5, <3>1, <3>2, <3>3
    <3>5. pcall[u].op = "wait" => slot'[pcall[u].m] = slot[pcall[u].m]
      <4>1. pcall[u].op = "wait" => pcall[u].m \in Shim!LockWords \ Conds
        BY <3>1, WordsApart DEF AskSound
      <4> QED BY <1>5, <3>2, <3>3, <4>1
    <3>6. ASSUME pcall[u].w \in Shim!Locks, slot[pcall[u].w] = None, NEW v \in Users \ {u}
          PROVE  ~ Shim!UsedBy(v, pcall[u].w)'
      <4>1. ~ Shim!UsedBy(v, pcall[u].w)
        BY <3>1, <3>6 DEF PlaceSound, Alone
      <4> QED BY <1>6, <1>7, <4>1 DEF Shim!UsedBy, w
    <3> QED BY <1>1, <1>6, <2>2, <3>4, <3>5, <3>6, CallKept
  <2> QED BY <2>1, <2>2
<1> QED BY <1>8, <1>9, <1>10, <1>11, <1>12 DEF ShimInv, CallsSound

\* A word that nobody uses or holds becomes static again.
LEMMA DestroyStep ==
  ASSUME ShimInv, Shim!Destroy
  PROVE  ShimInv'
<1>1. PICK w \in Mutexes \cup Conds :
        /\ slot[w] # None
        /\ \A u \in Users : ~ Shim!UsedBy(u, w) /\ w \notin held[u]
        /\ real' = [real EXCEPT ![slot[w]] = Shim!Dead]
        /\ slot' = [slot EXCEPT ![w] = None]
        /\ UNCHANGED <<pcall, held>>
  BY DEF Shim!Destroy
<1>2. /\ w \in Shim!LockWords /\ slot[w] \in Shim!Objs /\ slot[w] \in {w} \X (1 .. MaxGen)
      /\ slot'[w] = None /\ \A v \in Shim!LockWords \ {w} : slot'[v] = slot[v]
      /\ \A p \in Shim!Objs \ {slot[w]} : real'[p] = real[p]
  BY <1>1, WordsApart DEF ShimInv, WordsSound
<1>3. \A v \in Shim!LockWords \ {w} : slot[v] # None => slot[v] # slot[w] /\ slot[v] \in Shim!Objs
  BY <1>2, OneWord DEF ShimInv, WordsSound
<1>4. WordsSound'
  <2>1. Shim!Dead \in [by : Users \cup {None}, n : 0 .. MaxDepth, rd : SUBSET Users, rec : BOOLEAN]
    BY WordsApart DEF Shim!Dead, Shim!NewObject
  <2>2. slot' \in [Shim!LockWords -> Shim!Objs \cup {None}]
    BY <1>1 DEF ShimInv, WordsSound
  <2>3. \A v \in Shim!LockWords : slot'[v] # None => slot'[v] \in {v} \X (1 .. MaxGen)
    BY <1>2 DEF ShimInv, WordsSound
  <2>4. real' \in [Shim!Objs -> [by : Users \cup {None}, n : 0 .. MaxDepth,
                                 rd : SUBSET Users, rec : BOOLEAN]]
    BY <1>1, <2>1 DEF ShimInv, WordsSound
  <2> QED BY <2>2, <2>3, <2>4 DEF WordsSound
<1>5. \A v \in Shim!LockWords \ {w} :
        slot[v] # None => slot'[v] = slot[v] /\ real'[slot[v]] = real[slot[v]]
  BY <1>2, <1>3
<1>6. HoldersSound'
  <2>1. \A u \in Users : held[u] \subseteq Shim!LockWords \ {w}
    BY <1>1, WordsApart DEF ShimInv, HoldersSound
  <2>2. \A u \in Users : \A x \in held[u] : slot'[x] # None
    BY <1>5, <2>1 DEF ShimInv, HoldersSound
  <2>3. \A x \in Mutexes \cup RwLocks : slot'[x] # None =>
          x # w /\ slot[x] # None /\ slot'[x] = slot[x] /\ real'[slot'[x]] = real[slot[x]]
    BY <1>2, <1>5, WordsApart
  <2> QED BY <1>1, <2>2, <2>3 DEF ShimInv, HoldersSound
<1>7. ASSUME NEW u \in Users
      PROVE  pcall'[u] = Shim!Idle \/ (AskSound(u)' /\ PlaceSound(u)')
  <2>1. CASE pcall[u] = Shim!Idle
    BY <1>1, <2>1
  <2>2. CASE pcall[u] # Shim!Idle
    <3>1. /\ pcall[u].w \in Shim!LockWords \ {w} /\ AskSound(u) /\ PlaceSound(u) /\ pcall[u].m # w
      BY <1>1, <2>2, CallTyped DEF Shim!UsedBy
    <3>2. slot'[pcall[u].w] = slot[pcall[u].w]
      BY <1>2, <3>1
    <3>3. pcall[u].op = "wait" => slot'[pcall[u].m] = slot[pcall[u].m]
      BY <1>2, <3>1, WordsApart DEF AskSound
    <3>4. pcall[u].w \in held[u] => real'[slot[pcall[u].w]] = real[slot[pcall[u].w]]
      BY <1>5, <3>1 DEF ShimInv, HoldersSound
    <3>5. pcall[u].at = "store" => real'[pcall[u].o] = real[pcall[u].o]
      BY <1>2, <3>1, MadeForWord, OneWord
    <3>6. ASSUME pcall[u].w \in Shim!Locks, slot[pcall[u].w] = None, NEW v \in Users \ {u}
          PROVE  ~ Shim!UsedBy(v, pcall[u].w)'
      BY <1>1, <3>1, <3>6 DEF PlaceSound, Alone, Shim!UsedBy
    <3> QED BY <1>1, <2>2, <3>2, <3>3, <3>4, <3>5, <3>6, CallKept
  <2> QED BY <2>1, <2>2
<1> QED BY <1>1, <1>4, <1>6, <1>7 DEF ShimInv, CallsSound

-----------------------------------------------------------------------------
(* A lock is taken or given back.                                          *)

Object == [by : Users \cup {None}, n : 0 .. MaxDepth, rd : SUBSET Users, rec : BOOLEAN]

\* A lock that changes hands leaves the others, and the calls of the others, alone.
LEMMA LockChanges ==
  ASSUME ShimInv, NEW t \in Users, NEW w \in Shim!Locks, slot[w] # None, UNCHANGED slot,
         NEW r \in Object, real' = [real EXCEPT ![slot[w]] = r],
         held' \in [Users -> SUBSET Shim!Locks],
         \A u \in Users \ {t} : held'[u] = held[u] /\ pcall'[u] = pcall[u],
         \A v \in Shim!Locks \ {w} : v \in held'[t] <=> v \in held[t],
         pcall'[t].w \in {pcall[t].w, None}, pcall'[t].m \in {pcall[t].m, None},
         w \in Mutexes => /\ \A u \in Users \ {t} : w \notin held[u] /\ r.by # u
                          /\ w \in held'[t] <=> r.by = t
                          /\ r.by = None <=> r.n = 0
                          /\ w \notin RecursiveOnes => r.n <= 1,
         w \in RwLocks => /\ \A u \in Users \ {t} : w \in held[u] <=> r.by = u \/ u \in r.rd
                          /\ w \in held'[t] <=> r.by = t \/ t \in r.rd
                          /\ IF r.by = None THEN r.n = 0 ELSE r.n = 1 /\ r.rd = {}
  PROVE  /\ WordsSound' /\ HoldersSound'
         /\ \A u \in Users \ {t} : pcall'[u] = Shim!Idle \/ (AskSound(u)' /\ PlaceSound(u)')
<1>1. /\ w \in Shim!LockWords /\ slot[w] \in Shim!Objs /\ slot[w] \in {w} \X (1 .. MaxGen)
      /\ real'[slot[w]] = r /\ \A p \in Shim!Objs \ {slot[w]} : real'[p] = real[p]
  BY WordsApart DEF ShimInv, WordsSound
<1>2. \A v \in Shim!LockWords \ {w} : slot[v] # None => real'[slot[v]] = real[slot[v]]
  <2> TAKE v \in Shim!LockWords \ {w}
  <2>1. slot[v] # None => slot[v] \in {v} \X (1 .. MaxGen) /\ slot[v] \in Shim!Objs
    BY DEF ShimInv, WordsSound
  <2> QED BY <1>1, <2>1, OneWord
<1>4. WordsSound'
  BY <1>1 DEF ShimInv, WordsSound, Object
<1>5. HoldersSound'
  <2>1. \A u \in Users : \A x \in Shim!Locks \ {w} : x \in held'[u] <=> x \in held[u]
    OBVIOUS
  <2>2. ASSUME NEW u \in Users, NEW x \in held'[u]
        PROVE  slot'[x] # None
    BY <2>1, <2>2 DEF ShimInv, HoldersSound
  <2>4. ASSUME NEW x \in Mutexes, slot'[x] # None
        PROVE  /\ \A v \in Users : x \in held'[v] <=> real'[slot'[x]].by = v
               /\ real'[slot'[x]].by = None <=> real'[slot'[x]].n = 0
               /\ x \notin RecursiveOnes => real'[slot'[x]].n <= 1
    <3>1. CASE x = w
      BY <1>1, <2>4, <3>1
    <3>2. CASE x # w
      BY <1>2, <2>1, <2>4, <3>2, WordsApart DEF ShimInv, HoldersSound
    <3> QED BY <3>1, <3>2
  <2>5. ASSUME NEW x \in RwLocks, slot'[x] # None
        PROVE  /\ \A v \in Users :
                    x \in held'[v] <=> real'[slot'[x]].by = v \/ v \in real'[slot'[x]].rd
               /\ IF real'[slot'[x]].by = None THEN real'[slot'[x]].n = 0
                  ELSE real'[slot'[x]].n = 1 /\ real'[slot'[x]].rd = {}
    <3>1. CASE x = w
      BY <1>1, <2>5, <3>1
    <3>2. CASE x # w
      BY <1>2, <2>1, <2>5, <3>2, WordsApart DEF ShimInv, HoldersSound
    <3> QED BY <3>1, <3>2
  <2> QED BY <2>2, <2>4, <2>5 DEF HoldersSound
<1>6. ASSUME NEW u \in Users \ {t}
      PROVE  pcall'[u] = Shim!Idle \/ (AskSound(u)' /\ PlaceSound(u)')
  <2>1. CASE pcall[u] = Shim!Idle
    BY <2>1
  <2>2. CASE pcall[u] # Shim!Idle
    <3>1. pcall[u].w \in Shim!LockWords /\ PlaceSound(u)
      BY <2>2, CallTyped
    <3>2. pcall[u].w \in held[u] /\ pcall[u].w \in Mutexes =>
            real'[slot[pcall[u].w]] = real[slot[pcall[u].w]]
      BY <1>2, <3>1 DEF ShimInv, HoldersSound
    <3>3. pcall[u].at = "store" => real'[pcall[u].o] = real[pcall[u].o]
      <4>1. ASSUME pcall[u].at = "store" PROVE pcall[u].o # slot[w]
        <5>1. pcall[u].o \in {pcall[u].w} \X (1 .. MaxGen)
          BY <4>1, MadeForWord
        <5>2. pcall[u].w # w
          BY <3>1, <4>1 DEF PlaceSound
        <5> QED BY <1>1, <3>1, <5>1, <5>2, OneWord
      <4> QED BY <1>1, <4>1, MadeForWord
    <3>4. ASSUME pcall[u].w \in Shim!Locks, slot[pcall[u].w] = None, NEW v \in Users \ {u}
          PROVE  ~ Shim!UsedBy(v, pcall[u].w)'
      <4>1. ~ Shim!UsedBy(v, pcall[u].w) /\ pcall[u].w # None
        BY <3>1, <3>4, WordsApart DEF PlaceSound, Alone
      <4> QED BY <4>1 DEF Shim!UsedBy
    <3> QED BY <2>2, <3>2, <3>3, <3>4, CallKept
  <2> QED BY <2>1, <2>2
<1> QED BY <1>4, <1>5, <1>6

\* A thread that returns is idle again.
LEMMA Returns ==
  ASSUME ShimInv, NEW t \in Users, Shim!Return(t)
  PROVE  /\ pcall' \in [Users -> CallOf] /\ pcall'[t] = Shim!Idle
         /\ pcall'[t].w = None /\ pcall'[t].m = None
         /\ \A u \in Users \ {t} : pcall'[u] = pcall[u]
<1>1. pcall \in [Users -> CallOf] /\ Shim!Idle \in CallOf
  BY DEF ShimInv, CallsSound, CallOf, Shim!Idle
<1>2. pcall'[t] = Shim!Idle /\ \A u \in Users \ {t} : pcall'[u] = pcall[u]
  BY <1>1 DEF Shim!Return
<1>3. Shim!Idle.w = None /\ Shim!Idle.m = None
  BY DEF Shim!Idle
<1> QED BY <1>1, <1>2, <1>3 DEF Shim!Return

\* One more and one less.
LEMMA Counted ==
  ASSUME NEW x \in Object, NEW t \in Users, NEW b \in Users \cup {None}
  PROVE  /\ x.n < MaxDepth => [x EXCEPT !.by = t, !.n = @ + 1] \in Object
         /\ x.n > 0 => [x EXCEPT !.n = @ - 1, !.by = b] \in Object
         /\ x.n \in Nat /\ x.n <= MaxDepth
<1>1. x.n \in 0 .. MaxDepth /\ MaxDepth \in Nat
  BY WordsApart DEF Object
<1>2. x.n < MaxDepth => x.n + 1 \in 0 .. MaxDepth
  BY <1>1
<1>3. x.n > 0 => x.n - 1 \in 0 .. MaxDepth
  BY <1>1
<1>4. x.n < MaxDepth => [x EXCEPT !.by = t, !.n = @ + 1] \in Object
  BY <1>2 DEF Object
<1>5. x.n > 0 => [x EXCEPT !.n = @ - 1, !.by = b] \in Object
  BY <1>3 DEF Object
<1> QED BY <1>1, <1>4, <1>5

\* The count of a mutex that its holder or nobody has, one more or one less.
LEMMA MutexCounts ==
  ASSUME ShimInv, NEW w \in Mutexes, slot[w] # None, NEW t \in Users
  PROVE  /\ real[slot[w]] \in Object /\ slot[w] \in Shim!Objs
         /\ real[slot[w]].n \in Nat /\ real[slot[w]].n <= MaxDepth
         /\ \A u \in Users : w \in held[u] <=> real[slot[w]].by = u
         /\ real[slot[w]].by = None <=> real[slot[w]].n = 0
         /\ w \notin RecursiveOnes => real[slot[w]].n <= 1
<1>1. slot[w] \in Shim!Objs
  BY WordsApart DEF ShimInv, WordsSound
<1>2. real[slot[w]] \in Object
  BY <1>1 DEF ShimInv, WordsSound, Object
<1>3. real[slot[w]].n \in Nat /\ real[slot[w]].n <= MaxDepth
  BY <1>2, Counted
<1> QED BY <1>1, <1>2, <1>3 DEF ShimInv, HoldersSound

\* A mutex is taken that is free, or that the thread holds and may take again.
LEMMA TakeMutex ==
  ASSUME ShimInv, NEW t \in Users, NEW w \in Mutexes, slot[w] # None,
         Shim!Free(slot[w], t), real' = Shim!Taken(slot[w], t), UNCHANGED slot,
         held' = [held EXCEPT ![t] = @ \cup {w}], Shim!Return(t),
         w \in held[t] => w \in RecursiveOnes /\ real[slot[w]].n < MaxDepth
  PROVE  ShimInv'
<1> DEFINE r == [real[slot[w]] EXCEPT !.by = t, !.n = @ + 1]
<1>1. /\ real[slot[w]] \in Object /\ slot[w] \in Shim!Objs
      /\ real[slot[w]].n \in Nat /\ real[slot[w]].n <= MaxDepth
      /\ \A u \in Users : w \in held[u] <=> real[slot[w]].by = u
      /\ real[slot[w]].by = None <=> real[slot[w]].n = 0
      /\ w \notin RecursiveOnes => real[slot[w]].n <= 1
  BY MutexCounts
<1>2. real[slot[w]].by \in {None, t}
  BY DEF Shim!Free
<1>3. real[slot[w]].n < MaxDepth
  BY <1>1, <1>2, WordsApart
<1>4. r \in Object /\ r.by = t /\ r.n = real[slot[w]].n + 1
  <2>1. r \in Object
    BY <1>1, <1>3, Counted
  <2> QED BY <1>1, <2>1 DEF Object
<1>5. real' = [real EXCEPT ![slot[w]] = r]
  BY <1>1 DEF Shim!Taken, ShimInv, WordsSound
<1> HIDE DEF r
<1>6. w \in Shim!Locks /\ w \notin RwLocks /\ held \in [Users -> SUBSET Shim!Locks]
  BY WordsApart DEF ShimInv, HoldersSound
<1>7. /\ held'[t] = held[t] \cup {w} /\ \A u \in Users \ {t} : held'[u] = held[u]
      /\ held' \in [Users -> SUBSET Shim!Locks]
  BY <1>6
<1>8. /\ \A u \in Users \ {t} : w \notin held[u] /\ r.by # u
      /\ w \in held'[t] <=> r.by = t
      /\ r.by = None <=> r.n = 0
      /\ w \notin RecursiveOnes => r.n <= 1
  BY <1>1, <1>2, <1>4, <1>7, WordsApart
<1>9. /\ pcall' \in [Users -> CallOf] /\ pcall'[t] = Shim!Idle
      /\ pcall'[t].w = None /\ pcall'[t].m = None
      /\ \A u \in Users \ {t} : pcall'[u] = pcall[u]
  BY Returns
<1>10. /\ WordsSound' /\ HoldersSound'
       /\ \A u \in Users \ {t} : pcall'[u] = Shim!Idle \/ (AskSound(u)' /\ PlaceSound(u)')
  BY <1>4, <1>5, <1>6, <1>7, <1>8, <1>9, LockChanges
<1> QED BY <1>9, <1>10 DEF ShimInv, CallsSound

\* A mutex is given back, or held once less.
LEMMA GiveMutex ==
  ASSUME ShimInv, NEW t \in Users, NEW w \in Mutexes, w \in held[t],
         real' = Shim!Given(slot[w]), UNCHANGED slot,
         held' = [held EXCEPT ![t] = IF real[slot[w]].n = 1 THEN @ \ {w} ELSE @],
         \A u \in Users \ {t} : pcall'[u] = pcall[u],
         pcall'[t].w \in {pcall[t].w, None}, pcall'[t].m \in {pcall[t].m, None}
  PROVE  /\ WordsSound' /\ HoldersSound'
         /\ \A u \in Users \ {t} : pcall'[u] = Shim!Idle \/ (AskSound(u)' /\ PlaceSound(u)')
<1> DEFINE b == IF real[slot[w]].n = 1 THEN None ELSE real[slot[w]].by
           r == [real[slot[w]] EXCEPT !.n = @ - 1, !.by = b]
<1>1. slot[w] # None
  BY DEF ShimInv, HoldersSound
<1>2. /\ real[slot[w]] \in Object /\ slot[w] \in Shim!Objs
      /\ real[slot[w]].n \in Nat /\ real[slot[w]].n <= MaxDepth
      /\ \A u \in Users : w \in held[u] <=> real[slot[w]].by = u
      /\ real[slot[w]].by = None <=> real[slot[w]].n = 0
      /\ w \notin RecursiveOnes => real[slot[w]].n <= 1
  BY <1>1, MutexCounts
<1>3. real[slot[w]].by = t /\ real[slot[w]].n > 0
  BY <1>2, WordsApart
<1>4. b \in Users \cup {None}
  BY <1>3
<1>5. real' = [real EXCEPT ![slot[w]] = r]
  BY <1>2 DEF Shim!Given, ShimInv, WordsSound
<1>6. r.n = real[slot[w]].n - 1 /\ r.by = b
  BY <1>2 DEF Object
<1>7. r \in Object
  <2> HIDE DEF b
  <2> QED BY <1>2, <1>3, <1>4, Counted
<1>8. b = IF real[slot[w]].n = 1 THEN None ELSE t
  BY <1>3
<1> HIDE DEF b, r
<1>9. w \in Shim!Locks /\ w \notin RwLocks /\ held \in [Users -> SUBSET Shim!Locks]
  BY WordsApart DEF ShimInv, HoldersSound
<1>10. /\ held'[t] = IF real[slot[w]].n = 1 THEN held[t] \ {w} ELSE held[t]
       /\ \A u \in Users \ {t} : held'[u] = held[u]
       /\ held' \in [Users -> SUBSET Shim!Locks]
  BY <1>9
<1>11. /\ \A u \in Users \ {t} : w \notin held[u] /\ r.by # u
       /\ w \in held'[t] <=> r.by = t
       /\ r.by = None <=> r.n = 0
       /\ w \notin RecursiveOnes => r.n <= 1
  BY <1>2, <1>3, <1>6, <1>8, <1>10, WordsApart
<1>12. /\ \A u \in Users \ {t} : held'[u] = held[u] /\ pcall'[u] = pcall[u]
       /\ \A v \in Shim!Locks \ {w} : v \in held'[t] <=> v \in held[t]
  BY <1>10
<1>13. w \in RwLocks =>
         /\ \A u \in Users \ {t} : w \in held[u] <=> r.by = u \/ u \in r.rd
         /\ w \in held'[t] <=> r.by = t \/ t \in r.rd
         /\ IF r.by = None THEN r.n = 0 ELSE r.n = 1 /\ r.rd = {}
  BY <1>9
<1>14. held' \in [Users -> SUBSET Shim!Locks] /\ w \in Shim!Locks /\ slot' = slot
  BY <1>9, <1>10
<1> QED BY ONLY ShimInv, t \in Users, <1>1, <1>5, <1>7, <1>11, <1>12, <1>13, <1>14, LockChanges,
     pcall'[t].w \in {pcall[t].w, None}, pcall'[t].m \in {pcall[t].m, None}

\* An rwlock is taken by a writer when nobody has it, by a reader when no writer has.
LEMMA RwLockStep ==
  ASSUME ShimInv, NEW t \in Users, Shim!RwLock(t)
  PROVE  ShimInv'
<1> DEFINE w == pcall[t].w
           x == real[slot[w]]
           r == IF pcall[t].op = "rdlock" THEN [x EXCEPT !.rd = @ \cup {t}]
                ELSE [x EXCEPT !.by = t, !.n = @ + 1]
<1>1. /\ pcall[t].at = "go" /\ pcall[t].op \in RwOps /\ x.by = None /\ UNCHANGED slot
      /\ held' = [held EXCEPT ![t] = @ \cup {w}] /\ Shim!Return(t)
  BY DEF Shim!RwLock, RwOps
<1>2. AskSound(t) /\ PlaceSound(t)
  BY <1>1, CallTyped DEF Shim!Idle
<1>3. w \in RwLocks /\ w \notin held[t] /\ slot[w] # None
  BY <1>1, <1>2 DEF AskSound, PlaceSound
<1>4. w \in Shim!Locks /\ w \notin Mutexes /\ slot[w] \in Shim!Objs /\ x \in Object
  BY <1>3, WordsApart DEF ShimInv, WordsSound, Object
<1>5. /\ \A u \in Users : w \in held[u] <=> x.by = u \/ u \in x.rd
      /\ x.n = 0
  BY <1>1, <1>3 DEF ShimInv, HoldersSound
<1>6. /\ real' = [real EXCEPT ![slot[w]] = r] /\ r \in Object
      /\ r.by = None => r.n = 0 /\ r.rd = x.rd \cup {t}
      /\ r.by # None => r.by = t /\ r.n = 1 /\ r.rd = {} /\ x.rd = {}
  <2>1. CASE pcall[t].op = "rdlock"
    <3>1. real' = [real EXCEPT ![slot[w]].rd = @ \cup {t}]
      BY <1>1, <2>1 DEF Shim!RwLock
    <3>2. r = [x EXCEPT !.rd = @ \cup {t}]
      BY <2>1
    <3>3. r \in Object /\ r.by = x.by /\ r.n = x.n /\ r.rd = x.rd \cup {t}
      <4> HIDE DEF x, r
      <4> QED BY <1>4, <3>2 DEF Object
    <3> QED BY <1>1, <1>4, <1>5, <3>1, <3>2, <3>3 DEF ShimInv, WordsSound
  <2>2. CASE pcall[t].op # "rdlock"
    <3>1. x.rd = {} /\ real' = Shim!Taken(slot[w], t)
      BY <1>1, <2>2 DEF Shim!RwLock, RwOps
    <3>2. r = [x EXCEPT !.by = t, !.n = @ + 1]
      BY <2>2
    <3>3. r.by = t /\ r.n = 1 /\ r.rd = {}
      <4> HIDE DEF x, r
      <4> QED BY <1>4, <1>5, <3>1, <3>2 DEF Object
    <3>4. x.n < MaxDepth
      <4> HIDE DEF x
      <4> QED BY <1>5, WordsApart
    <3>5. r \in Object
      <4> HIDE DEF x, r
      <4> QED BY <1>4, <3>2, <3>4, Counted
    <3>6. real' = [real EXCEPT ![slot[w]] = r]
      BY <1>4, <3>1, <3>2 DEF Shim!Taken, ShimInv, WordsSound
    <3> HIDE DEF x, r
    <3> QED BY <3>1, <3>3, <3>5, <3>6, WordsApart
  <2> QED BY <2>1, <2>2
<1> HIDE DEF w, x, r
<1>7. held \in [Users -> SUBSET Shim!Locks]
  BY DEF ShimInv, HoldersSound
<1>8. /\ held'[t] = held[t] \cup {w} /\ \A u \in Users \ {t} : held'[u] = held[u]
      /\ held' \in [Users -> SUBSET Shim!Locks]
  BY <1>1, <1>4, <1>7
<1>9. /\ \A u \in Users \ {t} : w \in held[u] <=> r.by = u \/ u \in r.rd
      /\ w \in held'[t] <=> r.by = t \/ t \in r.rd
      /\ IF r.by = None THEN r.n = 0 ELSE r.n = 1 /\ r.rd = {}
  BY <1>1, <1>5, <1>6, <1>8, WordsApart DEF x
<1>10. /\ pcall' \in [Users -> CallOf] /\ pcall'[t] = Shim!Idle
       /\ pcall'[t].w = None /\ pcall'[t].m = None
       /\ \A u \in Users \ {t} : pcall'[u] = pcall[u]
  BY <1>1, Returns
<1>11. /\ WordsSound' /\ HoldersSound'
       /\ \A u \in Users \ {t} : pcall'[u] = Shim!Idle \/ (AskSound(u)' /\ PlaceSound(u)')
  BY <1>1, <1>3, <1>4, <1>6, <1>8, <1>9, <1>10, LockChanges
<1> QED BY <1>10, <1>11 DEF ShimInv, CallsSound

\* An rwlock is given back by its writer or by a reader.
LEMMA RwUnlockStep ==
  ASSUME ShimInv, NEW t \in Users, Shim!RwUnlock(t)
  PROVE  ShimInv'
<1> DEFINE w == pcall[t].w
           x == real[slot[w]]
           r == IF x.by = t THEN [x EXCEPT !.n = @ - 1, !.by = IF x.n = 1 THEN None ELSE @]
                ELSE [x EXCEPT !.rd = @ \ {t}]
<1>1. /\ pcall[t].at = "go" /\ pcall[t].op = "unlock" /\ w \in RwLocks /\ UNCHANGED slot
      /\ held' = [held EXCEPT ![t] = @ \ {w}] /\ Shim!Return(t)
  BY DEF Shim!RwUnlock
<1>2. AskSound(t) /\ PlaceSound(t)
  BY <1>1, CallTyped DEF Shim!Idle
<1>3. w \in held[t] /\ slot[w] # None
  BY <1>1, <1>2 DEF AskSound, PlaceSound
<1>4. w \in Shim!Locks /\ w \notin Mutexes /\ slot[w] \in Shim!Objs /\ x \in Object
  BY <1>1, <1>3, WordsApart DEF ShimInv, WordsSound, Object
<1>5. /\ \A u \in Users : w \in held[u] <=> x.by = u \/ u \in x.rd
      /\ IF x.by = None THEN x.n = 0 ELSE x.n = 1 /\ x.rd = {}
  BY <1>1, <1>3 DEF ShimInv, HoldersSound
<1>6. /\ real' = [real EXCEPT ![slot[w]] = r] /\ r \in Object
      /\ r.by = None /\ r.n = 0 /\ r.rd = x.rd \ {t}
      /\ \A u \in Users \ {t} : x.by # u
  <2>1. CASE x.by = t
    <3>1. real' = Shim!Given(slot[w])
      BY <1>1, <2>1 DEF Shim!RwUnlock
    <3>2. x.n = 1 /\ x.rd = {}
      BY <1>5, <2>1, WordsApart
    <3>3. r = [x EXCEPT !.n = @ - 1, !.by = None]
      BY <2>1, <3>2
    <3>4. real' = [real EXCEPT ![slot[w]] = r]
      BY <1>4, <3>1, <3>2, <3>3 DEF Shim!Given, ShimInv, WordsSound
    <3>5. r \in Object /\ r.by = None /\ r.n = 0 /\ r.rd = {}
      <4> HIDE DEF x, r
      <4>1. [x EXCEPT !.n = @ - 1, !.by = None] \in Object
        <5>1. None \in Users \cup {None} /\ x.n > 0
          BY <3>2
        <5> QED BY ONLY <1>4, <5>1, t \in Users, Counted
      <4> QED BY <1>4, <3>2, <3>3, <4>1 DEF Object
    <3> HIDE DEF x, r
    <3> QED BY <2>1, <3>2, <3>4, <3>5
  <2>2. CASE x.by # t
    <3>1. real' = [real EXCEPT ![slot[w]].rd = @ \ {t}]
      BY <1>1, <2>2 DEF Shim!RwUnlock
    <3>2. r = [x EXCEPT !.rd = @ \ {t}]
      BY <2>2
    <3>3. real' = [real EXCEPT ![slot[w]] = r]
      BY <1>4, <3>1, <3>2 DEF ShimInv, WordsSound
    <3>4. t \in x.rd
      BY <1>3, <1>5, <2>2
    <3>5. x.by = None /\ x.n = 0
      BY <1>5, <3>4
    <3>6. r \in Object /\ r.by = x.by /\ r.n = x.n /\ r.rd = x.rd \ {t}
      <4> HIDE DEF x, r
      <4> QED BY <1>4, <3>2 DEF Object
    <3> HIDE DEF x, r
    <3> QED BY <3>3, <3>5, <3>6, WordsApart
  <2> QED BY <2>1, <2>2
<1> HIDE DEF w, x, r
<1>7. held \in [Users -> SUBSET Shim!Locks]
  BY DEF ShimInv, HoldersSound
<1>8. /\ held'[t] = held[t] \ {w} /\ \A u \in Users \ {t} : held'[u] = held[u]
      /\ held' \in [Users -> SUBSET Shim!Locks]
  BY <1>1, <1>4, <1>7
<1>9. /\ \A u \in Users \ {t} : w \in held[u] <=> r.by = u \/ u \in r.rd
      /\ w \in held'[t] <=> r.by = t \/ t \in r.rd
      /\ IF r.by = None THEN r.n = 0 ELSE r.n = 1 /\ r.rd = {}
  BY <1>5, <1>6, <1>8, WordsApart
<1>10. /\ pcall' \in [Users -> CallOf] /\ pcall'[t] = Shim!Idle
       /\ pcall'[t].w = None /\ pcall'[t].m = None
       /\ \A u \in Users \ {t} : pcall'[u] = pcall[u]
  BY <1>1, Returns
<1>11. /\ WordsSound' /\ HoldersSound'
       /\ \A u \in Users \ {t} : pcall'[u] = Shim!Idle \/ (AskSound(u)' /\ PlaceSound(u)')
  BY <1>1, <1>3, <1>4, <1>6, <1>8, <1>9, <1>10, LockChanges
<1> QED BY <1>10, <1>11 DEF ShimInv, CallsSound

\* A call that changes no lock and no word leaves what is held sound.
LEMMA NothingTaken ==
  ASSUME ShimInv, NEW t \in Users, UNCHANGED <<slot, real, held>>,
         pcall' \in [Users -> CallOf], \A u \in Users \ {t} : pcall'[u] = pcall[u],
         pcall'[t].w \in {pcall[t].w, None}, pcall'[t].m \in {pcall[t].m, None},
         pcall'[t] = Shim!Idle \/ (AskSound(t)' /\ PlaceSound(t)')
  PROVE  ShimInv'
<1>1. WordsSound' /\ HoldersSound'
  BY DEF ShimInv, WordsSound, HoldersSound
<1>2. \A u \in Users \ {t} : pcall'[u] = Shim!Idle \/ (AskSound(u)' /\ PlaceSound(u)')
  BY OthersKept
<1> QED BY <1>1, <1>2 DEF ShimInv, CallsSound

\* A mutex is taken, waited for, or found taken.
LEMMA TryMutexStep ==
  ASSUME ShimInv, NEW t \in Users, Shim!TryMutex(t) \/ Shim!PollsEnd(t)
  PROVE  ShimInv'
<1> DEFINE w == pcall[t].w
<1>1. /\ pcall[t].at = "go" /\ pcall[t].op \in TakeOps /\ UNCHANGED slot
  BY DEF Shim!TryMutex, Shim!PollsEnd, TakeOps
<1>2. AskSound(t) /\ PlaceSound(t) /\ pcall \in [Users -> CallOf] /\ pcall[t] \in CallOf
  BY <1>1, CallTyped DEF Shim!Idle
<1>3. /\ w \in Mutexes /\ slot[w] # None
      /\ w \in held[t] => w \in RecursiveOnes /\ real[slot[w]].n < MaxDepth
  BY <1>1, <1>2 DEF AskSound, PlaceSound
<1>4. CASE Shim!Free(slot[w], t) /\ Shim!TryMutex(t)
  <2>1. /\ real' = Shim!Taken(slot[w], t) /\ held' = [held EXCEPT ![t] = @ \cup {w}]
        /\ Shim!Return(t)
    BY <1>4 DEF Shim!TryMutex
  <2> HIDE DEF w
  <2> QED BY <1>1, <1>3, <1>4, <2>1, TakeMutex
<1>5. CASE UNCHANGED <<real, held>> /\ Shim!Return(t)
  BY <1>1, <1>5, Returns, NothingTaken
<1>6. CASE /\ pcall[t].op = "lock" /\ UNCHANGED <<real, held>>
           /\ pcall' = [pcall EXCEPT ![t].at = "block", ![t].o = slot[w]]
  <2>1. /\ pcall'[t] = [pcall[t] EXCEPT !.at = "block", !.o = slot[w]]
        /\ \A u \in Users \ {t} : pcall'[u] = pcall[u]
    BY <1>2, <1>6
  <2>2. slot[w] \in Shim!Objs
    BY <1>3, WordsApart DEF ShimInv, WordsSound
  <2>3. /\ pcall'[t].op = pcall[t].op /\ pcall'[t].w = w /\ pcall'[t].m = pcall[t].m
        /\ pcall'[t].at = "block" /\ pcall'[t].o = slot[w] /\ pcall'[t] \in CallOf
    <3> HIDE <1>1
    <3> QED BY <1>2, <2>1, <2>2 DEF CallOf
  <2>4. pcall' \in [Users -> CallOf]
    BY <1>2, <1>6, <2>1, <2>3
  <2>5. AskSound(t)' /\ PlaceSound(t)'
    BY <1>1, <1>2, <1>3, <1>6, <2>3 DEF AskSound, PlaceSound, TakeOps, RwOps, TellOps
  <2> QED BY <1>1, <1>6, <2>1, <2>3, <2>4, <2>5, NothingTaken
<1> QED BY <1>4, <1>5, <1>6 DEF Shim!TryMutex, Shim!PollsEnd

\* A thread that was blocked gets the mutex it waited for.
LEMMA AcquireStep ==
  ASSUME ShimInv, NEW t \in Users, Shim!Acquire(t)
  PROVE  ShimInv'
<1> DEFINE w == IF pcall[t].op = "wait" THEN pcall[t].m ELSE pcall[t].w
<1>1. /\ pcall[t].at = "block" /\ Shim!Free(pcall[t].o, t) /\ real' = Shim!Taken(pcall[t].o, t)
      /\ held' = [held EXCEPT ![t] = @ \cup {w}] /\ Shim!Return(t) /\ UNCHANGED slot
  BY DEF Shim!Acquire
<1>2. AskSound(t) /\ PlaceSound(t)
  BY <1>1, CallTyped DEF Shim!Idle
<1>3. /\ w \in Mutexes /\ slot[w] = pcall[t].o /\ slot[w] # None
      /\ w \in held[t] => w \in RecursiveOnes /\ real[slot[w]].n < MaxDepth
  BY <1>1, <1>2 DEF AskSound, PlaceSound, TakeOps
<1> HIDE DEF w
<1> QED BY <1>1, <1>3, TakeMutex

\* A mutex is unlocked by the thread that holds it.
LEMMA UnlockMutexStep ==
  ASSUME ShimInv, NEW t \in Users, Shim!UnlockMutex(t)
  PROVE  ShimInv'
<1> DEFINE w == pcall[t].w
<1>1. /\ pcall[t].at = "go" /\ pcall[t].op = "unlock" /\ w \in Mutexes /\ UNCHANGED slot
      /\ real' = Shim!Given(slot[w]) /\ Shim!Return(t)
      /\ held' = [held EXCEPT ![t] = IF real[slot[w]].n = 1 THEN @ \ {w} ELSE @]
  BY DEF Shim!UnlockMutex
<1>2. w \in held[t]
  BY <1>1, CallTyped DEF Shim!Idle, AskSound
<1>3. /\ pcall' \in [Users -> CallOf] /\ pcall'[t] = Shim!Idle
      /\ pcall'[t].w = None /\ pcall'[t].m = None
      /\ \A u \in Users \ {t} : pcall'[u] = pcall[u]
  BY <1>1, Returns
<1> HIDE DEF w
<1>4. /\ WordsSound' /\ HoldersSound'
      /\ \A u \in Users \ {t} : pcall'[u] = Shim!Idle \/ (AskSound(u)' /\ PlaceSound(u)')
  BY <1>1, <1>2, <1>3, GiveMutex
<1> QED BY <1>3, <1>4 DEF ShimInv, CallsSound

\* A waiter gives its mutex back and sleeps on the object of the condition.
LEMMA SleepStep ==
  ASSUME ShimInv, NEW t \in Users, Shim!Sleep(t)
  PROVE  ShimInv'
<1> DEFINE m == pcall[t].m
           o == slot[pcall[t].w]
<1>1. /\ pcall[t].at = "go" /\ pcall[t].op = "wait" /\ UNCHANGED slot
      /\ real' = Shim!Given(slot[m])
      /\ held' = [held EXCEPT ![t] = @ \ {m}]
      /\ pcall' = [pcall EXCEPT ![t].at = "sleep", ![t].o = o]
  BY DEF Shim!Sleep
<1>2. /\ AskSound(t) /\ PlaceSound(t) /\ pcall \in [Users -> CallOf] /\ pcall[t] \in CallOf
      /\ pcall[t].w \in Shim!LockWords
  BY <1>1, CallTyped DEF Shim!Idle
<1>3. m \in Mutexes \ RecursiveOnes /\ m \in held[t] /\ slot[m] # None /\ pcall[t].w \in Conds
  BY <1>1, <1>2 DEF AskSound
<1>4. real[slot[m]].n = 1
  <2>1. /\ real[slot[m]].n \in Nat /\ real[slot[m]].n <= 1
        /\ real[slot[m]].by = t /\ (real[slot[m]].by = None <=> real[slot[m]].n = 0)
    BY <1>3, MutexCounts
  <2> HIDE DEF m
  <2> QED BY <2>1, WordsApart
<1>5. held' = [held EXCEPT ![t] = IF real[slot[m]].n = 1 THEN @ \ {m} ELSE @]
  BY <1>1, <1>4
<1>6. o \in Shim!Objs
  BY <1>1, <1>2 DEF PlaceSound, ShimInv, WordsSound
<1>7. /\ pcall'[t] = [pcall[t] EXCEPT !.at = "sleep", !.o = o]
      /\ \A u \in Users \ {t} : pcall'[u] = pcall[u]
  BY <1>1, <1>2
<1>8. /\ pcall'[t].op = "wait" /\ pcall'[t].w = pcall[t].w /\ pcall'[t].m = m
      /\ pcall'[t].at = "sleep" /\ pcall'[t] \in CallOf
  <2>1. pcall[t] \in CallOf /\ o \in Shim!Objs /\ pcall[t].op = "wait"
    BY <1>1, <1>2, <1>6
  <2> HIDE DEF o
  <2> QED BY <1>7, <2>1 DEF CallOf
<1>9. pcall' \in [Users -> CallOf]
  BY <1>1, <1>2, <1>7, <1>8
<1>10. m \notin held'[t]
  BY <1>1 DEF ShimInv, HoldersSound
<1>11. AskSound(t)' /\ PlaceSound(t)'
  BY <1>1, <1>3, <1>8, <1>10, WordsApart DEF AskSound, PlaceSound, TakeOps, RwOps, TellOps
<1> HIDE DEF m, o
<1>12. /\ WordsSound' /\ HoldersSound'
       /\ \A u \in Users \ {t} : pcall'[u] = Shim!Idle \/ (AskSound(u)' /\ PlaceSound(u)')
  <2>1. pcall'[t].w \in {pcall[t].w, None} /\ pcall'[t].m \in {pcall[t].m, None}
    BY <1>8 DEF m
  <2> QED BY <1>1, <1>3, <1>5, <1>7, <2>1, GiveMutex
<1> QED BY <1>9, <1>11, <1>12 DEF ShimInv, CallsSound

\* What becomes of a sleeper that is woken: it waits for its mutex.
Roused(u) == [pcall[u] EXCEPT !.at = "block", !.o = slot[pcall[u].m]]

\* Sleepers that wake, beside a thread that may return.
LEMMA WakeStep ==
  ASSUME ShimInv, UNCHANGED <<slot, real, held>>, NEW W \in SUBSET Users, NEW R \in SUBSET Users,
         pcall' = [u \in Users |-> IF u \in R THEN Shim!Idle
                                   ELSE IF u \in W THEN Roused(u) ELSE pcall[u]],
         \A u \in W : pcall[u].at = "sleep"
  PROVE  ShimInv'
<1>1. WordsSound' /\ HoldersSound'
  BY DEF ShimInv, WordsSound, HoldersSound
<1>2. /\ pcall \in [Users -> CallOf] /\ Shim!Idle \in CallOf
      /\ Shim!Idle.w = None /\ Shim!Idle.m = None
  BY DEF ShimInv, CallsSound, CallOf, Shim!Idle
<1>3. ASSUME NEW u \in W
      PROVE  /\ AskSound(u) /\ PlaceSound(u)
             /\ pcall[u].op = "wait" /\ slot[pcall[u].m] \in Shim!Objs
             /\ pcall[u].m \in Mutexes \ RecursiveOnes /\ pcall[u].w \in Conds
             /\ pcall[u].m \notin held[u] /\ pcall[u] \in CallOf
  <2>1. AskSound(u) /\ PlaceSound(u) /\ pcall[u] \in CallOf /\ pcall[u].at = "sleep"
    BY CallTyped DEF Shim!Idle
  <2>2. /\ pcall[u].op = "wait" /\ slot[pcall[u].m] # None
        /\ pcall[u].m \in Mutexes \ RecursiveOnes /\ pcall[u].w \in Conds
        /\ pcall[u].m \notin held[u]
    BY <2>1 DEF AskSound, PlaceSound
  <2> QED BY <2>1, <2>2, WordsApart DEF ShimInv, WordsSound
<1>4. ASSUME NEW u \in W
      PROVE  /\ Roused(u) \in CallOf /\ Roused(u).op = "wait" /\ Roused(u).w = pcall[u].w
             /\ Roused(u).m = pcall[u].m /\ Roused(u).at = "block"
             /\ Roused(u).o = slot[pcall[u].m]
  <2>1. pcall[u] \in CallOf /\ slot[pcall[u].m] \in Shim!Objs /\ pcall[u].op = "wait"
    BY <1>3
  <2> QED BY ONLY <2>1 DEF Roused, CallOf
<1>5. pcall' \in [Users -> CallOf]
  BY <1>2, <1>4
<1>6. \A v \in Users : pcall'[v].w \in {pcall[v].w, None} /\ pcall'[v].m \in {pcall[v].m, None}
  BY <1>2, <1>4
<1>7. ASSUME NEW u \in Users
      PROVE  pcall'[u] = Shim!Idle \/ (AskSound(u)' /\ PlaceSound(u)')
  <2>1. CASE u \in R \/ pcall'[u] = Shim!Idle
    BY <2>1
  <2>2. CASE u \notin R /\ u \in W
    <3>1. pcall'[u] = Roused(u)
      BY <2>2
    <3> QED BY <1>3, <1>4, <2>2, <3>1, WordsApart
            DEF AskSound, PlaceSound, TakeOps, RwOps, TellOps
  <2>3. CASE u \notin R /\ u \notin W /\ pcall'[u] # Shim!Idle
    <3>1. pcall'[u] = pcall[u]
      BY <2>3
    <3>2. ASSUME pcall[u].w \in Shim!Locks, slot[pcall[u].w] = None, NEW v \in Users \ {u}
          PROVE  ~ Shim!UsedBy(v, pcall[u].w)'
      <4>1. ~ Shim!UsedBy(v, pcall[u].w) /\ pcall[u].w # None
        BY <2>3, <3>1, <3>2, CallTyped, WordsApart DEF PlaceSound, Alone
      <4> QED BY <1>6, <3>1, <4>1 DEF Shim!UsedBy
    <3> QED BY <2>3, <3>1, <3>2, CallKept
  <2> QED BY <2>1, <2>2, <2>3
<1> QED BY <1>1, <1>5, <1>7 DEF ShimInv, CallsSound

\* The steps in which sleepers wake: a signal, and the cap of the wait.
LEMMA RousingStep ==
  ASSUME ShimInv, NEW t \in Users, Shim!Notify(t) \/ Shim!CapFires(t)
  PROVE  ShimInv'
<1>1. CASE Shim!Notify(t)
  <2> DEFINE sleepers == {u \in Users : pcall[u].at = "sleep" /\ pcall[u].o = slot[pcall[t].w]}
  <2>1. PICK woken \in SUBSET sleepers :
          pcall' = [u \in Users |->
                     IF u = t THEN Shim!Idle
                     ELSE IF u \in woken
                          THEN [pcall[u] EXCEPT !.at = "block", !.o = slot[pcall[u].m]]
                     ELSE pcall[u]]
    BY <1>1 DEF Shim!Notify
  <2>2. pcall' = [u \in Users |-> IF u \in {t} THEN Shim!Idle
                                  ELSE IF u \in woken THEN Roused(u) ELSE pcall[u]]
    BY <2>1 DEF Roused
  <2>3. woken \in SUBSET Users /\ \A u \in woken : pcall[u].at = "sleep"
    BY <2>1
  <2>4. UNCHANGED <<slot, real, held>> /\ {t} \in SUBSET Users
    BY <1>1 DEF Shim!Notify
  <2> QED BY <2>2, <2>3, <2>4, WakeStep
<1>2. CASE Shim!CapFires(t)
  <2>1. pcall[t].at = "sleep" /\ UNCHANGED <<slot, real, held>>
    BY <1>2 DEF Shim!CapFires
  <2>2. pcall' = [u \in Users |-> IF u \in {} THEN Shim!Idle
                                  ELSE IF u \in {t} THEN Roused(u) ELSE pcall[u]]
    BY <1>2 DEF Shim!CapFires, Shim!Awake, Roused
  <2>3. {t} \in SUBSET Users /\ {} \in SUBSET Users
    OBVIOUS
  <2> QED BY <2>1, <2>2, <2>3, WakeStep
<1> QED BY <1>1, <1>2

-----------------------------------------------------------------------------
(* The shim and the collector.                                             *)

\* No word has an object and nobody holds or calls anything.
LEMMA ShimInitially == Shim!Init => ShimInv
<1> SUFFICES ASSUME Shim!Init PROVE ShimInv
  OBVIOUS
<1>1. WordsSound
  <2>1. Shim!Dead \in [by : Users \cup {None}, n : 0 .. MaxDepth, rd : SUBSET Users, rec : BOOLEAN]
    BY WordsApart DEF Shim!Dead, Shim!NewObject
  <2> QED BY <2>1 DEF Shim!Init, WordsSound
<1>2. HoldersSound
  BY WordsApart DEF Shim!Init, HoldersSound
<1>3. CallsSound
  BY DEF Shim!Init, CallsSound, CallOf, Shim!Idle
<1> QED BY <1>1, <1>2, <1>3 DEF ShimInv

\* Every step of the shim keeps the invariant.
LEMMA ShimStep == ShimInv /\ [Shim!Next]_pthreadVars => ShimInv'
<1> SUFFICES ASSUME ShimInv, [Shim!Next]_pthreadVars PROVE ShimInv'
  OBVIOUS
<1>1. CASE UNCHANGED pthreadVars
  BY <1>1 DEF pthreadVars, ShimInv, WordsSound, HoldersSound, CallsSound, AskSound, PlaceSound,
              Alone, Shim!UsedBy
<1>2. CASE Shim!Lock \/ Shim!Read \/ Shim!Wait \/ Shim!Signal \/ \E t \in Users : Shim!Unlock(t)
  BY <1>2, AskStep
<1>3. CASE Shim!Destroy
  BY <1>3, DestroyStep
<1>4. CASE \E t \in Users : Shim!Step(t)
  BY <1>4, CheckStep, StoreStep, TryMutexStep, AcquireStep, UnlockMutexStep, RwLockStep,
     RwUnlockStep, SleepStep, RousingStep DEF Shim!Step
<1>5. CASE \E t \in Users : Shim!CapFires(t)
  BY <1>5, RousingStep
<1> QED BY <1>1, <1>2, <1>3, <1>4, <1>5 DEF Shim!Next

\* A lock that two threads hold is an rwlock and both are its readers.
LEMMA HoldersExclude == ShimInv => Shim!TypeOK /\ Shim!Excludes
<1> SUFFICES ASSUME ShimInv PROVE Shim!TypeOK /\ Shim!Excludes
  OBVIOUS
<1>1. Shim!TypeOK
  BY DEF ShimInv, WordsSound, HoldersSound, Shim!TypeOK
<1>2. ASSUME NEW t \in Users, NEW u \in Users, t # u, NEW w \in held[t] \cap held[u]
      PROVE  w \in RwLocks /\ {t, u} \subseteq real[slot[w]].rd
  <2>1. w \in Mutexes \cup RwLocks /\ slot[w] # None
    BY DEF ShimInv, HoldersSound, Shim!Locks
  <2>2. w \notin Mutexes
    BY <1>2, <2>1, MutexCounts
  <2>3. /\ w \in RwLocks
        /\ real[slot[w]].by = t \/ t \in real[slot[w]].rd
        /\ real[slot[w]].by = u \/ u \in real[slot[w]].rd
        /\ real[slot[w]].by # None => real[slot[w]].rd = {}
    BY <2>1, <2>2 DEF ShimInv, HoldersSound
  <2> QED BY <1>2, <2>3, WordsApart
<1> QED BY <1>1, <1>2 DEF Shim!Excludes

\* The semaphore starts as none, which is one above its bound.
LEMMA BridgeInitially == Bridge!Init => Bridge!TypeOK
<1> SUFFICES ASSUME Bridge!Init PROVE Bridge!TypeOK
  OBVIOUS
<1>1. Bridge!NoSem \in 0 .. Bridge!NoSem
  BY BridgeAssumption DEF Bridge!NoSem, Bridge!GcAssumption
<1>2. gc.left = {}
  BY DEF Bridge!Init, Bridge!Phase
<1> QED BY <1>1, <1>2 DEF Bridge!Init, Bridge!TypeOK

\* Posts and takes keep the count of the semaphore inside its bound.
LEMMA BridgeStep == Bridge!TypeOK /\ [Bridge!Next]_bridgeVars => Bridge!TypeOK'
<1> SUFFICES ASSUME Bridge!TypeOK, [Bridge!Next]_bridgeVars PROVE Bridge!TypeOK'
  OBVIOUS
<1>1. /\ MaxCount \in Nat /\ sem \in 0 .. MaxCount + 1 /\ gc.left \subseteq Users
      /\ Bridge!NoSem = MaxCount + 1
  BY BridgeAssumption DEF Bridge!TypeOK, Bridge!NoSem, Bridge!GcAssumption
<1>2. Bridge!Acked(sem) \in 0 .. MaxCount + 1
  BY <1>1 DEF Bridge!Acked, Bridge!Post, Bridge!NoSem
<1>3. CASE UNCHANGED bridgeVars
  BY <1>3 DEF bridgeVars, Bridge!TypeOK
<1>4. CASE Bridge!SetBase \/ Bridge!GcInit
  <2>1. base' \in BOOLEAN /\ ready' \in BOOLEAN /\ gate' \in BOOLEAN
    BY <1>4 DEF Bridge!TypeOK, Bridge!SetBase, Bridge!GcInit
  <2>2. gc' = gc /\ sem' \in {sem, 0}
    BY <1>4 DEF Bridge!SetBase, Bridge!GcInit
  <2> QED BY <1>1, <2>1, <2>2 DEF Bridge!TypeOK
<1>5. CASE Bridge!StopWorld
  BY <1>5 DEF Bridge!TypeOK, Bridge!StopWorld, Bridge!Phase
<1>6. CASE Bridge!KillSuspend
  <2>1. /\ gc'.left \subseteq gc.left /\ sem' = Bridge!Acked(sem) /\ UNCHANGED <<base, ready, gate>>
    BY <1>6 DEF Bridge!KillSuspend, Bridge!Phase
  <2> QED BY <1>1, <1>2, <2>1 DEF Bridge!TypeOK
<1>7. CASE Bridge!TakeAck
  <2>1. /\ gc'.left \subseteq Users /\ sem' \in {sem, sem - 1}
        /\ UNCHANGED <<base, ready, gate>>
        /\ (sem' # sem => sem \in 1 .. MaxCount)
    BY <1>7 DEF Bridge!TakeAck, Bridge!Phase
  <2>2. sem' \in 0 .. MaxCount + 1
    BY <1>1, <2>1
  <2> QED BY <1>1, <2>1, <2>2 DEF Bridge!TypeOK
<1>8. CASE Bridge!KillRestart
  <2>1. /\ gc'.left \subseteq gc.left /\ sem' \in {sem, Bridge!Acked(sem)}
        /\ UNCHANGED <<base, ready, gate>>
    BY <1>1, <1>8 DEF Bridge!KillRestart, Bridge!Phase
  <2> QED BY <1>1, <1>2, <2>1 DEF Bridge!TypeOK
<1> QED BY <1>3, <1>4, <1>5, <1>6, <1>7, <1>8 DEF Bridge!Next

\* imports.c, pthread: no two threads are told they hold one lock, but for readers,
\* whatever the lock is made of and whenever it was made.
THEOREM ThreadsAreSound == MCSpec => []ThreadsSound
<1>1. MCInit => ShimInv /\ Bridge!TypeOK
  BY ShimInitially, BridgeInitially DEF MCInit
<1>2. ShimInv /\ Bridge!TypeOK /\ [MCNext]_allVars => ShimInv' /\ Bridge!TypeOK'
  <2>1. [MCNext]_allVars => [Shim!Next]_pthreadVars /\ [Bridge!Next]_bridgeVars
    BY DEF MCNext, InFutex, InShim, InBridge, allVars, pthreadVars, bridgeVars
  <2> QED BY <2>1, ShimStep, BridgeStep
<1>3. ShimInv /\ Bridge!TypeOK => ThreadsSound
  BY HoldersExclude DEF ThreadsSound
<1> QED BY <1>1, <1>2, <1>3, PTL DEF MCSpec

\* A behaviour of the whole is one of the futex shim for what that sees, so that what
\* is proved of Spec holds in it.
THEOREM FutexInWhole == MCSpec => Spec
<1>1. MCInit => Init
  BY DEF MCInit
<1>2. [MCNext]_allVars => [Next]_vars
  BY DEF MCNext, InFutex, InShim, InBridge, allVars, vars
<1> QED BY <1>1, <1>2, PTL DEF MCSpec, Spec

=============================================================================
