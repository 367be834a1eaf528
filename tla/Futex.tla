-------------------------------- MODULE Futex --------------------------------
(***************************************************************************)
(* futex_impl of source/libc_shim.c: futex(2) on a libnx mutex and a libnx *)
(* condition variable per bucket of words.  il2cpp's collector, thread     *)
(* pool and locks park their threads here; they store to a word without    *)
(* any lock and then wake, so that only the bucket's mutex stands between  *)
(* a waiter's compare and its sleep.                                       *)
(***************************************************************************)
EXTENDS Integers

CONSTANTS
  Threads,
  Words,      \* addresses of futex words
  Vals,       \* values of a word
  Buckets,    \* indices of futex_lock and futex_cond
  Bucket,     \* the hash of each word
  None

ASSUME FutexAssumption == /\ Bucket \in [Words -> Buckets]
                          /\ None \notin Threads \cup Words \cup (Words \X Vals)
                          /\ Words # {} /\ Vals # {}

VARIABLES
  word,     \* *uaddr
  holder,   \* futex_lock[h]: the thread that holds it, or None
  pc,       \* where each thread is in futex_impl
  call      \* the arguments of its call: uaddr, val

vars == <<word, holder, pc, call>>

Calls    == [word : Words, val : Vals]
NoCall   == CHOOSE c \in Calls : TRUE
PC       == {"idle", "wait", "compare", "sleep", "asleep", "relock", "unlock", "wake", "wakeAll"}
At(t, l) == pc[t] = l
Goto(t, l) == pc' = [pc EXCEPT ![t] = l]
Lock(t)  == Bucket[call[t].word]
InLock   == {"compare", "sleep", "unlock", "wakeAll"}

Init ==
  /\ word \in [Words -> Vals]
  /\ holder = [h \in Buckets |-> None]
  /\ pc = [t \in Threads |-> "idle"]
  /\ call = [t \in Threads |-> NoCall]

-----------------------------------------------------------------------------
(* The callers.                                                            *)

\* FUTEX_WAIT for a word to change from the value the caller last saw.
WaitCall(t, u, v) ==
  /\ At(t, "idle")
  /\ call' = [call EXCEPT ![t] = [word |-> u, val |-> v]]
  /\ Goto(t, "wait")
  /\ UNCHANGED <<word, holder>>

\* A store, with no lock held, and the FUTEX_WAKE that follows it.
StoreAndWake(t, u, v) ==
  /\ At(t, "idle")
  /\ word' = [word EXCEPT ![u] = v]
  /\ call' = [call EXCEPT ![t] = [word |-> u, val |-> v]]
  /\ Goto(t, "wake")
  /\ UNCHANGED holder

-----------------------------------------------------------------------------
(* futex_impl                                                              *)

Acquire(t) ==
  /\ holder[Lock(t)] = None
  /\ holder' = [holder EXCEPT ![Lock(t)] = t]

Release(t) == holder' = [holder EXCEPT ![Lock(t)] = None]

\* FUTEX_WAIT: mutexLock
LockWait(t) ==
  /\ At(t, "wait") /\ Acquire(t)
  /\ Goto(t, "compare")
  /\ UNCHANGED <<word, call>>

CompareNot(t) ==   \* mutant of Compare: it sleeps whatever the word is
  /\ At(t, "compare")
  /\ Goto(t, "sleep")
  /\ UNCHANGED <<word, holder, call>>

\* "*uaddr != val" returns EAGAIN.
Compare(t) ==
  /\ At(t, "compare")
  /\ Goto(t, IF word[call[t].word] # call[t].val THEN "unlock" ELSE "sleep")
  /\ UNCHANGED <<word, holder, call>>

\* condvarWaitTimeout releases the mutex and sleeps in one step.
Sleep(t) ==
  /\ At(t, "sleep") /\ Release(t)
  /\ Goto(t, "asleep")
  /\ UNCHANGED <<word, call>>

TimeUpNever(t) ==   \* mutant of TimeUp: condvarWait, which has no timeout
  At(t, "asleep") /\ FALSE /\ UNCHANGED vars

\* It returns after `to', or after 16 ms if there is none.
TimeUp(t) ==
  /\ At(t, "asleep")
  /\ Goto(t, "relock")
  /\ UNCHANGED <<word, holder, call>>

\* Woken or not, it has the mutex when it returns.
Relock(t) ==
  /\ At(t, "relock") /\ Acquire(t)
  /\ Goto(t, "unlock")
  /\ UNCHANGED <<word, call>>

UnlockForgotten(t) ==   \* mutant of Unlock: an early return skips mutexUnlock
  /\ At(t, "unlock") /\ UNCHANGED holder
  /\ Goto(t, "idle") /\ call' = [call EXCEPT ![t] = NoCall]
  /\ UNCHANGED word

Unlock(t) ==
  /\ At(t, "unlock") /\ Release(t)
  /\ Goto(t, "idle") /\ call' = [call EXCEPT ![t] = NoCall]
  /\ UNCHANGED word

LockWakeNot(t) ==   \* mutant of LockWake: condvarWakeAll outside the mutex
  /\ At(t, "wake")
  /\ Goto(t, "wakeAll")
  /\ UNCHANGED <<word, holder, call>>

\* FUTEX_WAKE: mutexLock
LockWake(t) ==
  /\ At(t, "wake") /\ Acquire(t)
  /\ Goto(t, "wakeAll")
  /\ UNCHANGED <<word, call>>

\* condvarWakeAll: every thread asleep in the bucket, whatever its word.
WakeAll(t) ==
  /\ At(t, "wakeAll")
  /\ pc' = [r \in Threads |-> IF r = t THEN "unlock"
                              ELSE IF At(r, "asleep") /\ Lock(r) = Lock(t) THEN "relock"
                              ELSE pc[r]]
  /\ UNCHANGED <<word, holder, call>>

-----------------------------------------------------------------------------

Step(t) == LockWait(t) \/ Compare(t) \/ Sleep(t) \/ TimeUp(t) \/ Relock(t) \/ Unlock(t)
             \/ LockWake(t) \/ WakeAll(t)

Next ==
  \E t \in Threads :
    \/ \E u \in Words, v \in Vals :
         WaitCall(t, u, v) \/ StoreAndWake(t, u, v)
    \/ Step(t)

Spec == Init /\ [][Next]_vars

\* Threads run and time passes; the kernel hands a libnx mutex to its waiters
\* in turn, so that nobody waits for one for ever.
Runs(t) == Compare(t) \/ Sleep(t) \/ TimeUp(t) \/ Unlock(t) \/ WakeAll(t)
Takes(t) == LockWait(t) \/ Relock(t) \/ LockWake(t)
Fairness == \A t \in Threads : WF_vars(Runs(t)) /\ SF_vars(Takes(t))
FairSpec == Spec /\ Fairness

-----------------------------------------------------------------------------

\* A bucket's mutex is held exactly by the thread in its critical section.
TypeOK ==
  /\ word \in [Words -> Vals]
  /\ holder \in [Buckets -> Threads \cup {None}]
  /\ pc \in [Threads -> PC]
  /\ call \in [Threads -> Calls]
  /\ \A t \in Threads : pc[t] \in InLock <=> holder[Lock(t)] = t
  /\ \A h \in Buckets : holder[h] # None => Lock(holder[h]) = h

\* "The bucket mutex serializes compare-and-sleep against wakers so no wake is
\* lost" (libc_shim.c:155): a thread sleeps on a value the word no longer has only
\* as long as whoever changed it is still on its way to wake it.
NoWakeLost ==
  \A t \in Threads :
    pc[t] \in {"sleep", "asleep"} /\ word[call[t].word] # call[t].val =>
      \E s \in Threads : pc[s] \in {"wake", "wakeAll"} /\ call[s].word = call[t].word

\* futex_impl implements the system call its callers were written for.
Kernel == INSTANCE KernelFutex WITH
            blocked <- [t \in Threads |-> IF pc[t] \in {"sleep", "asleep"}
                                            THEN <<call[t].word, call[t].val>> ELSE None],
            waking  <- [t \in Threads |-> IF pc[t] \in {"wake", "wakeAll"}
                                            THEN call[t].word ELSE None]
ImplementsFutex == Kernel!Spec

\* Every call returns, also when the wake never comes: "a bounded re-poll
\* recovers it safely" (libc_shim.c:157-158).
CallsReturn == \A t \in Threads : ~ At(t, "idle") ~> At(t, "idle")

=============================================================================
