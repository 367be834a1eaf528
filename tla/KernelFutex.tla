----------------------------- MODULE KernelFutex -----------------------------
(***************************************************************************)
(* What a caller of futex(2) relies on: FUTEX_WAIT compares and blocks in  *)
(* one step, and FUTEX_WAKE leaves nobody blocked on its word.  A blocked  *)
(* thread may also go on by itself (timeout, spurious wake).               *)
(***************************************************************************)
CONSTANTS Threads, Words, Vals, None

VARIABLES
  word,      \* the value of each futex word
  blocked,   \* <<word, expected value>> each thread is blocked on, or None
  waking     \* the word each thread is about to wake, or None

Init ==
  /\ word \in [Words -> Vals]
  /\ blocked = [t \in Threads |-> None]
  /\ waking = [t \in Threads |-> None]

Store(u, v) == word' = [word EXCEPT ![u] = v] /\ UNCHANGED blocked

\* The compare is what makes it legal to block: only on the value expected.
Wait(t, u, v) ==
  /\ word[u] = v /\ blocked[t] = None
  /\ blocked' = [blocked EXCEPT ![t] = <<u, v>>]
  /\ UNCHANGED <<word, waking>>

\* A store that other threads may be waiting for is followed by a wake.
StoreAndWake(t, u, v) ==
  /\ waking[t] = None /\ waking' = [waking EXCEPT ![t] = u]
  /\ Store(u, v)

\* Threads blocked on other words may be woken too, those on this one must be.
Wake(t) ==
  /\ waking[t] # None /\ waking' = [waking EXCEPT ![t] = None]
  /\ \E s \in SUBSET {r \in Threads : blocked[r] # None} :
       /\ \A r \in Threads, v \in Vals : blocked[r] = <<waking[t], v>> => r \in s
       /\ blocked' = [r \in Threads |-> IF r \in s THEN None ELSE blocked[r]]
  /\ UNCHANGED word

Spurious(t) ==
  /\ blocked[t] # None /\ blocked' = [blocked EXCEPT ![t] = None]
  /\ UNCHANGED <<word, waking>>

Next ==
  \E t \in Threads :
    \/ \E u \in Words, v \in Vals : Wait(t, u, v) \/ StoreAndWake(t, u, v)
    \/ Wake(t) \/ Spurious(t)

Spec == Init /\ [][Next]_<<word, blocked, waking>>

=============================================================================
