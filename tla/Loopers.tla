------------------------------- MODULE Loopers --------------------------------
(* android_native_unity.c: ALooper as the engine uses it, a wait that another *)
(* thread ends.  A looper is an entry of a fixed table found by the handle of *)
(* the thread; the system gives a handle again when its thread has ended, and *)
(* nothing gives the looper of a thread that ends back.                       *)
EXTENDS Integers, FiniteSets

CONSTANTS
  Handles,       \* thread handles the system gives out
  MaxLoopers,    \* MAX_LOOPERS
  MaxRefs,       \* how many references the engine takes to one looper
  Timed,         \* threads that poll with a timeout
  None

LoopersAssumption == MaxLoopers \in Nat \ {0} /\ MaxRefs \in Nat \ {0} /\ Timed \subseteq Handles

VARIABLES
  alive,     \* the handles that name a running thread
  looper,    \* g_loopers
  poll,      \* where each thread is: "out", "locking", "asleep", "woken"; and
             \*   the looper it polls
  refs,      \* the references the engine holds to each, beside the owner's
  fell       \* a poll without a looper: a NULL mutex

vars == <<alive, looper, poll, refs, fell>>

Table == 1..MaxLoopers
Unused == [used |-> FALSE, owner |-> None, signaled |-> FALSE, refs |-> 0]
Out == [at |-> "out", l |-> 0]

Init ==
  /\ alive = {} /\ fell = FALSE
  /\ looper = [i \in Table |-> Unused]
  /\ poll = [h \in Handles |-> Out]
  /\ refs = [i \in Table |-> 0]

ThreadStarts == \E h \in Handles \ alive :
  alive' = alive \cup {h} /\ UNCHANGED <<looper, poll, refs, fell>>
ThreadEnds == \E h \in alive :
  /\ poll[h] = Out
  /\ alive' = alive \ {h} /\ UNCHANGED <<looper, poll, refs, fell>>

(* looper_for, under g_loopers_lock: the looper of the handle, else a free one. *)
Mine(h) == { i \in Table : looper[i].used /\ looper[i].owner = h }
FirstUnused == { i \in Table : ~looper[i].used /\ \A j \in 1..(i - 1) : looper[j].used }
LooperFor(h) == IF Mine(h) # {} THEN Mine(h) ELSE FirstUnused
FreshUnowned(h) ==                   \* mutant: the owner's reference is not counted
  [used |-> TRUE, owner |-> h, signaled |-> FALSE, refs |-> 0]
Fresh(h) == [used |-> TRUE, owner |-> h, signaled |-> FALSE, refs |-> 1]
Made(h) == IF Mine(h) # {} THEN looper
           ELSE [i \in Table |-> IF i \in FirstUnused THEN Fresh(h) ELSE looper[i]]

Prepare == \E h \in alive :                  \* ALooper_prepare, ALooper_forThread
  /\ poll[h] = Out
  /\ looper' = Made(h)
  /\ UNCHANGED <<alive, poll, refs, fell>>

(* Another thread that knows a looper keeps it with a reference; it wakes it *)
(* only while it holds one.                                                  *)
Acquire == \E i \in Table :
  /\ looper[i].used /\ refs[i] < MaxRefs
  /\ looper' = [looper EXCEPT ![i].refs = @ + 1]
  /\ refs' = [refs EXCEPT ![i] = @ + 1]
  /\ UNCHANGED <<alive, poll, fell>>
Release == \E i \in Table :
  /\ refs[i] > 0
  /\ refs' = [refs EXCEPT ![i] = @ - 1]
  /\ looper' = [looper EXCEPT ![i].refs = @ - 1, ![i].used = looper[i].refs > 1]
  /\ UNCHANGED <<alive, poll, fell>>

(* ALooper_wake *)
AwakenNone(l) == poll                \* mutant: the flag is set and nobody woken
Awaken(l) == [h \in Handles |->
  IF poll[h].l = l /\ poll[h].at = "asleep" THEN [poll[h] EXCEPT !.at = "woken"] ELSE poll[h]]
Signaled(l) == [looper EXCEPT ![l].signaled = TRUE]
Wake == \E i \in Table :
  /\ refs[i] > 0
  /\ looper' = Signaled(i)
  /\ poll' = Awaken(i)
  /\ UNCHANGED <<alive, refs, fell>>

(* ALooper_pollOnce: looks its looper up, then locks it. *)
PollCall(h) ==
  /\ h \in alive /\ poll[h] = Out
  /\ looper' = Made(h)
  /\ IF LooperFor(h) = {} THEN fell' = TRUE /\ UNCHANGED poll
     ELSE /\ \E l \in LooperFor(h) : poll' = [poll EXCEPT ![h] = [at |-> "locking", l |-> l]]
          /\ UNCHANGED fell
  /\ UNCHANGED <<alive, refs>>

Ends(h) ==
  /\ poll' = [poll EXCEPT ![h] = Out]
  /\ looper' = [looper EXCEPT ![poll[h].l].signaled = FALSE]
PollLock(h) ==
  /\ poll[h].at = "locking"
  /\ \/ looper[poll[h].l].signaled /\ Ends(h)
     \/ /\ ~looper[poll[h].l].signaled
        /\ h \in Timed /\ poll' = [poll EXCEPT ![h] = Out]      \* timeout 0
        /\ UNCHANGED looper
     \/ /\ ~looper[poll[h].l].signaled
        /\ poll' = [poll EXCEPT ![h].at = "asleep"] /\ UNCHANGED looper
  /\ UNCHANGED <<alive, refs, fell>>
PollWoken(h) == poll[h].at = "woken" /\ Ends(h) /\ UNCHANGED <<alive, refs, fell>>
TimeUp(h) ==
  /\ h \in Timed /\ poll[h].at = "asleep"
  /\ Ends(h) /\ UNCHANGED <<alive, refs, fell>>

Next == \/ ThreadStarts \/ ThreadEnds \/ Prepare \/ Acquire \/ Release \/ Wake
        \/ \E h \in Handles : PollCall(h) \/ PollLock(h) \/ PollWoken(h) \/ TimeUp(h)

Spec == Init /\ [][Next]_vars
Polls(h) == PollLock(h) \/ PollWoken(h) \/ TimeUp(h)
Fairness == \A h \in Handles : WF_vars(Polls(h))

TypeOK ==
  /\ alive \subseteq Handles /\ fell \in BOOLEAN
  /\ \A i \in Table : looper[i].owner \in Handles \cup {None} /\ looper[i].refs \in 0..(MaxRefs + 1)

(* With a looper for each handle no poll is left without one; a thread polls *)
(* the looper that is its own, which nobody gave back meanwhile; two loopers *)
(* never belong to one handle; and no thread sleeps on a signaled looper.    *)
LoopersSound ==
  /\ ~fell
  /\ \A h \in Handles : Cardinality(Mine(h)) <= 1
  /\ \A h \in Handles : poll[h] # Out =>
       /\ poll[h].l \in Mine(h)
       /\ poll[h].at = "asleep" => ~looper[poll[h].l].signaled

(* A wake ends the poll of the thread it is for, the one it is in or the     *)
(* next: it is not lost between the look at the flag and the sleep.          *)
WakesArrive == \A h \in Handles :
  poll[h] # Out /\ looper[poll[h].l].signaled ~> poll[h] = Out
=============================================================================
