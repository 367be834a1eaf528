----------------------------- MODULE SoundQueues -----------------------------
(***************************************************************************)
(* What a user of OpenSL ES buffer queues counts on: the buffers of a      *)
(* player are played in the order they were enqueued, each completes once, *)
(* and only clearing or destroying the player takes one away.              *)
(***************************************************************************)
EXTENDS Sequences

CONSTANTS Players, Buffers

VARIABLES
  open,     \* players that exist
  pending   \* per player, the buffers not yet completed, the next one first

vars == <<open, pending>>

Init == open = {} /\ pending = [p \in Players |-> <<>>]

Create(p) == p \notin open /\ open' = open \cup {p} /\ UNCHANGED pending

\* Destroyed, or taken back by the library, which may only do so to a player
\* that has nothing left to play; a new player may take its place at once.
Close(p) ==
  /\ p \in open
  /\ pending' = [pending EXCEPT ![p] = <<>>]
  /\ open' = open \ {p}

Replace(p, new) ==
  /\ p \in open /\ pending[p] = <<>> /\ new \notin open
  /\ open' = (open \ {p}) \cup {new}
  /\ UNCHANGED pending

Enqueue(p, b) ==
  /\ p \in open
  /\ pending' = [pending EXCEPT ![p] = Append(@, b)]
  /\ UNCHANGED open

Complete(p) ==
  /\ p \in open /\ pending[p] # <<>>
  /\ pending' = [pending EXCEPT ![p] = Tail(@)]
  /\ UNCHANGED open

Clear(p) ==
  /\ p \in open
  /\ pending' = [pending EXCEPT ![p] = <<>>]
  /\ UNCHANGED open

Next ==
  \E p \in Players :
    \/ Create(p) \/ Close(p) \/ Complete(p) \/ Clear(p)
    \/ \E new \in Players : Replace(p, new)
    \/ \E b \in Buffers : Enqueue(p, b)

Spec == Init /\ [][Next]_vars

=============================================================================
