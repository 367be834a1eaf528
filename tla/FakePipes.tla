------------------------------ MODULE FakePipes -------------------------------
(* fakefd.c: the pipes the engine's threads signal each other through.  A    *)
(* table of descriptors points into heap-made rings; one lock and one         *)
(* condition serve them all.  A reader waits inside its call and keeps the    *)
(* ring it looked up.                                                         *)
EXTENDS Integers, Sequences, FiniteSets, SequencesExt

CONSTANTS
  Threads,
  MaxFakeFds,     \* MAX_FAKE_FDS
  PipeCap,        \* PIPE_CAP, in bytes
  Rings,          \* addresses calloc may return for a ring
  Chunk,          \* most bytes one write offers or one read asks for
  MaxSent,        \* bound on the bytes sent through one pipe
  CloseIdle,      \* the engine closes no read end that a thread reads from
  None

PipesAssumption ==
  /\ MaxFakeFds \in Nat /\ PipeCap \in Nat \ {0} /\ Chunk \in Nat \ {0}
  /\ CloseIdle \in BOOLEAN /\ None \notin Rings

VARIABLES
  fds,      \* g_fds
  ring,     \* the rings: bytes in them, references; and what was sent through
            \*   and received from each since it was made (kept by no code)
  reader    \* the fakefd_read a thread is in: its ring, whether it sleeps

vars == <<fds, ring, reader>>

Slots == 1..MaxFakeFds
NoFd == [kind |-> "none", ring |-> None]
NoRing == [buf |-> <<>>, refs |-> 0, sent |-> 0, got |-> <<>>]
NotReading == [ring |-> None, fd |-> 0, asleep |-> FALSE]

Init ==
  /\ fds = [i \in Slots |-> NoFd]
  /\ ring = [p \in Rings |-> NoRing]
  /\ reader = [t \in Threads |-> NotReading]

(* alloc_slot, for the read end and then for the write end. *)
FreeSlots == { i \in Slots : fds[i].kind = "none" }
FreeRings == { p \in Rings : ring[p].refs <= 0 }
Lowest(S) == CHOOSE i \in S : \A j \in S : i <= j

Pipe ==
  /\ Cardinality(FreeSlots) >= 2
  /\ LET r == Lowest(FreeSlots) w == Lowest(FreeSlots \ {r}) IN
     \E p \in FreeRings :
       /\ fds' = [fds EXCEPT ![r] = [kind |-> "r", ring |-> p], ![w] = [kind |-> "w", ring |-> p]]
       /\ ring' = [ring EXCEPT ![p] = [NoRing EXCEPT !.refs = 2]]
  /\ UNCHANGED reader

(* condvarWakeAll *)
WokenAll == [t \in Threads |-> [reader[t] EXCEPT !.asleep = FALSE]]

Lesser(m, n) == IF m < n THEN m ELSE n
Room(p) == PipeCap - Len(ring[p].buf)
Numbered(p, n) == [k \in 1..n |-> ring[p].sent + k]   \* bytes are numbered

Write ==
  \E i \in Slots, n \in 1..Chunk :
    /\ fds[i].kind = "w"
    /\ LET p == fds[i].ring wrote == Lesser(n, Room(p)) IN
         /\ ring[p].sent + wrote <= MaxSent
         /\ ring' = [ring EXCEPT ![p].buf = @ \o Numbered(p, wrote), ![p].sent = @ + wrote]
    /\ reader' = WokenAll
    /\ UNCHANGED fds

(* A read takes what there is, nothing at the end of the pipe, or waits.     *)
Dry(p) == ring[p].buf = <<>> /\ ring[p].refs > 1
Take(p, n) ==
  LET got == Lesser(n, Len(ring[p].buf)) IN
  ring' = [ring EXCEPT ![p].buf = SubSeq(@, got + 1, Len(@)),
                       ![p].got = @ \o SubSeq(ring[p].buf, 1, got)]

ReadCall(t) ==
  \E i \in Slots :
    /\ reader[t] = NotReading /\ fds[i].kind = "r"
    /\ \/ /\ Dry(fds[i].ring)
          /\ reader' = [reader EXCEPT ![t] = [ring |-> fds[i].ring, fd |-> i, asleep |-> TRUE]]
          /\ UNCHANGED ring
       \/ ~Dry(fds[i].ring) /\ (\E n \in 1..Chunk : Take(fds[i].ring, n)) /\ UNCHANGED reader
    /\ UNCHANGED fds

Awakes(t) ==
  /\ reader[t] # NotReading /\ ~reader[t].asleep
  /\ \/ Dry(reader[t].ring) /\ reader' = [reader EXCEPT ![t].asleep = TRUE] /\ UNCHANGED ring
     \/ /\ ~Dry(reader[t].ring)
        /\ \E n \in 1..Chunk : Take(reader[t].ring, n)
        /\ reader' = [reader EXCEPT ![t] = NotReading]
  /\ UNCHANGED fds

(* The last end closed frees the ring; a sleeping reader is to see the end. *)
NotWoken == reader                                 \* mutant: nobody is woken
WokenByClose == WokenAll
UnrefTwice(i) == [ring EXCEPT ![fds[i].ring].refs = @ - 2]   \* mutant
Unref(i) == [ring EXCEPT ![fds[i].ring].refs = @ - 1]
Close ==
  \E i \in Slots :
    /\ fds[i].kind # "none"
    /\ CloseIdle /\ fds[i].kind = "r" => \A t \in Threads : reader[t].fd # i
    /\ fds' = [fds EXCEPT ![i] = NoFd]
    /\ ring' = Unref(i)
    /\ reader' = WokenByClose

Next == Pipe \/ Write \/ Close \/ \E t \in Threads : ReadCall(t) \/ Awakes(t)

Spec == Init /\ [][Next]_vars
Fairness == \A t \in Threads : WF_vars(Awakes(t))

TypeOK ==
  /\ \A i \in Slots : fds[i].kind \in {"none", "r", "w"} /\ fds[i].ring \in Rings \cup {None}
  /\ \A p \in Rings : Len(ring[p].buf) <= PipeCap /\ ring[p].refs \in 0..2

(* The bytes read from a pipe are the bytes its writers were told they had   *)
(* written, in their order, none lost or twice, whoever reads; descriptors   *)
(* count the references of their ring; and a thread that waits in a read     *)
(* waits on the ring its descriptor names, not on one that was freed or      *)
(* given to another pipe.                                                    *)
PipesCarry ==
  /\ \A p \in Rings : ring[p].refs > 0 =>
       /\ ring[p].got \o ring[p].buf = [k \in 1..ring[p].sent |-> k]
       /\ ring[p].refs = Cardinality({ i \in Slots : fds[i].ring = p })
  /\ \A t \in Threads : reader[t] # NotReading => fds[reader[t].fd] = [kind |-> "r", ring |-> reader[t].ring]

(* A reader returns once its pipe has data or has lost its writer, unless    *)
(* another one takes the data.                                               *)
ReadersReturn == \A t \in Threads :
  reader[t] # NotReading /\ ~Dry(reader[t].ring) ~>
    reader[t] = NotReading \/ Dry(reader[t].ring)
=============================================================================
