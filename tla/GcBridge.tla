------------------------------ MODULE GcBridge -------------------------------
(* libc_shim.c: the semaphores the engine uses, and the garbage collector's   *)
(* stop-the-world.  The collector signals every other thread and waits on a   *)
(* semaphore for as many acknowledgements; no signal is ever delivered here,  *)
(* so pthread_kill itself posts what the handler would have posted.           *)
EXTENDS Naturals

CONSTANTS
  Mutators,     \* the threads the collector signals
  MaxCount      \* bound on the semaphore's count: posts above it are not seen

GcAssumption == MaxCount \in Nat \ {0}

VARIABLES
  base,      \* g_il2cpp_base is set
  ready,     \* the collector is up: its signal numbers are in its globals
  gate,      \* its start-world flag at GC_START_ACK_OFF
  sem,       \* its semaphore: no FakeSem yet, or the count
  gc         \* what the collector does: a phase, who is left to signal, the
             \*   acknowledgements left to take

vars == <<base, ready, gate, sem, gc>>

NoSem == MaxCount + 1
Phase(p, left, acks) == [phase |-> p, left |-> left, acks |-> acks]

Init ==
  /\ base = FALSE /\ ready = FALSE /\ gate = FALSE
  /\ sem = NoSem
  /\ gc = Phase("running", {}, 0)

(* main stores the base address before any code of libil2cpp runs. *)
SetBase == ~base /\ base' = TRUE /\ UNCHANGED <<ready, gate, sem, gc>>

(* The collector comes up: sem_init_fake, and its signal numbers. *)
GcInit ==
  /\ base /\ ~ready
  /\ sem' = 0 /\ ready' = TRUE /\ gate' \in BOOLEAN
  /\ UNCHANGED <<base, gc>>

Post(s) == IF s = NoSem \/ s = MaxCount THEN s ELSE s + 1   \* sem_post_fake

StopWorld ==
  /\ ready /\ gc.phase = "running"
  /\ gc' = Phase("stopping", Mutators, 0)
  /\ UNCHANGED <<base, ready, gate, sem>>

(* pthread_kill_gc with the suspend signal posts the acknowledgement. *)
AckedNever(s) == s                \* mutant: a signal is only a signal
Acked(s) == IF base THEN Post(s) ELSE s
KillSuspend ==
  /\ gc.phase = "stopping"
  /\ \E t \in gc.left :
       /\ gc' = Phase("stopping", gc.left \ {t}, gc.acks + 1)
       /\ sem' = Acked(sem)
  /\ UNCHANGED <<base, ready, gate>>

(* sem_wait_fake for each acknowledgement. *)
TakeAck ==
  /\ gc.phase = "stopping" /\ gc.left = {}
  /\ \/ /\ gc.acks > 0 /\ sem \in 1..MaxCount
        /\ sem' = sem - 1
        /\ gc' = Phase("stopping", {}, gc.acks - 1)
     \/ gc.acks = 0 /\ gc' = Phase("stopped", Mutators, 0) /\ UNCHANGED sem
  /\ UNCHANGED <<base, ready, gate>>

(* GC_start_world signals every thread and waits for none; with the gate    *)
(* set, each signal leaves one acknowledgement behind.                      *)
KillRestart ==
  /\ gc.phase = "stopped"
  /\ \/ \E t \in gc.left :
          /\ gc' = Phase("stopped", gc.left \ {t}, 0)
          /\ sem' = IF gate THEN Acked(sem) ELSE sem
     \/ gc.left = {} /\ gc' = Phase("running", {}, 0) /\ UNCHANGED sem
  /\ UNCHANGED <<base, ready, gate>>

Next == SetBase \/ GcInit \/ StopWorld \/ KillSuspend \/ TakeAck \/ KillRestart

(* The collector's thread runs. *)
Collects == KillSuspend \/ TakeAck \/ KillRestart
Fairness == WF_vars(Collects)

TypeOK ==
  /\ base \in BOOLEAN /\ ready \in BOOLEAN /\ gate \in BOOLEAN
  /\ sem \in 0..NoSem /\ gc.left \subseteq Mutators

(* The collector that stops the world gets the acknowledgements it waits for *)
StopReturns == gc.phase = "stopping" ~> gc.phase = "stopped"
==============================================================================
