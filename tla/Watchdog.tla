------------------------------- MODULE Watchdog -------------------------------
(* diag.c: every thread has a slot with a beacon of what it waits on, and a   *)
(* watchdog that, when no frame has ended for six seconds, pauses the threads *)
(* one after the other for a look at their registers and prints what it saw.  *)
(* What a beacon says is only printed, and is left out.                       *)
EXTENDS Naturals, FiniteSets

CONSTANTS
  Threads,       \* the handles of the program's threads; a handle is used again
  MaxSlots,      \* DIAG_MAX_THREADS
  LateLocks,     \* destructors of thread-local values may lock mutexes
  StallIsQuiet,  \* while the watchdog looks at the threads none of them ends
  None

WatchdogAssumption == MaxSlots \in Nat \ {0} /\ LateLocks \in BOOLEAN /\ StallIsQuiet \in BOOLEAN

VARIABLES
  thread,    \* "none", "starting", "running", "ending" (past its slot)
  self,      \* the slot each thread has in its own memory, 0 none
  slot,      \* g_threads: in_use, handle
  wd,        \* the watchdog: where, at which slot, with which handle in hand
  idle,      \* g_last_progress is six seconds old
  stdio,     \* who holds the lock of stdio: None, a thread, "wd"
  paused     \* the threads the kernel does not run

vars == <<thread, self, slot, wd, idle, stdio, paused>>

Slots == 1..MaxSlots
Free == [used |-> FALSE, who |-> None]
Asleep == [at |-> "sleep", i |-> 0, h |-> None]

Init ==
  /\ thread = [t \in Threads |-> "none"]
  /\ self = [t \in Threads |-> 0]
  /\ slot = [i \in Slots |-> Free]
  /\ wd = Asleep /\ idle = FALSE /\ stdio = None /\ paused = {}

Runs(t) == t \notin paused

(* slot_alloc, under g_reg_lock; a full registry gives none. *)
FirstOrLast ==                       \* mutant: the last slot is taken twice
  { i \in Slots : (~slot[i].used \/ i = MaxSlots) /\ \A j \in 1..(i - 1) : slot[j].used }
FirstFree == { i \in Slots : ~slot[i].used /\ \A j \in 1..(i - 1) : slot[j].used }
Own(t) ==                                                \* diag_self
  IF self[t] # 0 THEN {self[t]} ELSE FirstFree
Registered(t) ==
  /\ slot' = [i \in Slots |-> IF i \in Own(t) THEN [used |-> TRUE, who |-> t] ELSE slot[i]]
  /\ self' = [self EXCEPT ![t] = IF Own(t) = {} THEN 0 ELSE CHOOSE i \in Own(t) : TRUE]

(* thread_trampoline registers, runs the thread and unregisters.             *)
Start(t) == /\ thread[t] = "none" /\ thread' = [thread EXCEPT ![t] = "starting"]
            /\ UNCHANGED <<self, slot, wd, idle, stdio, paused>>
Register(t) ==
  /\ thread[t] = "starting" /\ Runs(t)
  /\ Registered(t) /\ thread' = [thread EXCEPT ![t] = "running"]
  /\ UNCHANGED <<wd, idle, stdio, paused>>

(* diag_wait_enter, before each wait of the shims: a thread that found the    *)
(* registry full tries again.                                                 *)
WaitEnter(t) ==
  /\ Runs(t) /\ stdio # t
  /\ thread[t] = "running" \/ (LateLocks /\ thread[t] = "ending")
  /\ Registered(t)
  /\ UNCHANGED <<thread, wd, idle, stdio, paused>>

Looking == wd.at \in {"scan", "pause", "resume"}
Unregister(t) ==
  /\ thread[t] = "running" /\ Runs(t) /\ stdio # t
  /\ StallIsQuiet => ~Looking
  /\ slot' = IF self[t] = 0 THEN slot ELSE [slot EXCEPT ![self[t]].used = FALSE]
  /\ self' = [self EXCEPT ![t] = 0]
  /\ thread' = [thread EXCEPT ![t] = "ending"]
  /\ UNCHANGED <<wd, idle, stdio, paused>>
End(t) ==
  /\ thread[t] = "ending" /\ Runs(t)
  /\ StallIsQuiet => ~Looking
  /\ thread' = [thread EXCEPT ![t] = "none"] /\ self' = [self EXCEPT ![t] = 0]
  /\ UNCHANGED <<slot, wd, idle, stdio, paused>>

(* The threads print, and allocate, under locks the watchdog needs too. *)
PrintBegin(t) == /\ thread[t] = "running" /\ Runs(t) /\ stdio = None /\ stdio' = t
                 /\ UNCHANGED <<thread, self, slot, wd, idle, paused>>
PrintEnd(t) == /\ stdio = t /\ Runs(t) /\ stdio' = None
               /\ UNCHANGED <<thread, self, slot, wd, idle, paused>>

(* diag_frame, once a frame; a stall is its absence. *)
Frame == idle' = FALSE /\ UNCHANGED <<thread, self, slot, wd, stdio, paused>>
SixSeconds == idle' = TRUE /\ UNCHANGED <<thread, self, slot, wd, stdio, paused>>

-----------------------------------------------------------------------------
(* watchdog_main and dump_threads.  A frame that ends between the reading of *)
(* the clock and of g_last_progress makes the difference huge: it may take a *)
(* frame for a stall.                                                        *)
Goes(from, to) == wd.at = from /\ wd' = [wd EXCEPT !.at = to]

Poll ==
  /\ wd.at = "sleep"
  /\ wd' \in {[wd EXCEPT !.at = "list"]} \cup IF idle THEN {} ELSE {Asleep}
  /\ UNCHANGED <<thread, self, slot, idle, stdio, paused>>

(* The table of beacons is printed first. *)
PrintLines(from, to) ==
  /\ stdio = None /\ Goes(from, to)
  /\ UNCHANGED <<thread, self, slot, idle, stdio, paused>>
PrintList == PrintLines("list", "scan")

NextSlot ==
  /\ wd.at = "scan"
  /\ IF wd.i = MaxSlots THEN wd' = Asleep
     ELSE wd' = [at |-> IF slot[wd.i + 1].used THEN "pause" ELSE "scan",
                 i |-> wd.i + 1, h |-> slot[wd.i + 1].who]
  /\ UNCHANGED <<thread, self, slot, idle, stdio, paused>>

(* snapshot_thread: pause the handle read from the slot; a handle of no      *)
(* thread fails.  The handle is read from the slot again for the resume.     *)
Pause ==
  /\ wd.at = "pause"
  /\ IF wd.h \in Threads /\ thread[wd.h] # "none"
     THEN paused' = paused \cup {wd.h} /\ Goes("pause", "resume")
     ELSE UNCHANGED paused /\ Goes("pause", "print")
  /\ UNCHANGED <<thread, self, slot, idle, stdio>>
ResumeAfterPrinting ==               \* mutant: the thread runs again after the report
  /\ stdio = None /\ Goes("resume", "print")
  /\ paused' = paused \ {slot[wd.i].who}
  /\ UNCHANGED <<thread, self, slot, idle, stdio>>
Resume ==
  /\ Goes("resume", "print")
  /\ paused' = paused \ {slot[wd.i].who}
  /\ UNCHANGED <<thread, self, slot, idle, stdio>>
PrintContext == PrintLines("print", "scan")

WdStep == PrintList \/ NextSlot \/ Pause \/ Resume \/ PrintContext

Next == \/ Frame \/ SixSeconds \/ Poll \/ WdStep
        \/ \E t \in Threads : \/ Start(t) \/ Register(t) \/ WaitEnter(t)
                              \/ Unregister(t) \/ End(t) \/ PrintBegin(t) \/ PrintEnd(t)

Spec == Init /\ [][Next]_vars
Prints == \E t \in Threads : PrintEnd(t)
Fairness == SF_vars(WdStep) /\ WF_vars(Prints)

TypeOK ==
  /\ \A t \in Threads : self[t] \in 0..MaxSlots
  /\ \A i \in Slots : slot[i].who \in Threads \cup {None}
  /\ paused \subseteq Threads /\ stdio \in Threads \cup {None}

(* The slot a thread uses is its own, in use and under its handle, and no    *)
(* slot is left in use by a thread that is gone, whose handle may name       *)
(* another thread by the time the watchdog comes to it.  The watchdog has at *)
(* most the one thread paused that it is looking at, and none while it       *)
(* prints.                                                                   *)
SlotsApart ==
  /\ \A t \in Threads : self[t] # 0 => slot[self[t]].used /\ slot[self[t]].who = t
  /\ \A i \in Slots : slot[i].used => thread[slot[i].who] # "none"
  /\ paused \subseteq (IF wd.at = "resume" THEN {wd.h} ELSE {})

(* A look at the threads ends, the last line it prints included, and lets    *)
(* all of them run again.                                                    *)
LooksOn == wd.at # "sleep" \/ paused # {}
WatchdogHarmless == LooksOn ~> ~LooksOn
=============================================================================
