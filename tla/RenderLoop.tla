------------------------------ MODULE RenderLoop ------------------------------
(* main.c: the render loop, which calls the engine's nativeRender until the   *)
(* game quits, and the clock thread beside it.  The engine's clock is moved   *)
(* by the hook in TimeManager::Update; while the main thread sits in a scene  *)
(* load the clock thread moves it instead, and it bumps the vsync counter the *)
(* engine waits on.  A time is kept as its age, capped where nothing depends  *)
(* on it any more.                                                            *)
EXTENDS Integers

CONSTANTS
  Cap,       \* ages of the engine's times above it are one
  Period,     \* 16.67 ms, in steps of the clock thread's sleep of 4 ms
  Stall,     \* CLOCK_STALL_NS
  None

RenderAssumption ==
  /\ Period \in Nat \ {0} /\ Stall \in Nat /\ Cap > Stall /\ Cap > 2 * Period
  /\ Cap \in Nat /\ None \notin {"main", "clk"}

VARIABLES
  main,     \* the main thread: where it is, the time it read
  clk,      \* the clock thread, the same
  lock,     \* who holds g_clock_lock
  tm,       \* g_tm is set
  last,     \* age of g_last_main_tick_ns
  game,     \* age of the time the engine was last told
  vs,       \* age of vsync_last_ns, less the whole frames after the first
  news,     \* what moved since the engine looked: the vsync counter, its clock
  due,      \* next_frame_ns - now
  quit,     \* jni_quit_requested
  burst     \* frame periods of frames presented, less the time since (a
            \*   measure of the properties: nothing in the code)

vars == <<main, clk, lock, tm, last, game, vs, news, due, quit, burst>>
mainVars == <<main, tm, last, due, burst>>

At(p, seen) == [at |-> p, seen |-> seen]
Least(m, n) == IF m < n THEN m ELSE n
Greatest(m, n) == IF m < n THEN n ELSE m
Older(age) == Least(age + 1, Cap)
OlderTick(age) == Least(age + 1, Stall + 1)
OlderVsync(age) == IF age + 1 < 2 * Period THEN age + 1 ELSE age + 1 - Period
(* A thread at work on a time it read: that time gets older. *)
Holding(th) == IF th.at \in {"apply", "now"} THEN At(th.at, Older(th.seen)) ELSE th

Init ==
  /\ main = At("loop", 0) /\ clk = At("check", 0)
  /\ lock = None /\ tm = FALSE
  /\ last = Stall + 1 /\ game = Cap /\ vs = 0 /\ news = {}
  /\ due = 0 /\ quit = FALSE
  /\ burst = 0

Elapse ==
  /\ main' = Holding(main) /\ clk' = Holding(clk)
  /\ last' = OlderTick(last) /\ game' = Older(game) /\ vs' = OlderVsync(vs)
  /\ due' = Greatest(due - 1, -Period)
  /\ burst' = Greatest(burst - 1, 0)
  /\ UNCHANGED <<lock, tm, news, quit>>

-----------------------------------------------------------------------------
(* The main thread.                                                          *)
Goes(from, to) == main.at = from /\ main' = At(to, 0)

(* appletMainLoop and jni_quit_requested are asked before each frame. *)
NextFrame ==
  /\ \/ ~quit /\ Goes("loop", "render")
     \/ Goes("loop", "unload")
  /\ UNCHANGED <<clk, lock, tm, last, game, vs, news, due, quit, burst>>

(* What the engine does in nativeRender: it updates its time manager, asks   *)
(* to quit through Java, or waits for a presentation or its clock.           *)
EngineActs ==
  /\ \/ Goes("render", "captured") /\ tm' = TRUE /\ UNCHANGED <<quit, news>>
     \/ Goes("render", "render") /\ quit' = TRUE /\ UNCHANGED <<tm, news>>
     \/ Goes("render", "vsync") /\ news' = {} /\ UNCHANGED <<tm, quit>>
     \/ tm /\ Goes("render", "clock") /\ news' = {} /\ UNCHANGED <<tm, quit>>
  /\ UNCHANGED <<clk, lock, last, game, vs, due, burst>>

WaitOver ==
  /\ main.at \in news
  /\ Goes(main.at, "render")
  /\ UNCHANGED <<clk, lock, tm, last, game, vs, news, due, quit, burst>>

(* nx_time_update_hook, after it stored the manager.  A clock thread that    *)
(* read the time before gets an underflow from its subtraction.              *)
Overtaken == IF clk.at = "last" THEN At("last", Cap) ELSE clk
HookStamp ==
  /\ \/ Goes("captured", "enter")
     \/ Goes("captured", "render")                        \* paused
  /\ last' = 0
  /\ clk' = Overtaken
  /\ UNCHANGED <<lock, tm, game, vs, news, due, quit, burst>>
HookLock ==
  /\ lock = None /\ Goes("enter", "read") /\ lock' = "main"
  /\ UNCHANGED <<clk, tm, last, game, vs, news, due, quit, burst>>
HookRead ==
  /\ Goes("read", "apply")
  /\ UNCHANGED <<clk, lock, tm, last, game, vs, news, due, quit, burst>>
HookTick ==
  /\ game' = main.seen /\ lock' = None
  /\ Goes("apply", "render")
  /\ UNCHANGED <<clk, tm, last, vs, news, due, quit, burst>>

(* nativeRender returns; false leaves the loop. *)
RenderReturns ==
  /\ Goes("render", "after") \/ Goes("render", "unload")
  /\ UNCHANGED <<clk, lock, tm, last, game, vs, news, due, quit, burst>>

(* The frame limiter.  SaveStore has what the loop saves before it. *)
Limit ==
  /\ burst' = Least(burst + Period, Cap)
  /\ \/ due + Period > 0 /\ due' = due + Period /\ Goes("after", "sleep")
     \/ due + Period <= 0 /\ due' = 0 /\ Goes("after", "loop")
  /\ UNCHANGED <<clk, lock, tm, last, game, vs, news, quit>>
SleepEnds ==
  /\ due <= 0 /\ Goes("sleep", "loop")
  /\ UNCHANGED <<clk, lock, tm, last, game, vs, news, due, quit, burst>>

-----------------------------------------------------------------------------
(* nx_clock_thread. *)
ClkGoes(from, to) == clk.at = from /\ clk' = At(to, 0)

ClkLoop ==
  /\ \/ ~quit /\ ClkGoes("check", "vsync")
     \/ quit /\ ClkGoes("check", "ended")
  /\ UNCHANGED <<lock, game, vs, news, quit>> /\ UNCHANGED mainVars

(* One bump of the counter for each frame period that has gone. *)
Bumps == vs \div Period
ClkVsync ==
  /\ ClkGoes("vsync", IF tm THEN "look" ELSE "check")
  /\ news' = IF Bumps > 0 THEN news \cup {"vsync"} ELSE news
  /\ vs' = vs - Bumps * Period
  /\ UNCHANGED <<lock, game, quit>> /\ UNCHANGED mainVars

(* nx_now_ns() - g_last_main_tick_ns, in the order the compiler chose: the   *)
(* two reads are not one.  The difference is unsigned.  At "last" it is      *)
(* fixed but for a stamp that comes now; at "now" it grows with the time.    *)
ClkReadOne ==
  /\ clk.at = "look"
  /\ clk' \in {At("last", last), At("now", last)}
  /\ UNCHANGED <<lock, game, vs, news, quit>> /\ UNCHANGED mainVars
StalledNot == clk.seen < Stall       \* mutant: the test the wrong way round
Stalled == clk.seen > Stall
ClkReadTwo ==
  /\ clk.at \in {"last", "now"}
  /\ clk' = At(IF Stalled THEN "try" ELSE "check", 0)
  /\ UNCHANGED <<lock, game, vs, news, quit>> /\ UNCHANGED mainVars

LockIgnored == TRUE                  \* mutant: no lock around the tick
LockFree == lock = None
ClkTry ==
  /\ \/ LockFree /\ ClkGoes("try", "read") /\ lock' = "clk"
     \/ ~LockFree /\ ClkGoes("try", "check") /\ UNCHANGED lock
  /\ UNCHANGED <<game, vs, news, quit>> /\ UNCHANGED mainVars
ClkRead ==
  /\ ClkGoes("read", "apply")
  /\ UNCHANGED <<lock, game, vs, news, quit>> /\ UNCHANGED mainVars
ClkTick ==
  /\ game' = clk.seen /\ lock' = None /\ news' = news \cup {"clock"}
  /\ ClkGoes("apply", "check")
  /\ UNCHANGED <<vs, quit>> /\ UNCHANGED mainVars

MainStep == \/ WaitOver \/ HookStamp \/ HookLock \/ HookRead \/ HookTick \/ Limit \/ SleepEnds
ClkStep == ClkLoop \/ ClkVsync \/ ClkReadOne \/ ClkReadTwo \/ ClkTry \/ ClkRead \/ ClkTick

Next == Elapse \/ NextFrame \/ EngineActs \/ RenderReturns \/ MainStep \/ ClkStep

Spec == Init /\ [][Next]_vars

(* Time goes on, and both threads run; what the engine does next is its own. *)
Fairness == WF_vars(Elapse) /\ WF_vars(MainStep) /\ WF_vars(ClkStep)

TypeOK ==
  /\ lock \in {None, "main", "clk"} /\ tm \in BOOLEAN /\ news \subseteq {"vsync", "clock"} /\ quit \in BOOLEAN
  /\ {main.seen, clk.seen, last, game, burst} \subseteq 0..Cap
  /\ vs \in 0..(2 * Period - 1) /\ due \in (-Period)..Period

(* The engine is never told an earlier time than before, whichever thread    *)
(* tells it; and however long a frame took, the frames after it are not      *)
(* presented in a burst to catch up.                                         *)
Forward == /\ main.at = "apply" => main.seen <= game
           /\ clk.at = "apply" => clk.seen <= game
Paced == burst <= 2 * Period
ClockSound == Forward /\ Paced

(* An engine that waits in nativeRender for a presentation or for its clock  *)
(* gets on, unless the game asked to quit, which ends the clock thread.      *)
EngineWaits == main.at \in {"vsync", "clock"} /\ ~quit
EngineProceeds == EngineWaits ~> ~EngineWaits
=============================================================================
