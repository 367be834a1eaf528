------------------------------- MODULE Overlay -------------------------------
(* saltynx.cpp: what the frames-per-second overlay of SaltyNX shows.  The     *)
(* thread that presents counts its frames and keeps their last durations; a   *)
(* thread of its own, from saltynx_start to saltynx_stop, copies them every   *)
(* 50 ms into a block of a page it shares with SaltyNX, a service that may    *)
(* come late, refuse, or wipe the page.  The room for a session that the      *)
(* first attach makes, resolutions and the API in use are left out.           *)
EXTENDS Naturals

CONSTANTS
  Ring,        \* the durations kept, frame_ticks
  Retry,       \* polls between two attempts to attach
  MaxFrames,   \* bound on the frames presented
  MaxWipes     \* bound on the times SaltyNX wipes the page

OverlayAssumption == { Ring, Retry, MaxFrames } \subseteq Nat \ {0} /\ MaxWipes \in Nat

VARIABLES
  salty,    \* SaltyNX: "absent", "busy" (shares its page, allots no block), "up"
  page,     \* the shared page: mapped, whether a block is marked in it
  block,    \* the pointer into it is set
  shown,    \* the block: the spans whose durations make the rate; frames; active
  count,    \* frame_count
  last,     \* previous_tick is set
  still,    \* a second has passed since
  ticks,    \* frame_ticks: 0, or the span the frame was in (code keeps its time)
  span,     \* the frames without a second between two (kept by no code)
  frame,    \* the frame being counted: step, index, what is left to clear
  owner,    \* who starts and stops: "new", "made", "running", "stopping", "ended"
  pub,      \* the publisher: step, attempts, what publish read
  wipes

vars == <<salty, page, block, shown, count, last, still, ticks, span, frame, owner, pub, wipes>>
world == <<salty, wipes>>
counted == <<count, last, still, ticks, span, frame>>
shared == <<page, block, shown>>

Indices == 0..(Ring - 1)
Blank == [spans |-> {}, frames |-> 0, active |-> FALSE]
Between == [at |-> "out", i |-> 0, left |-> {}]
NoPublisher == [at |-> "none", tries |-> 0, frames |-> 0, recent |-> FALSE, sum |-> {}, i |-> 0]

Init ==
  /\ salty \in {"absent", "busy", "up"} /\ wipes = 0
  /\ page = [mapped |-> FALSE, marked |-> FALSE] /\ block = FALSE /\ shown = Blank
  /\ count = 0 /\ last = FALSE /\ still = FALSE /\ ticks = [i \in Indices |-> 0] /\ span = 1
  /\ frame = Between /\ owner = "new" /\ pub = NoPublisher

(* SaltyNX may come late, and may clear its page.                             *)
SaltyComes ==
  /\ salty # "up" /\ salty' = "up"
  /\ UNCHANGED <<shared, counted, owner, pub, wipes>>
Wipe ==
  /\ page.marked /\ wipes < MaxWipes
  /\ page' = [page EXCEPT !.marked = FALSE] /\ shown' = Blank /\ wipes' = wipes + 1
  /\ UNCHANGED <<salty, block, counted, owner, pub>>

Live == block /\ page.marked

(* attach: a block found in the page, or one that the service allots, which  *)
(* is cleared and marked.  A page once mapped stays mapped.                  *)
Attach ==
  IF page.marked THEN block' = TRUE /\ UNCHANGED <<page, shown>>
  ELSE /\ page' = [mapped |-> page.mapped \/ salty # "absent", marked |-> salty = "up"]
       /\ block' = (salty = "up") /\ shown' = Blank

(* saltynx_start, and the thread it makes or fails to make.                  *)
StartAttaches ==
  /\ owner = "new" /\ owner' = "made"
  /\ Attach /\ UNCHANGED <<world, counted, pub>>
StartThread ==
  /\ owner = "made"
  /\ \/ owner' = "running" /\ pub' = [NoPublisher EXCEPT !.at = "loop"] /\ UNCHANGED <<page, block>>
     \/ owner' = "ended" /\ block' = FALSE /\ page' = [page EXCEPT !.mapped = FALSE]
        /\ UNCHANGED pub
  /\ UNCHANGED <<world, shown, counted>>

(* saltynx_stop: the publisher is asked to end, waited for, and only then the *)
(* page is closed.                                                            *)
Stop ==
  /\ owner = "running" /\ owner' = "stopping"
  /\ UNCHANGED <<world, shared, counted, pub>>
ClosedEarly == block' = FALSE /\ page' = [page EXCEPT !.mapped = FALSE]   \* mutant
Closed == pub.at = "gone" /\ block' = FALSE /\ page' = [page EXCEPT !.mapped = FALSE]
StopEnds ==
  /\ owner = "stopping" /\ Closed
  /\ owner' = "ended" /\ UNCHANGED <<world, shown, counted, pub>>

(* saltynx_frame: the time of the frame before is exchanged for this one's,   *)
(* the frame counted, and its duration kept, or all dropped after a second.   *)
Second ==
  /\ last /\ ~still /\ frame.at = "out" /\ still' = TRUE
  /\ UNCHANGED <<world, shared, count, last, ticks, span, frame, owner, pub>>
FrameExchanges ==
  /\ owner # "new" /\ frame.at = "out" /\ count < MaxFrames
  /\ frame' = [at |-> IF ~last THEN "first" ELSE IF still THEN "late" ELSE "next",
               i |-> 0, left |-> {}]
  /\ last' = TRUE /\ still' = FALSE /\ span' = IF still THEN span + 1 ELSE span
  /\ UNCHANGED <<world, shared, count, ticks, owner, pub>>
DroppedOwn == {count % Ring}                               \* mutant
Dropped == Indices
FrameCounts ==
  /\ frame.at \in {"first", "late", "next"} /\ count' = count + 1
  /\ frame' = [ at |-> CASE frame.at = "first" -> "out" [] frame.at = "late" -> "clear"
                         [] OTHER -> "keep",
                i |-> count % Ring, left |-> IF frame.at = "late" THEN Dropped ELSE {} ]
  /\ UNCHANGED <<world, shared, last, still, ticks, span, owner, pub>>
FrameKeeps ==
  /\ frame.at = "keep" /\ ticks' = [ticks EXCEPT ![frame.i] = span] /\ frame' = Between
  /\ UNCHANGED <<world, shared, count, last, still, span, owner, pub>>
FrameClears ==
  /\ frame.at = "clear"
  /\ \E i \in frame.left :
       /\ \A j \in frame.left : i <= j
       /\ ticks' = [ticks EXCEPT ![i] = 0]
       /\ frame' = IF frame.left = {i} THEN Between ELSE [frame EXCEPT !.left = @ \ {i}]
  /\ UNCHANGED <<world, shared, count, last, still, span, owner, pub>>

(* run: until it is asked to stop, attach now and then, publish, wait.       *)
PubAt(from, to) == pub.at = from /\ pub' = [pub EXCEPT !.at = to]
Published == UNCHANGED <<world, shared, counted, owner>>
Loop ==
  /\ pub.at = "loop"
  /\ IF owner = "stopping" THEN pub' = [pub EXCEPT !.at = "last"] /\ UNCHANGED shared
     ELSE IF Live THEN pub' = [pub EXCEPT !.at = "read"] /\ UNCHANGED shared
     ELSE /\ pub' = [pub EXCEPT !.at = "look", !.tries = (@ + 1) % Retry]
          /\ IF pub.tries = 0 THEN Attach ELSE UNCHANGED shared
  /\ UNCHANGED <<world, counted, owner>>
Look == PubAt("look", IF Live THEN "read" ELSE "wait") /\ Published
ReadFrames ==
  /\ pub.at = "read"
  /\ pub' = [pub EXCEPT !.at = "time", !.frames = count]
  /\ Published
ReadTime ==
  /\ pub.at = "time"
  /\ pub' = [pub EXCEPT !.at = "sum", !.recent = last /\ ~still, !.sum = {}, !.i = 0]
  /\ Published
Sum ==
  /\ pub.at = "sum"
  /\ pub' = [pub EXCEPT !.sum = @ \cup ({ticks[pub.i]} \ {0}), !.i = @ + 1,
                        !.at = IF pub.i + 1 = Ring THEN "rate" ELSE "sum"]
  /\ Published
ShowRate ==
  /\ PubAt("rate", "show")
  /\ shown' = [shown EXCEPT !.spans = IF pub.recent THEN pub.sum ELSE {}]
  /\ UNCHANGED <<world, page, block, counted, owner>>
ShowFrames ==
  /\ PubAt("show", "wait")
  /\ shown' = [shown EXCEPT !.frames = pub.frames, !.active = pub.frames # 0]
  /\ UNCHANGED <<world, page, block, counted, owner>>
Wait == PubAt("wait", "loop") /\ Published
GoodbyeNot == FALSE                                        \* mutant
Goodbye == Live
Last ==
  /\ PubAt("last", "gone")
  /\ shown' = IF Goodbye THEN [shown EXCEPT !.spans = {}, !.active = FALSE] ELSE shown
  /\ UNCHANGED <<world, page, block, counted, owner>>

Publishes == Loop \/ Look \/ ReadFrames \/ ReadTime \/ Sum \/ ShowRate \/ ShowFrames \/ Wait \/ Last
Next ==
  \/ SaltyComes \/ Wipe \/ StartAttaches \/ StartThread \/ Stop \/ StopEnds
  \/ Second \/ FrameExchanges \/ FrameCounts \/ FrameKeeps \/ FrameClears
  \/ Loop \/ Look \/ ReadFrames \/ ReadTime \/ Sum \/ ShowRate \/ ShowFrames \/ Wait \/ Last

(* The publisher is a thread of its own whose waits end after 50 ms.         *)
Spec == Init /\ [][Next]_vars /\ WF_vars(Publishes) /\ WF_vars(StopEnds)

-----------------------------------------------------------------------------

\* The types of the publisher, the block and the counts.
TypeOK ==
  /\ page \in [mapped : BOOLEAN, marked : BOOLEAN] /\ block \in BOOLEAN
  /\ ticks \in [Indices -> 0..(MaxFrames + 1)] /\ frame.i \in Indices
  /\ pub.tries \in 0..(Retry - 1) /\ pub.i \in 0..Ring

\* saltynx.cpp: the publisher writes into the page only while it is mapped;
\* between two frames every duration kept is of frames without a second's
\* pause between them; and the overlay of a game that has ended shows no rate
\* and nothing active, unless SaltyNX wiped the block or never gave one.
OverlayHonest ==
  /\ pub.at \in {"read", "time", "sum", "rate", "show"} => block /\ page.mapped
  /\ frame.at = "out" => \A i \in Indices : ticks[i] \in {0, span}
  /\ shown.frames <= count
  /\ owner = "ended" =>
       /\ pub.at \in {"none", "gone"} /\ ~page.mapped /\ ~block
       /\ page.marked => shown.spans = {} /\ ~shown.active

\* Once SaltyNX has come, a running game is attached to it, however often the
\* page is wiped, unless the game ends; and a stop returns.
OverlayOwes ==
  (owner = "running" /\ salty = "up" /\ ~page.marked) \/ owner = "stopping"
OverlayAttaches == OverlayOwes ~> ~OverlayOwes

=============================================================================
