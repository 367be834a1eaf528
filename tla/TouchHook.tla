------------------------------ MODULE TouchHook ------------------------------
(***************************************************************************)
(* Touch and stick input: android_native_feed_hid (android_native_unity.c) *)
(* gathers the fingers of a frame, those on the panel first and then one   *)
(* or two virtual ones under the stick cursor, and                         *)
(* nx_input_hook_update_multi (unity_input_hook.c) turns the list into     *)
(* what UnityEngine.Input reports: touches with a phase, and a mouse.      *)
(*                                                                         *)
(* One step is one frame; the main thread does all of it before the engine *)
(* reads any of it.  Positions are one-dimensional: the code treats y the  *)
(* same way, save that the virtual pair is side by side in x.              *)
(***************************************************************************)
EXTENDS Integers, Sequences, FiniteSets, SequencesExt

CONSTANTS
  HidFingers,   \* finger_id of the panel's fingers
  Xs,           \* where a finger can be on the panel
  MaxTouches,   \* NX_HOOK_MAX_TOUCHES
  Width,        \* screen_width
  PairOffset,   \* NX_DUAL_OFFSET_PX
  StickSteps,   \* how far the stick moves the cursor in a frame
  CursorStart   \* g_cursor_x at boot

CursorId  == 1000
PartnerId == 1001
Ids       == HidFingers \cup {CursorId, PartnerId}

ASSUME TouchAssumption == /\ HidFingers \subseteq Nat /\ IsFiniteSet(HidFingers)
                          /\ {CursorId, PartnerId} \cap HidFingers = {}
                          /\ Xs \subseteq Int /\ MaxTouches \in Nat \ {0}
                          /\ Width \in Nat \ {0} /\ PairOffset \in Nat \ {0}
                          /\ StickSteps \subseteq Int /\ CursorStart \in 0 .. Width

VARIABLES
  touches,      \* s_touches, up to s_count
  mouse,        \* s_mouse_state
  owner,        \* s_mouse_finger_id
  button, buttonDown, buttonUp,   \* g_hook_btn, g_hook_btn_down, g_hook_btn_up
  mouseX,       \* g_hook_x
  cursor,       \* g_cursor_x
  dual,         \* g_dual_active
  dualOffset,   \* g_dual_offset
  asked         \* history: the list of the last frame

pairVars == <<cursor, dual, dualOffset>>
vars == <<touches, mouse, owner, button, buttonDown, buttonUp, mouseX, pairVars, asked>>

Init ==
  /\ touches = <<>> /\ mouse = "idle" /\ owner = 0
  /\ button = FALSE /\ buttonDown = FALSE /\ buttonUp = FALSE /\ mouseX = 0
  /\ cursor = CursorStart /\ dual = FALSE /\ dualOffset = PairOffset
  /\ asked = <<>>

Smaller(m, n) == IF m < n THEN m ELSE n
Cut(s)        == SubSeq(s, 1, Smaller(Len(s), MaxTouches))
IdsOf(list)   == {list[i].id : i \in DOMAIN list}
Held(h)       == h.phase # "ended"
HeldSlots     == {j \in DOMAIN touches : Held(touches[j])}
ActiveIds     == {touches[j].id : j \in HeldSlots}

\* The members of S, a set of places in a list, in their order.
InOrder(S) == [k \in 1 .. Cardinality(S) |-> CHOOSE i \in S : Cardinality(S \cap (1 .. i)) = k]

-----------------------------------------------------------------------------
(* android_native_feed_hid                                                 *)

\* What the panel can report: fingers in any order.
PanelStates ==
  {[i \in DOMAIN s |-> [id |-> s[i], x |-> at[s[i]]]] :
     s \in UNION {SetToSeqs(S) : S \in SUBSET HidFingers}, at \in [HidFingers -> Xs]}

PickOffsetAlways(zr) ==   \* mutant of PickOffset: the side is chosen in every frame
  LET separation == Smaller(Width, PairOffset)
  IN  IF cursor + separation > Width THEN - separation ELSE separation

\* The side of the second virtual finger, chosen when ZR goes down.
PickOffset(zr) ==
  LET separation == Smaller(Width, PairOffset)
  IN  IF ~ zr \/ dual THEN dualOffset
      ELSE IF cursor + separation > Width THEN - separation
      ELSE separation

\* The cursor stays on the screen, and so does its partner while ZR is held.
Clamp(x, zr, off) ==
  LET lo == IF zr /\ off < 0 THEN - off ELSE 0
      hi == IF zr /\ off > 0 THEN Width - off ELSE Width
  IN  IF x < lo THEN lo ELSE Smaller(x, hi)

Virtual(a, zr, x, off) ==
  IF zr THEN <<[id |-> CursorId, x |-> x], [id |-> PartnerId, x |-> x + off]>>
  ELSE IF a THEN <<[id |-> CursorId, x |-> x]>>
  ELSE <<>>

MoveCursor(zr, step) ==
  /\ dual' = zr
  /\ dualOffset' = PickOffset(zr)
  /\ cursor' = Clamp(cursor + step, zr, dualOffset')

-----------------------------------------------------------------------------
(* nx_input_hook_update_multi                                              *)

\* Slots left for new fingers: each active one needs its own, to go on or to end.
NewSlots == MaxTouches - Cardinality(HeldSlots)

AdmittedNoReserve(list) == DOMAIN list   \* mutant of Admitted: no slot is kept for a finger that lifts

AdmittedEndedKeep(list) ==   \* mutant of Admitted: last frame's ended touches still take a slot
  {i \in DOMAIN list :
     \/ list[i].id \in ActiveIds
     \/ Cardinality({j \in 1 .. i : list[j].id \notin ActiveIds}) =< MaxTouches - Len(touches)}

\* The entries of the list that are reported: continuing fingers, and new
\* ones in the caller's order while slots last.
Admitted(list) ==
  LET new == {j \in DOMAIN list : list[j].id \notin ActiveIds}
  IN  {i \in DOMAIN list : i \in new => Cardinality(new \cap (1 .. i)) =< NewSlots}

Touch(f) ==
  IF f.id \notin ActiveIds THEN [id |-> f.id, x |-> f.x, prev |-> f.x, phase |-> "began"]
  ELSE LET h == touches[CHOOSE j \in HeldSlots : touches[j].id = f.id]
       IN  [id |-> f.id, x |-> f.x, prev |-> h.x,
            phase |-> IF f.x = h.x THEN "stationary" ELSE "moved"]

Down(list) ==
  LET order == InOrder(Admitted(list))
  IN  [k \in DOMAIN order |-> Touch(list[order[k]])]

Ended(h) == [h EXCEPT !.prev = h.x, !.phase = "ended"]

LiftedUnchecked(list) ==   \* mutant of Lifted: the list is not searched for the finger
  LET gone == InOrder(HeldSlots) IN [k \in DOMAIN gone |-> Ended(touches[gone[k]])]

\* A finger that is gone from the list is reported once more.
Lifted(list) ==
  LET gone == InOrder({j \in HeldSlots : touches[j].id \notin IdsOf(list)})
  IN  [k \in DOMAIN gone |-> Ended(touches[gone[k]])]

\* The mouse is the first finger of a gesture until that finger lifts ...
Owner(down) == IF mouse = "idle" /\ down # <<>> THEN down[1].id ELSE owner

IdleUnreported(list, down, held) ==   \* mutant of MouseAfter: idle when no finger is reported
  IF down = <<>> THEN "idle" ELSE IF held THEN "tracking" ELSE "waitClear"

\* ... and then nothing until every finger has.
MouseAfter(list, down, held) ==
  IF list = <<>> THEN "idle" ELSE IF held THEN "tracking"
  ELSE IF mouse = "tracking" \/ down # <<>> THEN "waitClear" ELSE mouse

Mouse(list, down) ==
  /\ owner' = Owner(down)
  /\ button' = (mouse # "waitClear" /\ owner' \in IdsOf(down))
  /\ mouseX' = IF button' THEN (CHOOSE h \in ToSet(down) : h.id = owner').x ELSE mouseX
  /\ mouse' = MouseAfter(list, down, button')
  /\ buttonDown' = (button' /\ ~ button)
  /\ buttonUp' = (button /\ ~ button')

Update(list) ==
  LET down == Down(list) IN
  /\ touches' = Cut(down \o Lifted(list))
  /\ Mouse(list, down)
  /\ asked' = list

-----------------------------------------------------------------------------

\* A frame of the main loop: a = A held, zr = ZR held.
Frame(panel, a, zr, step) ==
  /\ MoveCursor(zr, step)
  /\ LET list == Cut(panel \o Virtual(a, zr, cursor', dualOffset')) IN Update(list)

Next == \E panel \in PanelStates, a, zr \in BOOLEAN, step \in StickSteps : Frame(panel, a, zr, step)

Spec == Init /\ [][Next]_vars

-----------------------------------------------------------------------------

\* What Input.GetTouch can index is within s_touches, and no finger is in it
\* twice (tests/input_test.c:207 looks for the same in random frames).
TypeOK ==
  /\ touches \in Seq([id : Ids, x : Int, prev : Int,
                      phase : {"began", "moved", "stationary", "ended"}])
  /\ Len(touches) =< MaxTouches
  /\ \A i, j \in DOMAIN touches : touches[i].id = touches[j].id => i = j
  /\ mouse \in {"idle", "tracking", "waitClear"} /\ owner \in Ids \cup {0}
  /\ {button, buttonDown, buttonUp, dual} \subseteq BOOLEAN
  /\ mouseX \in Int /\ cursor \in 0 .. Width /\ dualOffset \in Int

\* "A finger absent from this frame's list after being present is reported once
\* with phase Ended, then dropped" (unity_input_hook.h:23-24), whatever else
\* comes and goes; one that goes on keeps its last position for the delta, and
\* one that was not down begins.
Lifecycle ==
  [][\A id \in Ids :
       IF id \in ActiveIds
         THEN \E h \in ToSet(touches'), g \in ToSet(touches) :
                /\ h.id = id /\ g.id = id /\ h.phase # "began" /\ h.prev = g.x
                /\ Held(h) <=> id \in IdsOf(asked')
         ELSE \A h \in ToSet(touches') : h.id = id => h.phase = "began"]_vars

\* "At capacity, a new finger can begin next frame, after the old Ended slots are
\* dropped" (unity_input_hook.c:131-132): it waits no longer than that unless
\* yet other fingers come.
DeferredOneFrame == [][IdsOf(asked') \subseteq IdsOf(asked) => ActiveIds' = IdsOf(asked')]_vars

\* "Mouse emulation follows the first finger by ID; after it lifts, another click
\* can start only after all fingers have lifted" (unity_input_hook.h:27-28).
MouseGesture ==
  [][/\ buttonDown' => asked = <<>>
     /\ button /\ button' => owner' = owner
     /\ button' => \E h \in ToSet(touches') : h.id = owner' /\ Held(h) /\ h.x = mouseX'
     /\ buttonUp' => owner \notin IdsOf(asked') /\ mouseX' = mouseX]_vars

\* While both virtual fingers are down they stay on the screen and slide
\* together: "Flipping sides during a drag would teleport the second finger by
\* twice the separation" (android_native_unity.c:265-266).
PairTogether ==
  \A c, p \in {h \in ToSet(touches) : Held(h)} :
    c.id = CursorId /\ p.id = PartnerId =>
      /\ {c.x, p.x} \subseteq 0 .. Width /\ c.x # p.x
      /\ c.phase # "began" /\ p.phase # "began" => p.x - c.x = p.prev - c.prev

=============================================================================
