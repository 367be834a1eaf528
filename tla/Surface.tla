------------------------------- MODULE Surface --------------------------------
(* android_native_unity.c, imports.c, main.c: the one window the game draws   *)
(* into.  Its size is settled by main, told to the game in three ways and set *)
(* on the window, which Mesa may crop by itself while it builds its buffers;  *)
(* the game creates and destroys the surface of the window as often as it     *)
(* likes; a cursor is drawn over each frame with the game's own GL state.     *)
EXTENDS Naturals, FiniteSets

CONSTANTS
  Configured,  \* sizes config.txt may name, <<0, 0>> for auto
  Auto,        \* 1920x1080
  Asked,       \* sizes the engine may ask of ANativeWindow_setBuffersGeometry
  Reasserts,   \* the frames before which the crop is set again
  Settles,     \* the frames in which Mesa may still crop the window
  MaxFrames,   \* bound: the frames of a behaviour
  MaxSurfaces  \* bound: the surfaces Mesa makes

SurfaceAssumption == /\ Settles < Reasserts /\ { Settles, Reasserts, MaxFrames } \subseteq Nat
                     /\ MaxSurfaces \in Nat \ {0} /\ Configured # {}

NoSurface == 0
NoSize == <<0, 0>>
Toggles == {"blend", "depth", "attributes"}     \* scissor and cull are like depth
Saved == {"program", "array buffer", "viewport", "blend function"}
Bindings == Saved \cup {"framebuffer", "attribute pointers"}

VARIABLES
  screen,    \* screen_width, screen_height
  size,      \* g_w, g_h: what ANativeWindow_getWidth answers
  geom,      \* g_geom_bw, g_geom_bh
  window,    \* the NWindow: [dims, crop]
  kept,      \* g_win_surface, NoSurface before it is made
  alive,     \* the surfaces that Mesa has buffers for
  held,      \* the surface the game has, NoSurface when it destroyed it
  frames,    \* the frames presented
  gl,        \* the GL state: what is on, and whose what is bound is
  before,    \* what it was when the game ended its frame
  shown      \* the crop and size of the last frame presented

vars == <<screen, size, geom, window, kept, alive, held, frames, gl, before, shown>>
screenVars == <<screen, size, geom, window>>
drawn == <<frames, gl, before, shown>>

(* main settles the size; android_native_update_mode mirrors it; the window  *)
(* is cut to it when the game asks for it.                                   *)
Screens == { IF c = NoSize THEN Auto ELSE c : c \in Configured }
SetGeom(s) == geom' = s /\ window' = [dims |-> s, crop |-> s]
Init ==
  /\ screen \in Screens
  /\ size = screen /\ geom = Auto
  /\ window = [dims |-> NoSize, crop |-> NoSize]
  /\ kept = NoSurface /\ alive = {} /\ held = NoSurface /\ frames = 0
  /\ gl = [on |-> {}, bound |-> [b \in Bindings |-> "game"]]
  /\ before = gl /\ shown = window

FromSurface ==
  /\ SetGeom(size)
  /\ UNCHANGED <<screen, size, kept, alive, held, drawn>>
SetBuffersGeometry(s) ==
  /\ window.dims # NoSize /\ SetGeom(s)
  /\ UNCHANGED <<screen, size, kept, alive, held, drawn>>

(* The one surface is handed out again; Mesa makes it once, and may crop the *)
(* window to what it likes, which is set right after.                        *)
Reassert(w) == [w EXCEPT !.crop = geom]
SurfaceAnew == kept # NoSurface /\ held # NoSurface     \* mutant: a destroyed one is made anew
SurfaceAgain == kept # NoSurface
Create ==
  /\ window.dims # NoSize
  /\ \/ SurfaceAgain /\ held' = kept /\ UNCHANGED <<kept, alive, window>>
     \/ ~SurfaceAgain /\ \E s \in 1..MaxSurfaces \ alive : \E c \in {window.crop, NoSize} :
          /\ kept' = s /\ held' = s /\ alive' = alive \cup {s}
          /\ window' = Reassert([window EXCEPT !.crop = c])
     \/ ~SurfaceAgain /\ window' = Reassert(window)        \* eglCreateWindowSurface fails
          /\ UNCHANGED <<kept, alive, held>>
  /\ UNCHANGED <<screen, size, geom, drawn>>
Destroy ==
  /\ held # NoSurface
  /\ alive' = IF held = kept THEN alive ELSE alive \ {held}
  /\ held' = NoSurface
  /\ UNCHANGED <<screenVars, kept, drawn>>

-----------------------------------------------------------------------------
\* eglSwapBuffers: the crop once more in the first frames, the cursor, Mesa.

(* The game leaves the state as it likes at the end of a frame.              *)
EndFrame ==
  /\ frames < MaxFrames
  /\ \E T \in SUBSET Toggles : gl' = [on |-> T, bound |-> [b \in Bindings |-> "game"]]
  /\ before' = gl'
  /\ UNCHANGED <<screenVars, kept, alive, held, frames, shown>>

(* The cursor is drawn with the blending on, depth off, and bindings of its  *)
(* own; then what was off goes off, what was on goes on, and what was saved  *)
(* is bound again, which the framebuffer and the attributes' pointers are    *)
(* not.                                                                      *)
Turned == {"blend", "attributes"}
RestoredLeftOn(was) == Turned \cup was      \* mutant: what was off stays on
Restored(was) == (Turned \cap was) \cup (was \ Turned)
AfterCursor ==
  [on |-> Restored(gl.on),
   bound |-> [b \in Bindings |-> IF b \in Saved THEN gl.bound[b] ELSE "ours"]]

Swap(cursor) ==
  /\ held # NoSurface /\ frames < MaxFrames
  /\ LET w == IF frames < Reasserts THEN Reassert(window) ELSE window IN
       /\ shown' = w
       /\ \E c \in {w.crop} \cup (IF frames < Settles THEN {NoSize} ELSE {}) :
            window' = [w EXCEPT !.crop = c]
  /\ gl' = IF cursor THEN AfterCursor ELSE gl
  /\ before' = gl
  /\ frames' = frames + 1
  /\ UNCHANGED <<screen, size, geom, kept, alive, held>>

Next ==
  \/ FromSurface \/ Create \/ Destroy \/ EndFrame
  \/ \E s \in Asked : SetBuffersGeometry(s)
  \/ \E cursor \in BOOLEAN : Swap(cursor)

Spec == Init /\ [][Next]_vars

TypeOK ==
  /\ kept \in 0..MaxSurfaces /\ held \in {NoSurface, kept} /\ alive \subseteq 1..MaxSurfaces
  /\ frames \in 0..MaxFrames /\ size = screen

(* Mesa never has buffers for two surfaces of the window, and the one the    *)
(* game holds has them; every frame is shown whole, cut to the size last set *)
(* on the window; the cursor leaves the game's GL state as it found it, but  *)
(* for the framebuffer and the attributes' pointers.                         *)
ShownWhole ==
  /\ Cardinality(alive) <= 1 /\ (held # NoSurface => held \in alive)
  /\ frames > 0 => shown.crop = shown.dims
  /\ gl.on = before.on
  /\ \A b \in Bindings \ {"framebuffer", "attribute pointers"} :
       gl.bound[b] = before.bound[b]
=============================================================================
