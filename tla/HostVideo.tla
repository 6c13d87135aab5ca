----------------------------- MODULE HostVideo -----------------------------
(***************************************************************************)
(* The host preview (host_video_backend.c under host_module_bridge.c): the *)
(* runner hands in a pixel buffer per frame, the module renders into it    *)
(* through the same port as on a board (raylib_lite_raylib_port.c), and    *)
(* the buffer is the runner's again when the call returns.  A module may   *)
(* leave a drawing open when it returns, or draw outside of one.           *)
(***************************************************************************)
EXTENDS Integers

CONSTANTS
  Targets,   \* pixel buffers of the runner
  Strides,   \* their strides; a new one reconfigures the port
  MaxFrames, \* bound: frames acquired
  None

VARIABLES
  target, stride,  \* s_host.pixels and .stride_pixels
  token,           \* acquired_token, 0 when not acquired
  generation,
  initialized,     \* s_host.initialized
  port,            \* s_port: [on, frame], frame a token and its buffer or None
  pixels,          \* s_pixels of raylib_lite_raylib_impl.c
  rendering,       \* the module is inside its render call
  drawing,         \* ... and between BeginDrawing and EndDrawing of this call
  alive            \* the game has not been destroyed

vars == <<target, stride, token, generation, initialized, port, pixels, rendering, drawing, alive>>

Off == [on |-> FALSE, frame |-> None]

Init ==
  /\ target = None
  /\ stride = 0
  /\ token = 0
  /\ generation = 0
  /\ initialized = FALSE
  /\ port = Off
  /\ pixels = None
  /\ rendering = FALSE
  /\ drawing = FALSE
  /\ alive = TRUE

(* set_target at the start of the runner's render call: refused while a    *)
(* frame is out; a new shape takes the port down first and up again.       *)
RenderBegins(t, s) ==
  /\ alive
  /\ ~rendering
  /\ token = 0
  /\ LET reconfigure == ~initialized \/ stride # s IN
     port' = IF reconfigure THEN [on |-> TRUE, frame |-> None] ELSE port
  /\ target' = t
  /\ stride' = s
  /\ initialized' = TRUE
  /\ rendering' = TRUE
  /\ drawing' = FALSE
  /\ UNCHANGED <<token, generation, pixels, alive>>

(* BeginDrawing over host_acquire; also from a module that draws outside   *)
(* of its render call, where there is no target.                           *)
BeginDrawing ==
  /\ alive
  /\ drawing' = rendering
  /\ \/ /\ port.on /\ port.frame = None /\ target # None /\ token = 0
        /\ generation < MaxFrames
        /\ generation' = generation + 1
        /\ token' = generation'
        /\ port' = [port EXCEPT !.frame = [token |-> token', pixels |-> target]]
        /\ pixels' = target
     \/ /\ ~port.on \/ port.frame # None \/ target = None
        /\ pixels' = None
        /\ UNCHANGED <<token, generation, port>>
  /\ UNCHANGED <<target, stride, initialized, rendering, alive>>

(* present_frame: the frame is consumed whether host_present accepts it or *)
(* not.                                                                    *)
EndDrawing ==
  /\ alive
  /\ drawing' = FALSE
  /\ pixels' = None
  /\ IF pixels # None /\ port.on /\ port.frame # None
       THEN /\ port' = [port EXCEPT !.frame = None]
            /\ token' = 0
       ELSE UNCHANGED <<port, token>>
  /\ UNCHANGED <<target, stride, generation, initialized, rendering, alive>>

\* Slip: the frame of a drawing that was left open stays out.
KeptOut(p) == p
Withdrawn(p) == [p EXCEPT !.frame = None]

(* clear_target when the module's render returns. *)
RenderReturns ==
  /\ rendering
  /\ rendering' = FALSE
  /\ drawing' = FALSE
  /\ port' = Withdrawn(port)
  /\ token' = IF port' # port THEN 0 ELSE token
  /\ target' = None
  /\ UNCHANGED <<stride, generation, initialized, pixels, alive>>

(* raylib_lite_host_game_destroy_v1: the port is taken down, which gives a *)
(* held frame back, and the backend is cleared.                            *)
Destroy ==
  /\ alive
  /\ ~rendering
  /\ alive' = FALSE
  /\ port' = Off
  /\ target' = None
  /\ stride' = 0
  /\ token' = 0
  /\ initialized' = FALSE
  /\ UNCHANGED <<generation, pixels, rendering, drawing>>

Next ==
  \/ \E t \in Targets, s \in Strides : RenderBegins(t, s)
  \/ BeginDrawing \/ EndDrawing \/ RenderReturns \/ Destroy

Spec == Init /\ [][Next]_vars

----------------------------------------------------------------------------
(* What is drawn between BeginDrawing and EndDrawing of a render call goes *)
(* into the buffer of that call, whatever earlier calls left open; the     *)
(* port holds a frame exactly while the backend has lent one; and when a   *)
(* render call returns the runner's buffer is lent to nobody, so the next  *)
(* call is not refused.                                                    *)
DrawsIntoTarget ==
  /\ drawing /\ pixels # None => pixels = target
  /\ (port.frame # None) = (token # 0)
  /\ port.frame # None => port.frame = [token |-> token, pixels |-> target]
  /\ ~rendering => token = 0
=============================================================================
