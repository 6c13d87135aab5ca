----------------------------- MODULE Box3Video -----------------------------
(***************************************************************************)
(* The video backend of the ESP32-S3-BOX-3 (box3_video.c): one frame       *)
(* buffer, presented within the call.  present copies the frame strip by   *)
(* strip into the draw buffers of the display presenter, whose DMA brings  *)
(* them to the panel, and waits for the panel before it answers.  A failed *)
(* call of the presenter leaves the panel with rows of two frames, so the  *)
(* backend never lends a frame again.                                      *)
(*                                                                         *)
(* The presenter and its DMA are external: each call may fail, a strip on  *)
(* the wire reaches the panel at any later moment.                         *)
(***************************************************************************)
EXTENDS Integers, Sequences, FiniteSets

CONSTANTS
  Rows,       \* rows of the panel
  Buffers,    \* draw buffers of the presenter
  MaxFrames,  \* bound: frames acquired
  Sizes,      \* logical sizes <<width, height>> a game may ask for
  Lcd         \* <<width, height>> of the panel the geometry is checked with

VARIABLES
  size,      \* logical size of the game
  open,      \* the backend exists
  acquired, failed,
  pc,        \* "idle", a step of "present", or "close"
  row,       \* y of the loop over strips
  wire,      \* strips submitted and not on the panel yet: <<first, count, frame>>
  landed,    \* the oldest of them is on the panel, its interrupt is still to come
  panel,     \* row -> number of the frame it shows
  issued,    \* number of the newest frame lent
  accepted,  \* newest frame present answered OK for
  answer     \* result of the last call

vars == <<size, open, acquired, failed, pc, row, wire, landed, panel, issued, accepted, answer>>

EspErrors == {"ESP_ERR_TIMEOUT", "ESP_ERR_NO_MEM", "ESP_FAIL"}

(* result_from_esp *)
Result(err) ==
  CASE err = "ESP_ERR_TIMEOUT" -> "TIMEOUT"
    [] err = "ESP_ERR_NO_MEM"  -> "NO_MEMORY"
    [] OTHER                   -> "PLATFORM_ERROR"

TypeOK ==
  /\ size \in Sizes
  /\ {open, acquired, failed, landed} \subseteq BOOLEAN
  /\ pc \in {"idle", "begin", "strip", "commit", "quiesce", "close"}
  /\ row \in 0..Rows
  /\ Len(wire) <= Buffers
  /\ panel \in [0..Rows - 1 -> 0..MaxFrames]
  /\ issued \in 0..MaxFrames
  /\ accepted \in 0..MaxFrames
  /\ answer \in {"OK", "INVALID_STATE", "TIMEOUT", "NO_MEMORY", "PLATFORM_ERROR"}

(* box3_video_open has succeeded; it frees what it has when it fails. *)
Init ==
  /\ size \in Sizes
  /\ open = TRUE
  /\ acquired = FALSE
  /\ failed = FALSE
  /\ pc = "idle"
  /\ row = 0
  /\ wire = <<>>
  /\ landed = FALSE
  /\ panel = [y \in 0..Rows - 1 |-> 0]
  /\ issued = 0
  /\ accepted = 0
  /\ answer = "OK"

Idle == open /\ pc = "idle"

Lends == ~failed

Acquire ==
  /\ Idle
  /\ \/ /\ Lends /\ ~acquired
        /\ issued < MaxFrames
        /\ acquired' = TRUE
        /\ issued' = issued + 1
        /\ answer' = "OK"
     \/ /\ ~Lends \/ acquired
        /\ answer' = IF failed THEN "PLATFORM_ERROR" ELSE "INVALID_STATE"
        /\ UNCHANGED <<acquired, issued>>
  /\ UNCHANGED <<size, open, failed, pc, row, wire, landed, panel, accepted>>

(* present consumes the frame before it looks at anything else. *)
Present ==
  /\ Idle
  /\ acquired' = FALSE
  /\ \/ /\ acquired /\ ~failed
        /\ pc' = "begin"
        /\ UNCHANGED answer
     \/ /\ ~acquired \/ failed
        /\ answer' = IF ~acquired THEN "INVALID_STATE" ELSE "PLATFORM_ERROR"
        /\ UNCHANGED pc
  /\ UNCHANGED <<size, open, failed, row, wire, landed, panel, issued, accepted>>

(* A call of the presenter fails; but for begin and quiesce the frame is   *)
(* cancelled.  What is on the wire may still arrive.                       *)
PresentFails ==
  /\ pc \in {"begin", "strip", "commit", "quiesce"}
  /\ \E err \in EspErrors : answer' = Result(err)
  /\ failed' = TRUE
  /\ pc' = "idle"
  /\ UNCHANGED <<size, open, acquired, row, wire, landed, panel, issued, accepted>>

BeginFrame ==
  /\ pc = "begin"
  /\ pc' = "strip"
  /\ row' = 0
  /\ UNCHANGED <<size, open, acquired, failed, wire, landed, panel, issued, accepted, answer>>

(* A turn of the loop: a free draw buffer, as many rows as it resolves,    *)
(* the copy and the submission.                                            *)
Strip ==
  /\ pc = "strip"
  /\ row < Rows
  /\ Len(wire) < Buffers
  /\ \E rows \in 1..Rows - row :
       /\ wire' = Append(wire, <<row, rows, issued>>)
       /\ row' = row + rows
  /\ UNCHANGED <<size, open, acquired, failed, pc, landed, panel, issued, accepted, answer>>

CommitFrame ==
  /\ pc \in {"strip", "commit"}
  /\ row = Rows
  /\ pc' = IF pc = "strip" THEN "commit" ELSE "quiesce"
  /\ UNCHANGED <<size, open, acquired, failed, row, wire, landed, panel, issued, accepted, answer>>

\* Slip: the answer does not wait for the panel.
NoWait == TRUE
PanelDone == wire = <<>>

Quiesced ==
  /\ pc = "quiesce"
  /\ PanelDone
  /\ pc' = "idle"
  /\ accepted' = issued
  /\ answer' = "OK"
  /\ UNCHANGED <<size, open, acquired, failed, row, wire, landed, panel, issued>>

Discard ==
  /\ Idle
  /\ acquired' = FALSE
  /\ UNCHANGED <<size, open, failed, pc, row, wire, landed, panel, issued, accepted, answer>>

Flush ==
  /\ Idle
  /\ \/ acquired /\ answer' = "INVALID_STATE"
     \/ ~acquired /\ wire = <<>> /\ answer' = "OK"
     \/ ~acquired /\ \E err \in EspErrors : answer' = Result(err)
  /\ UNCHANGED <<size, open, acquired, failed, pc, row, wire, landed, panel, issued, accepted>>

(* box3_video_close takes the frame back, then quiesces and deletes the    *)
(* presenter; when either fails everything is kept for another try.        *)
CloseBegins ==
  /\ Idle
  /\ acquired' = FALSE
  /\ pc' = "close"
  /\ UNCHANGED <<size, open, failed, row, wire, landed, panel, issued, accepted, answer>>

Close ==
  /\ pc = "close"
  /\ pc' = "idle"
  /\ \/ /\ wire = <<>>
        /\ open' = FALSE
        /\ answer' = "OK"
     \/ /\ \E err \in EspErrors : answer' = Result(err)
        /\ UNCHANGED open
  /\ UNCHANGED <<size, acquired, failed, row, wire, landed, panel, issued, accepted>>

(* DMA: the oldest strip reaches the panel, then its interrupt frees the   *)
(* draw buffer.                                                            *)
Land ==
  /\ wire # <<>>
  /\ ~landed
  /\ landed' = TRUE
  /\ LET strip == Head(wire) IN
     panel' = [y \in 0..Rows - 1 |->
                 IF y \in strip[1]..strip[1] + strip[2] - 1 THEN strip[3] ELSE panel[y]]
  /\ UNCHANGED <<size, open, acquired, failed, pc, row, wire, issued, accepted, answer>>

TransferDone ==
  /\ landed
  /\ landed' = FALSE
  /\ wire' = Tail(wire)
  /\ UNCHANGED <<size, open, acquired, failed, pc, row, panel, issued, accepted, answer>>

Next ==
  \/ Acquire \/ Present \/ PresentFails \/ BeginFrame \/ Strip \/ CommitFrame \/ Quiesced
  \/ Discard \/ Flush \/ CloseBegins \/ Close \/ Land \/ TransferDone

Spec == Init /\ [][Next]_vars

----------------------------------------------------------------------------
(* box3_viewport.h and box3_strip.h: the game's picture is scaled to the   *)
(* largest rectangle of its shape and centred between bars.                *)

Tall(w, h) == w * Lcd[2] <= h * Lcd[1]

Positive(n) == IF n = 0 THEN 1 ELSE n

Viewport(w, h) ==
  LET vw == Positive(IF Tall(w, h) THEN (w * Lcd[2]) \div h ELSE Lcd[1])
      vh == Positive(IF Tall(w, h) THEN Lcd[2] ELSE (h * Lcd[1]) \div w)
  IN [x |-> (Lcd[1] - vw) \div 2, y |-> (Lcd[2] - vh) \div 2, width |-> vw, height |-> vh]

(* fill_strip: the pixel of the frame shown at <<x, y>>; <<>> is a bar. *)
Pixel(x, y) ==
  LET v == Viewport(size[1], size[2]) IN
  IF y < v.y \/ y >= v.y + v.height \/ x < v.x \/ x >= v.x + v.width
    THEN <<>>
    ELSE <<((x - v.x) * size[1]) \div v.width, ((y - v.y) * size[2]) \div v.height>>

(* box3_viewport_map_touch *)
MapTouch(x, y) ==
  LET v == Viewport(size[1], size[2])
      px == x - v.x
      py == y - v.y
  IN IF px < 0 \/ py < 0 \/ px >= v.width \/ py >= v.height THEN <<>>
     ELSE <<(px * size[1]) \div v.width, (py * size[2]) \div v.height>>

----------------------------------------------------------------------------
(* Between two calls the whole panel shows the newest frame that present   *)
(* accepted, unless a call has failed: no frame is ever left torn, and OK  *)
(* means visible.                                                          *)
PanelShowsAccepted ==
  pc = "idle" /\ ~failed => \A y \in DOMAIN panel : panel[y] = accepted

(* Every pixel that is drawn comes from inside the frame, a finger hits    *)
(* the pixel it sees, and the picture fills the panel in one direction.    *)
TouchesMeetPixels ==
  /\ \A x \in 0..Lcd[1] - 1, y \in 0..Lcd[2] - 1 :
       /\ MapTouch(x, y) = Pixel(x, y)
       /\ Pixel(x, y) # <<>> =>
            Pixel(x, y)[1] \in 0..size[1] - 1 /\ Pixel(x, y)[2] \in 0..size[2] - 1
  /\ LET v == Viewport(size[1], size[2]) IN
       /\ v.width <= Lcd[1] /\ v.height <= Lcd[2]
       /\ v.width = Lcd[1] \/ v.height = Lcd[2]

(* Each step is one of the video contract or none.  A frame is in flight from the    *)
(* moment present takes it until its last strip has left the wire, and     *)
(* visible once every row shows it.                                        *)
Visible ==
  IF \A y \in DOMAIN panel : panel[y] = panel[0] THEN panel[0] ELSE accepted

Contract == INSTANCE VideoContract WITH
  leased <- IF acquired THEN issued ELSE 0,
  flight <- IF pc \in {"begin", "strip", "commit", "quiesce"} \/ wire # <<>>
            THEN {issued} ELSE {},
  shown  <- Visible

KeepsContract == Contract!Next \/ Contract!vars' = Contract!vars
=============================================================================
