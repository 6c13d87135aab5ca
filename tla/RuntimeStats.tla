---------------------------- MODULE RuntimeStats ----------------------------
(***************************************************************************)
(* The counters of raylib_lite_runtime_stats.c, written without a lock by  *)
(* the game thread (raylib_lite_game_app.c) and the display worker of the  *)
(* ESP-Mosaico backend (mosaico_video.c): every atomic operation is a      *)
(* step.  It starts with the first frame on the panel, which the loop does *)
(* not record.  The windows of the rates have one writer each              *)
(* (RateWindow); durations are left out, nothing is computed with them.    *)
(***************************************************************************)
EXTENDS Integers, Sequences

CONSTANT MaxFrames    \* bound on what is recorded

Threads == {"game", "worker"}
Counters == {"frames", "dropped", "busy", "superseded", "errors"}

VARIABLES
  drawing, pending, working,  \* which of the three buffers are taken; one is the latest
  failed,                     \* worker_error
  todo,                       \* what a thread has still to do of its call
  read, loaded,               \* in_flight_frames as the thread read it, and the peak
  count,                      \* the counters
  gauge, peak,                \* in_flight_frames and peak_in_flight_frames
  shown,                      \* frames the panel was given whole
  most                        \* the most that was ever said to be in flight

video == <<drawing, pending, working, failed, shown>>
shared == <<count, gauge, peak, most>>
vars == <<video, todo, read, loaded, shared>>

Init ==
  /\ drawing = FALSE /\ pending = FALSE /\ working = FALSE /\ failed = FALSE /\ shown = 0
  /\ todo = [t \in Threads |-> <<>>]
  /\ read = [t \in Threads |-> 0] /\ loaded = [t \in Threads |-> 0]
  /\ count = [c \in Counters |-> 0] /\ gauge = 0 /\ peak = 0 /\ most = 0

Then(t, ops) == todo' = [todo EXCEPT ![t] = ops]
Done(t) == Then(t, Tail(todo[t]))
Idle(t) == todo[t] = <<>>
At(t, op) == ~Idle(t) /\ Head(todo[t]) = op

-----------------------------------------------------------------------------
(* The operations.                                                         *)

\* atomic_fetch_add
Add(t) == \E c \in Counters :
  /\ At(t, c)
  /\ count' = [count EXCEPT ![c] = @ + 1]
  /\ Done(t)
  /\ UNCHANGED <<video, read, loaded, gauge, peak, most>>

\* in_flight_locked: some time before it is stored.
InFlight == (IF pending THEN 1 ELSE 0) + (IF working THEN 1 ELSE 0)

Read(t) ==
  /\ At(t, "read")
  /\ read' = [read EXCEPT ![t] = InFlight]
  /\ Done(t)
  /\ UNCHANGED <<video, loaded, shared>>

Store(t) ==
  /\ At(t, "store")
  /\ gauge' = read[t] /\ most' = IF read[t] > most THEN read[t] ELSE most
  /\ Done(t)
  /\ UNCHANGED <<video, read, loaded, count, peak>>

Load(t) ==
  /\ At(t, "load")
  /\ loaded' = [loaded EXCEPT ![t] = peak]
  /\ Done(t)
  /\ UNCHANGED <<video, read, shared>>

(* update_peak: a compare and exchange, which may fail for no reason and   *)
(* then loads what is there.                                               *)
Raise(t) ==
  /\ At(t, "raise")
  /\ \/ /\ read[t] <= loaded[t] /\ UNCHANGED <<peak, loaded>> /\ Done(t)
     \/ /\ read[t] > loaded[t] /\ peak = loaded[t]
        /\ peak' = read[t] /\ UNCHANGED loaded /\ Done(t)
     \/ /\ read[t] > loaded[t]
        /\ loaded' = [loaded EXCEPT ![t] = peak] /\ UNCHANGED <<peak, todo>>
  /\ UNCHANGED <<video, read, count, gauge, most>>

-----------------------------------------------------------------------------
(* The game thread.                                                        *)

\* record_render, with the cause of a loss or none
Recorded(cause) ==
  IF cause = "none" THEN <<"read", "frames", "store", "load", "raise">>
  ELSE <<"read", "frames", "dropped", "store", "load", "raise", cause>>

\* A frame that waited is replaced: it is recorded as lost, then the new one.
Replaced == <<"dropped", "superseded", "read", "frames", "store", "load", "raise">>

\* BeginDrawing finds a free buffer or none; without one nothing is presented.
Acquire ==
  /\ Idle("game") /\ ~drawing /\ count["frames"] < MaxFrames
  /\ drawing' = ~(pending /\ working)
  /\ IF drawing' THEN UNCHANGED todo ELSE Then("game", Recorded("busy"))
  /\ UNCHANGED <<pending, working, failed, shown, read, loaded, shared>>

\* Slip: the error has been recorded by the worker, so the frame is not.
Forgives == Recorded("none")
Failure == Recorded("errors")

(* EndDrawing: an error of the worker is answered once and takes this      *)
(* frame with it; a frame that still waits is replaced, and recorded so.   *)
Present ==
  /\ Idle("game") /\ drawing
  /\ drawing' = FALSE /\ failed' = FALSE
  /\ pending' = (pending \/ ~failed)
  /\ Then("game", IF failed THEN Failure ELSE IF pending THEN Replaced ELSE Recorded("none"))
  /\ UNCHANGED <<working, shown, read, loaded, shared>>

-----------------------------------------------------------------------------
(* The worker.                                                             *)

ShownOps == <<"store", "load", "raise">>
FailedOps == <<"dropped", "errors", "store", "load", "raise">>

\* Not while present has the mutex, in which it records a replaced frame.
Take ==
  /\ Idle("worker") /\ pending /\ ~working
  /\ ~(At("game", "superseded") \/ (At("game", "dropped") /\ todo["game"][2] = "superseded"))
  /\ pending' = FALSE /\ working' = TRUE
  /\ UNCHANGED <<drawing, failed, shown, todo, read, loaded, shared>>

\* The panel was given the frame or not; what is in flight is read in the mutex.
Finish ==
  /\ working /\ working' = FALSE
  /\ read' = [read EXCEPT !["worker"] = IF pending THEN 1 ELSE 0]
  /\ \/ shown' = shown + 1 /\ UNCHANGED failed /\ Then("worker", ShownOps)
     \/ failed' = TRUE /\ UNCHANGED shown /\ Then("worker", FailedOps)
  /\ UNCHANGED <<drawing, pending, loaded, shared>>

Next ==
  \/ \E t \in Threads : Add(t) \/ Read(t) \/ Store(t) \/ Load(t) \/ Raise(t)
  \/ Acquire \/ Present \/ Take \/ Finish

Spec == Init /\ [][Next]_vars
-----------------------------------------------------------------------------
(* With no call under way, every frame that was recorded was shown, is in  *)
(* flight or was lost to exactly one cause, and the peak is the most that  *)
(* was ever said to be in flight, however the operations of the two        *)
(* threads came between one another.                                       *)
CountsAddUp ==
  (\A t \in Threads : Idle(t)) =>
    /\ count["frames"] = shown + InFlight + count["dropped"]
    /\ count["dropped"] = count["busy"] + count["superseded"] + count["errors"]
    /\ peak = most /\ peak <= 2
=============================================================================
