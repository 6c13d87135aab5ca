---------------------------- MODULE VideoContract ----------------------------
(***************************************************************************)
(* What a video backend promises its caller                                *)
(* (include/raylib_lite/raylib_lite_video.h, raylib_lite_video_backend_t): *)
(* at most one frame is leased at a time, present and discard consume it,  *)
(* an accepted frame stays in flight until the backend's release point,    *)
(* and what becomes visible never goes back to an older frame.  Frames are *)
(* numbered in the order acquire hands them out.                           *)
(***************************************************************************)
EXTENDS Integers

VARIABLES issued,       \* number of the newest frame handed out
          leased,       \* the frame the caller holds, 0 for none
          flight,       \* accepted frames that are not released yet
          shown,        \* newest frame that became visible, 0 for none
          open          \* the backend has not been torn down

vars == <<issued, leased, flight, shown, open>>

Init ==
  /\ issued = 0
  /\ leased = 0
  /\ flight = {}
  /\ shown = 0
  /\ open = TRUE

\* acquire answers OK.
Lease ==
  /\ open
  /\ leased = 0
  /\ issued' = issued + 1
  /\ leased' = issued'
  /\ UNCHANGED <<flight, shown, open>>

\* discard, or a present that refuses the frame: consumed all the same.
Consume ==
  /\ leased # 0
  /\ leased' = 0
  /\ UNCHANGED <<issued, flight, shown, open>>

\* present answers OK; it may replace one accepted frame not yet started.
Accept ==
  /\ open
  /\ leased # 0
  /\ \E superseded \in flight \cup {0} :
       flight' = (flight \ {superseded}) \cup {leased}
  /\ leased' = 0
  /\ UNCHANGED <<issued, shown, open>>

\* An accepted frame becomes visible.
Show(n) ==
  /\ n \in flight
  /\ n > shown
  /\ shown' = n
  /\ UNCHANGED <<issued, leased, flight, open>>

\* An accepted frame reaches its release point, visible or failed.
Release(n) ==
  /\ n \in flight
  /\ flight' = flight \ {n}
  /\ UNCHANGED <<issued, leased, shown, open>>

\* Tear-down: nothing is in flight and nothing is lent.
Shut ==
  /\ open
  /\ flight = {}
  /\ leased = 0
  /\ open' = FALSE
  /\ UNCHANGED <<issued, leased, flight, shown>>

Next ==
  \/ Lease
  \/ Consume
  \/ Accept
  \/ \E n \in flight : Show(n) \/ Release(n)
  \/ Shut

Spec == Init /\ [][Next]_vars
==============================================================================
