---------------------------- MODULE LastZoneInput ----------------------------
(***************************************************************************)
(* The fingers of Last Zone: Extraction on the device (game_module.c):     *)
(* which of them holds the stick, the view, the trigger and the radar, and *)
(* the mask of contacts that keeps a finger which started a mission from   *)
(* playing it.  A place on the glass is the set of controls it lies in.    *)
(* The keys, which only the host has, and the pause control are left out.  *)
(***************************************************************************)
EXTENDS Naturals, FiniteSets, SequencesExt

CONSTANTS
  Fingers,
  Tracks,      \* track ids the panel may report
  Matching,    \* a finger is released under the id it was pressed with
  None

Order == <<"radar", "fire", "joystick", "look">>     \* who is asked first
Roles == Range(Order)
Areas == {{}, {"joystick"}, {"look"}, {"radar"}, {"radar", "look"},
          {"radar", "joystick"}, {"fire", "look"}}

VARIABLES
  phase,       \* game.phase: "start", "playing", "over"
  ready, warmup, blocked,   \* deploy_ready, warmup_frames, block_until_up
  mask,        \* contact_mask
  capture,     \* joystick_track, radar_track, look_track, fire_track
  finger       \* Fingers -> None or the track it was pressed with

vars == <<phase, ready, warmup, blocked, mask, capture, finger>>

TypeOK ==
  /\ phase \in {"start", "playing", "over"} /\ {ready, blocked} \subseteq BOOLEAN /\ warmup \in 0 .. 2
  /\ mask \subseteq 0 .. 7
  /\ capture \in [Roles -> Tracks \cup {None}]
  /\ finger \in [Fingers -> Tracks \cup {None}]

NoTracks == [r \in Roles |-> None]

Init ==
  /\ phase = "start" /\ ready = FALSE /\ warmup = 2 /\ blocked = FALSE
  /\ mask = {} /\ capture = NoTracks
  /\ finger = [f \in Fingers |-> None]
-----------------------------------------------------------------------------
Bit(track) == IF track > 7 THEN 0 ELSE track

\* note_contact
Noted(track, pressed) == IF pressed THEN mask \cup {Bit(track)} ELSE mask \ {Bit(track)}

(* A finger that has no role takes the first free one of where it touches. *)
Captured(track, area) ==
  LET open == SelectSeq(Order, LAMBDA r : r \in area /\ capture[r] = None)
  IN  IF open = <<>> \/ \E r \in Roles : capture[r] = track THEN capture
      ELSE [capture EXCEPT ![Head(open)] = track]

(* With no contact left every capture goes, whatever its track.            *)
Freed(track) ==
  [r \in Roles |-> IF capture[r] = track \/ mask' = {} THEN None ELSE capture[r]]

(* input of a pointer event, through its early returns.                    *)
Pointer(track, area, pressed) ==
  /\ mask' = Noted(track, pressed)
  /\ UNCHANGED <<ready, warmup>>
  /\ \/ /\ ~ready
        /\ capture' = NoTracks /\ UNCHANGED <<phase, blocked>>
     \/ /\ ready /\ phase # "playing"
        /\ phase' = IF pressed THEN "playing" ELSE phase       \* last_zone_confirm
        /\ blocked' = (blocked \/ pressed)
        /\ capture' = NoTracks
     \/ /\ ready /\ phase = "playing"
        /\ blocked' = (blocked /\ mask' # {})
        /\ capture' = IF blocked' THEN NoTracks
                      ELSE IF pressed THEN Captured(track, area) ELSE Freed(track)
        /\ UNCHANGED phase

Press(f, track, area) ==
  /\ finger[f] = None /\ \A g \in Fingers : finger[g] # track
  /\ finger' = [finger EXCEPT ![f] = track]
  /\ Pointer(track, area, TRUE)

Move(f, area) ==
  /\ finger[f] # None
  /\ Pointer(finger[f], area, TRUE)
  /\ UNCHANGED finger

Release(f, track) ==
  /\ finger[f] # None /\ (Matching => track = finger[f])
  /\ finger' = [finger EXCEPT ![f] = None]
  /\ Pointer(track, {}, FALSE)

\* RAYLIB_LITE_GAME_CONTROL_RESET
Reset ==
  /\ phase' = "start" /\ capture' = NoTracks /\ blocked' = FALSE
  /\ UNCHANGED <<ready, warmup, mask, finger>>

(* update: a mission may end in the tick, and the fingers are let go in    *)
(* the next one.                                                           *)
Update ==
  /\ warmup' = IF warmup > 0 THEN warmup - 1 ELSE 0
  /\ ready' = (ready \/ (warmup' = 0 /\ mask = {}))
  /\ IF phase # "playing" \/ blocked
     THEN capture' = NoTracks /\ UNCHANGED phase
     ELSE phase' \in {"playing", "over"} /\ UNCHANGED capture
  /\ UNCHANGED <<blocked, mask, finger>>

Next ==
  \/ \E f \in Fingers, t \in Tracks, a \in Areas : Press(f, t, a)
  \/ \E f \in Fingers, a \in Areas : Move(f, a)
  \/ \E f \in Fingers, t \in Tracks : Release(f, t)
  \/ Reset \/ Update

Spec == Init /\ [][Next]_vars
-----------------------------------------------------------------------------
(* Whatever holds a control is a finger that is on the glass, holds no     *)
(* other control, and came down after the mission began: the tap that      *)
(* deploys (block_until_up) and a finger held since before the game was    *)
(* ready steer nothing until every finger has left.                        *)
CapturesAreTouched ==
  /\ \A r \in Roles : capture[r] # None => \E f \in Fingers : finger[f] = capture[r]
  /\ \A r, s \in Roles : r # s => capture[r] = None \/ capture[r] # capture[s]
  /\ blocked \/ ~ready => capture = NoTracks

(* game_module.c:238-240 of the release: "Once nothing is touching, drop   *)
(* every capture so a mismatched id cannot leave the stick deflected."     *)
NothingTouchingNothingHeld ==
  (\A f \in Fingers : finger[f] = None) => capture = NoTracks
=============================================================================
