---------------------------- MODULE WorldSession ----------------------------
(***************************************************************************)
(* The session of Living Worlds (living_worlds_session.c): a scene is a    *)
(* background, the atlases of its volumes and its music, and only those of *)
(* one scene fit into memory.  A touch of the scene bar switches; when the *)
(* new scene cannot be loaded the session goes back to the one before it.  *)
(* Any load may fail.  The device's background, a decoded picture, and the *)
(* touches of living_worlds_world.c are part of the module; where one      *)
(* looks and what moves in a scene are not.                                *)
(***************************************************************************)
EXTENDS Integers, FiniteSets

CONSTANTS
  Scenes, First,  \* First is LIVING_SCENE_OCEAN, where a reset leads
  Parts,          \* Scenes -> number of atlases its volumes have
  Tracks,         \* scenes whose music is in the assets
  None

VARIABLES
  open,        \* session->assets # NULL
  scene,
  background,  \* scene whose picture is in background_pixels, or None
  volumes,     \* loaded_volumes, None for UINT8_MAX
  held,        \* atlases in memory: <<scene, number>>
  tracks,      \* scenes whose music has been loaded
  attempted,   \* audio.load_attempted
  playing,     \* audio.playing_scene
  touch,       \* "up", "drag" (dragging), "ui" (ui_touch)
  effects,     \* effects_level
  stuck        \* history: going back, or a reset, has failed since the last good load

vars == <<open, scene, background, volumes, held, tracks, attempted, playing, touch, effects, stuck>>

Atlases(s) == {<<s, n>> : n \in 1..Parts[s]}

TypeOK ==
  /\ {open, attempted, stuck} \subseteq BOOLEAN
  /\ scene \in Scenes
  /\ {background, volumes, playing} \subseteq Scenes \cup {None}
  /\ held \subseteq UNION {Atlases(s) : s \in Scenes}
  /\ tracks \subseteq Scenes
  /\ touch \in {"up", "drag", "ui"} /\ effects \in 0..2

Init ==
  /\ open = FALSE /\ scene = First
  /\ background = None /\ volumes = None /\ held = {}
  /\ tracks = {} /\ attempted = FALSE /\ playing = None
  /\ touch = "up" /\ effects = 1 /\ stuck = FALSE

----------------------------------------------------------------------------
(* What is loaded, as one value: a load takes one to another.              *)
Loaded == [background |-> background, volumes |-> volumes, held |-> held]

Holds(r) == background' = r.background /\ volumes' = r.volumes /\ held' = r.held

(* load_background decodes before it lets go of the old picture. *)
BackgroundLoads(r, s) ==
  {[ok |-> TRUE, r |-> [r EXCEPT !.background = s]], [ok |-> FALSE, r |-> r]}

Unloaded(r) == [r EXCEPT !.volumes = None, !.held = {}]

(* load_volumes lets go of the old atlases first. *)
VolumesLoad(r, s) ==
  IF r.volumes = s THEN {[ok |-> TRUE, r |-> r]}
  ELSE {[ok |-> TRUE, r |-> [r EXCEPT !.volumes = s, !.held = Atlases(s)]]}
       \cup {[ok |-> FALSE, r |-> Unloaded(r)]}

(* load_background(s) || load_volumes(s) *)
SceneLoads(r, s) ==
  UNION {IF b.ok THEN VolumesLoad(b.r, s) ELSE {b} : b \in BackgroundLoads(r, s)}

(* (void)load_background(s); (void)load_volumes(s) *)
SceneForced(r, s) ==
  UNION {{[ok |-> b.ok /\ v.ok, r |-> v.r] : v \in VolumesLoad(b.r, s)} : b \in BackgroundLoads(r, s)}

(* living_worlds_scene_audio_select *)
Selected(s) == IF s \in tracks THEN s ELSE None

----------------------------------------------------------------------------
Start ==
  /\ ~open
  /\ scene' = First
  /\ touch' = "up" /\ effects' = 1
  /\ \E l \in SceneLoads(Loaded, First) :
       /\ open' = l.ok
       /\ Holds(IF l.ok THEN l.r ELSE [background |-> None, volumes |-> None, held |-> {}])
  /\ tracks' = {} /\ attempted' = FALSE /\ playing' = None
  /\ stuck' = FALSE

\* Slip: the session stays with the scene it could not load.
StaysThere(r, s) == {[ok |-> TRUE, r |-> r]}
GoesBack(r, s) == SceneForced(r, s)

(* enter_scene through living_worlds_session_pointer. *)
Switch(s) ==
  \E l \in SceneLoads(Loaded, s) :
    IF l.ok
    THEN /\ scene' = s /\ Holds(l.r) /\ playing' = Selected(s) /\ stuck' = FALSE
    ELSE \E b \in GoesBack(l.r, scene) :
           /\ Holds(b.r)
           /\ stuck' = ~b.ok
           /\ UNCHANGED <<scene, playing>>

Stays == UNCHANGED <<scene, background, volumes, held, playing, stuck>>

(* living_world_pointer, pressed: on the effects chip, on a button of the  *)
(* bar or between them (None), elsewhere.  A finger that slides presses    *)
(* again and again.                                                        *)
PressChip ==
  /\ open /\ touch # "drag"
  /\ touch' = "ui"
  /\ effects' = (effects + 1) % 3
  /\ Stays
  /\ UNCHANGED <<open, tracks, attempted>>

PressBar(s) ==
  /\ open /\ touch # "drag"
  /\ touch' = "ui"
  /\ IF s \in Scenes \ {scene} THEN Switch(s) ELSE Stays
  /\ UNCHANGED <<open, tracks, attempted, effects>>

PressView ==
  /\ open
  /\ touch' = IF touch = "ui" THEN "ui" ELSE "drag"
  /\ Stays
  /\ UNCHANGED <<open, tracks, attempted, effects>>

Lift ==
  /\ open
  /\ touch' = "up"
  /\ Stays
  /\ UNCHANGED <<open, tracks, attempted, effects>>

(* living_worlds_scene_audio_update, once the audio device is up. *)
LoadMusic ==
  /\ open /\ ~attempted
  /\ attempted' = TRUE
  /\ tracks' \in SUBSET Tracks
  /\ playing' = IF scene \in tracks' THEN scene ELSE None
  /\ UNCHANGED <<open, scene, background, volumes, held, touch, effects, stuck>>

(* living_worlds_session_reset *)
Reset ==
  /\ open
  /\ scene' = First
  /\ touch' = "up" /\ effects' = 1
  /\ \E l \in SceneForced(Loaded, First) : Holds(l.r) /\ stuck' = ~l.ok
  /\ playing' = Selected(First)
  /\ UNCHANGED <<open, tracks, attempted>>

Close ==
  /\ open
  /\ open' = FALSE
  /\ background' = None /\ volumes' = None /\ held' = {}
  /\ tracks' = {} /\ attempted' = FALSE /\ playing' = None
  /\ UNCHANGED <<scene, touch, effects, stuck>>

Next ==
  \/ Start \/ PressChip \/ PressView \/ Lift \/ LoadMusic \/ Reset \/ Close
  \/ \E s \in Scenes \cup {None} : PressBar(s)

Spec == Init /\ [][Next]_vars

----------------------------------------------------------------------------
(* The scene that is shown is the one whose picture, volumes and music     *)
(* there are, also after a switch that failed half-way, unless going back  *)
(* or a reset failed as well; the atlases in memory are all of one scene   *)
(* or none; a closed session, and one that did not start, holds nothing.   *)
SceneIsWhole ==
  /\ open /\ ~stuck => background = scene /\ volumes = scene
  /\ held = IF volumes = None THEN {} ELSE Atlases(volumes)
  /\ playing \in {scene, None}
  /\ ~open => background = None /\ held = {} /\ playing = None
=============================================================================
