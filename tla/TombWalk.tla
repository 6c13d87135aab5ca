------------------------------ MODULE TombWalk ------------------------------
(***************************************************************************)
(* Tomb Raycast: an avatar walks through rooms of sectors with a floor and *)
(* a ceiling of their own, a camera follows it, and fingers hold a stick,  *)
(* a button and the view (tomb_game.c, game_module.c).                     *)
(*                                                                         *)
(* Horizontal places are in 1 / Unit of a sector, heights in 1 / Unit^2 of *)
(* the unit the corners are given in, so that a slope stays whole.  Angles *)
(* and speeds are left out: a tick walks by any of Moves, and the camera   *)
(* looks along any of Booms.                                               *)
(***************************************************************************)
EXTENDS Integers, Sequences, FiniteSets, TLC

CONSTANTS
  Rooms,       \* [x, z, sectors]: rows of [solid, floor, ceiling], whose corners are nw, ne, se, sw
  Portals,     \* pairs of sectors <<x, z>> that the level joins
  Start,       \* [x, y, z, room]
  Moves,       \* <<dx, dz>> of a tick
  Booms,       \* <<x, y, z>>: from the avatar's head to the camera, a step
  Unit, Radius, StepUp, Snap, Headroom, Gravity, JumpSpeed, CameraHeight,
  First, Last, \* the steps of the boom that are tried
  FloorGap, CeilingGap,
  Fingers, None

VARIABLES
  at,          \* [x, y, z, room]
  grounded, speed,
  camera,      \* [x, y, z, room, k, boom]: at the k-th step of the boom
  joystick, look, button,  \* the finger that holds it
  deflected,   \* the stick is not at rest
  jump, paused,
  glass,       \* history: the fingers on the glass
  crossed      \* history: the sectors of the last step from room to room

walker == <<at, grounded, speed, camera, crossed>>
controls == <<joystick, look, button, deflected, jump>>
vars == <<walker, controls, paused, glass>>

----------------------------------------------------------------------------
Contains(r, x, z) ==
  /\ x \div Unit - Rooms[r].x + 1 \in DOMAIN Rooms[r].sectors[1]
  /\ z \div Unit - Rooms[r].z + 1 \in DOMAIN Rooms[r].sectors

(* tomb_room_at: the room of the hint first. *)
RoomAt(x, z, hint) ==
  IF hint \in DOMAIN Rooms /\ Contains(hint, x, z) THEN hint
  ELSE IF \E r \in DOMAIN Rooms : Contains(r, x, z)
  THEN CHOOSE r \in DOMAIN Rooms : Contains(r, x, z) /\ \A s \in 1 .. r - 1 : ~Contains(s, x, z)
  ELSE 0

Sector(x, z) == <<x \div Unit, z \div Unit>>
At(r, x, z) == Rooms[r].sectors[z \div Unit - Rooms[r].z + 1][x \div Unit - Rooms[r].x + 1]
Open(r, x, z) == r # 0 /\ ~At(r, x, z).solid

(* tomb_heights_at: between the corners of the sector. *)
Blend(corner, x, z) ==
  LET fx == x % Unit  fz == z % Unit
  IN  (corner[1] * (Unit - fx) + corner[2] * fx) * (Unit - fz) + (corner[4] * (Unit - fx) + corner[3] * fx) * fz
Floor(r, x, z) == Blend(At(r, x, z).floor, x, z)
Ceiling(r, x, z) == Blend(At(r, x, z).ceiling, x, z)

Higher(a, b) == IF a > b THEN a ELSE b

(* can_stand: the middle and four points of the body. *)
Body == {<<0, 0>>, <<Radius, 0>>, <<-Radius, 0>>, <<0, Radius>>, <<0, -Radius>>}
CanStand(x, z, y, hint) ==
  \A o \in Body :
    LET px == x + o[1]
        pz == z + o[2]
        r == RoomAt(px, pz, hint)
    IN  /\ Open(r, px, pz)
        /\ Floor(r, px, pz) <= y + StepUp
        /\ Ceiling(r, px, pz) - Higher(Floor(r, px, pz), y) >= Headroom

(* move_horizontal: along the wall when the way ahead is not free. *)
Moved(dx, dz) ==
  LET Free(ax, az) == CanStand(at.x + ax, at.z + az, at.y, at.room)
      To(ax, az) == [at EXCEPT !.x = @ + ax, !.z = @ + az, !.room = RoomAt(at.x + ax, at.z + az, @)]
  IN  CASE Free(dx, dz) -> To(dx, dz)
        [] ~Free(dx, dz) /\ Free(dx, 0) -> To(dx, 0)
        [] ~Free(dx, dz) /\ ~Free(dx, 0) /\ Free(0, dz) -> To(0, dz)
        [] OTHER -> To(0, 0)

(* move_vertical, as the height, the speed and whether there is ground. *)
Fallen(p, leap) ==
  LET floor == Floor(p.room, p.x, p.z)
      ceiling == Ceiling(p.room, p.x, p.z)
      leaps == grounded /\ leap
      stays == grounded /\ ~leap /\ floor >= p.y - Snap
      fast == (IF leaps THEN JumpSpeed ELSE speed) - Gravity
      bumps == p.y + fast + Headroom > ceiling /\ fast > 0
      high == IF bumps THEN ceiling - Headroom ELSE p.y + fast
  IN  IF ~Open(p.room, p.x, p.z) THEN <<p.y, speed, grounded>>
      ELSE IF stays \/ high <= floor THEN <<floor, 0, TRUE>>
      ELSE <<high, IF bumps THEN 0 ELSE fast, FALSE>>

(* place_camera: as far along the boom as there is room, but never nearer  *)
(* than its first step, wherever that is.                                  *)
Placed(p, boom) ==
  LET Point(k) == [x |-> p.x + k * boom[1], y |-> p.y + CameraHeight + k * boom[2], z |-> p.z + k * boom[3]]
      nearest == RoomAt(Point(First).x, Point(First).z, p.room)
      far[k \in First .. Last] ==
        IF k = First THEN [k |-> First, room |-> IF nearest = 0 THEN p.room ELSE nearest, blocked |-> FALSE]
        ELSE LET b == far[k - 1]
                 c == Point(k)
                 r == RoomAt(c.x, c.z, b.room)
                 free == /\ Open(r, c.x, c.z)
                         /\ c.y >= Floor(r, c.x, c.z) + FloorGap
                         /\ c.y <= Ceiling(r, c.x, c.z) - CeilingGap
             IN  IF b.blocked \/ ~free THEN [b EXCEPT !.blocked = TRUE] ELSE [k |-> k, room |-> r, blocked |-> FALSE]
      best == far[Last]
  IN  Point(best.k) @@ [room |-> best.room, k |-> best.k, boom |-> boom]

----------------------------------------------------------------------------
Init ==
  /\ at = Start /\ grounded = TRUE /\ speed = 0 /\ crossed = <<>>
  /\ \E boom \in Booms : camera = Placed(Start, boom)
  /\ joystick = None /\ look = None /\ button = None
  /\ deflected = FALSE /\ jump = FALSE /\ paused = FALSE
  /\ glass = {}

(* update and tomb_update. *)
Tick ==
  /\ ~paused
  /\ \E key \in BOOLEAN : jump' = (key \/ button # None)
  /\ \E p \in {Moved(m[1], m[2]) : m \in Moves}, boom \in Booms :
       \E fall \in {Fallen(p, jump')} :
         /\ at' = [p EXCEPT !.y = fall[1]]
         /\ speed' = fall[2]
         /\ grounded' = fall[3]
         /\ camera' = Placed(at', boom)
         /\ crossed' = IF p.room # at.room THEN <<Sector(at.x, at.z), Sector(p.x, p.z)>> ELSE crossed
  /\ UNCHANGED <<joystick, look, button, deflected, paused, glass>>

(* input: a press, or a move of a finger that is down already.  The button *)
(* lies in the right half.                                                 *)
Touch ==
  \E f \in Fingers, zone \in {"left", "right", "button"} :
    /\ glass' = glass \cup {f}
    /\ \/ f = joystick /\ deflected' \in BOOLEAN /\ UNCHANGED <<joystick, look, button, jump>>
       \/ f \in {look, button} /\ UNCHANGED controls
       \/ /\ f \notin {joystick, look, button}
          /\ IF zone = "button" /\ button = None
             THEN button' = f /\ jump' = TRUE /\ UNCHANGED <<joystick, look, deflected>>
             ELSE IF zone = "left" /\ joystick = None
             THEN joystick' = f /\ deflected' = FALSE /\ UNCHANGED <<look, button, jump>>
             ELSE IF zone # "left" /\ look = None
             THEN look' = f /\ UNCHANGED <<joystick, button, deflected, jump>>
             ELSE UNCHANGED controls
    /\ UNCHANGED <<walker, paused>>

Release ==
  \E f \in glass :
    /\ glass' = glass \ {f}
    /\ joystick' = IF f = joystick THEN None ELSE joystick
    /\ deflected' = (deflected /\ f # joystick)
    /\ look' = IF f = look THEN None ELSE look
    /\ button' = IF f = button THEN None ELSE button
    /\ jump' = (jump /\ f # button)
    /\ UNCHANGED <<walker, paused>>

(* The runner's controls; the fingers stay where they are (clear_tracks).  *)
Pause == paused' \in BOOLEAN /\ UNCHANGED <<walker, controls, glass>>
Reset ==
  /\ at' = Start /\ grounded' = TRUE /\ speed' = 0 /\ crossed' = <<>>
  /\ \E boom \in Booms : camera' = Placed(Start, boom)
  /\ joystick' = None /\ look' = None /\ button' = None
  /\ deflected' = FALSE /\ jump' = FALSE
  /\ UNCHANGED <<paused, glass>>

Next == Tick \/ Touch \/ Release \/ Pause \/ Reset
Spec == Init /\ [][Next]_vars

----------------------------------------------------------------------------
\* No open sectors of two rooms adjoin but where the level joins them.
Sectors(r) ==
  {<<Rooms[r].x + n - 1, Rooms[r].z + m - 1>> :
     <<n, m>> \in {p \in (DOMAIN Rooms[r].sectors[1]) \X (DOMAIN Rooms[r].sectors) : ~Rooms[r].sectors[p[2]][p[1]].solid}}
Sealed ==
  \A r, s \in DOMAIN Rooms : r # s =>
    \A p \in Sectors(r), q \in Sectors(s) :
      (p[1] - q[1]) * (p[1] - q[1]) + (p[2] - q[2]) * (p[2] - q[2]) = 1 => <<p, q>> \in Portals

(* The avatar stays in the room it is said to be in, its body out of the   *)
(* walls, on or above the floor and below the ceiling, and comes into a    *)
(* room where the level joins it to the last one.  (The code looks at      *)
(* places only, never at portals, so the last depends on a sealed level.)  *)
WalkIsSound ==
  /\ Contains(at.room, at.x, at.z)
  /\ \A o \in Body : Open(RoomAt(at.x + o[1], at.z + o[2], at.room), at.x + o[1], at.z + o[2])
  /\ LET floor == Floor(at.room, at.x, at.z)
     IN  /\ at.y >= floor /\ grounded => at.y = floor
         /\ at.y + Headroom <= Ceiling(at.room, at.x, at.z)
  /\ crossed = <<>> \/ crossed \in Portals \/ ~Sealed

(* An avatar that has stopped half way down a step, where nothing around   *)
(* it can be stood on, gets away with a jump.                              *)
Rise[v \in Int] == IF v <= Gravity THEN {0} ELSE {0} \cup {v - Gravity + h : h \in Rise[v - Gravity]}
NeverTrapped ==
  grounded =>
    \E m \in Moves \ {<<0, 0>>}, h \in Rise[JumpSpeed] :
      /\ at.y + h + Headroom <= Ceiling(at.room, at.x, at.z)
      /\ CanStand(at.x + m[1], at.z + m[2], at.y + h, at.room)

(* The camera is in the room it is drawn from, free of floor and ceiling,  *)
(* and so is every place between: unless it stands at the first step of    *)
(* its boom, where it may be behind a wall.                                *)
FreeAt(x, y, z) ==
  LET r == RoomAt(x, z, 0)
  IN  Open(r, x, z) /\ y \in Floor(r, x, z) + FloorGap .. Ceiling(r, x, z) - CeilingGap
CameraIsInside ==
  /\ camera.room = RoomAt(camera.x, camera.z, 0) \/ (camera.k = First /\ camera.room = at.room)
  /\ \A k \in 0 .. camera.k - First - 1 :
       FreeAt(camera.x - k * camera.boom[1], camera.y - k * camera.boom[2], camera.z - k * camera.boom[3])

(* On the ground a tick lifts the avatar by no more than a step, and lets  *)
(* it down by no more than it can follow.                                  *)
StepsAreSmall == grounded /\ grounded' /\ at' # Start => at'.y - at.y \in -Snap .. StepUp

(* A control is held by a finger on the glass, and by no finger twice.     *)
ControlsAreTouched ==
  /\ {joystick, look, button} \subseteq glass \cup {None}
  /\ \A f \in glass : Cardinality({c \in {1, 2, 3} : <<joystick, look, button>>[c] = f}) <= 1
  /\ deflected => joystick # None
=============================================================================
