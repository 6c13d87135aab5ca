------------------------------- MODULE SkyHop -------------------------------
(***************************************************************************)
(* Sky Hop (platform_game.c): the run through the levels, and the controls *)
(* that fingers hold on the glass.  Each touch event, of a press as of a   *)
(* move, goes through the pause button and the screens before it reaches   *)
(* the pointer slots, and the controls are computed anew from these.  The  *)
(* runner's steps, jumps and falls, what it collects and where it comes    *)
(* back to life are left out: they end in a tick's event.                  *)
(***************************************************************************)
EXTENDS Integers, FiniteSets

CONSTANTS
  Levels,    \* PLATFORM_LEVEL_COUNT
  Lives,     \* lives of a new run
  Slots,     \* PLATFORM_POINTER_COUNT slots
  Fingers,   \* track ids
  Nobody

Controls == {"left", "right", "jump"}
Areas == Controls \cup {"pause", "sky"}

VARIABLES
  phase,       \* "start", "playing", "paused", "clear", "won", "over"
  level, lives,
  held,        \* move_left, move_right, jump_held
  pointer,     \* Slots -> Nobody or [track, area]
  finger       \* Fingers -> Nobody or the area it is on: what the game has been told

vars == <<phase, level, lives, held, pointer, finger>>

TypeOK ==
  /\ phase \in {"start", "playing", "paused", "clear", "won", "over"}
  /\ level \in 0..Levels - 1 /\ lives \in 0..Lives
  /\ held \subseteq Controls
  /\ \A s \in Slots : pointer[s] # Nobody => pointer[s] \in [track : Fingers, area : Areas]
  /\ finger \in [Fingers -> Areas \cup {Nobody}]

NoPointers == [s \in Slots |-> Nobody]

Init ==
  /\ phase = "start" /\ level = 0 /\ lives = Lives
  /\ held = {} /\ pointer = NoPointers
  /\ finger = [f \in Fingers |-> Nobody]

----------------------------------------------------------------------------
(* The game as one value, for the calls that call each other.              *)
Game == [phase |-> phase, level |-> level, lives |-> lives, held |-> held, pointer |-> pointer]

Becomes(g) ==
  /\ phase' = g.phase /\ level' = g.level /\ lives' = g.lives
  /\ held' = g.held /\ pointer' = g.pointer

LoadLevel(g, n) == [g EXCEPT !.level = n, !.held = {}, !.pointer = NoPointers]

(* platform_game_set_action of RESTART and of PAUSE *)
Restarted(g) ==
  [CASE g.phase = "clear" -> LoadLevel(g, g.level + 1)
     [] g.phase = "start" -> LoadLevel(g, g.level)
     [] OTHER -> LoadLevel([g EXCEPT !.lives = Lives], 0) EXCEPT !.phase = "playing"]

PauseToggled(g) ==
  CASE g.phase = "playing" -> [g EXCEPT !.phase = "paused", !.held = {}]
    [] g.phase = "paused" -> [g EXCEPT !.phase = "playing"]
    [] OTHER -> g

(* sync_pointer_actions *)
Held(p) == {p[s].area : s \in {t \in Slots : p[t] # Nobody}} \cap Controls

Synced(g) == [g EXCEPT !.held = Held(g.pointer)]

\* Slip: a finger that is lifted while the game is not on is not let go.
OnlyWhilePlaying(g, p) == IF g.phase = "playing" THEN Synced([g EXCEPT !.pointer = p]) ELSE g
Tracks(g, p) == IF g.phase = "playing" THEN Synced([g EXCEPT !.pointer = p]) ELSE [g EXCEPT !.pointer = p]

SlotOf(g, f) == {s \in Slots : g.pointer[s] # Nobody /\ g.pointer[s].track = f}
Free(g) == {s \in Slots : g.pointer[s] = Nobody}

(* platform_game_set_pointer *)
Touched(g, f, area) ==
  LET on == IF g.phase \in {"playing", "paused"} THEN g ELSE Restarted(g)
      slots == IF SlotOf(on, f) # {} THEN SlotOf(on, f) ELSE Free(on)
  IN CASE g.phase = "paused" -> PauseToggled(g)
       [] g.phase # "paused" /\ area = "pause" -> PauseToggled(on)
       [] g.phase # "paused" /\ area # "pause" /\ slots = {} -> on
       [] OTHER -> Tracks(on, [on.pointer EXCEPT ![CHOOSE s \in slots : TRUE] =
                                 [track |-> f, area |-> area]])

Touch(f, area) ==
  /\ finger' = [finger EXCEPT ![f] = area]
  /\ Becomes(Touched(Game, f, area))

Lift(f) ==
  /\ finger[f] # Nobody
  /\ finger' = [finger EXCEPT ![f] = Nobody]
  /\ IF SlotOf(Game, f) = {} THEN Becomes(Game)
     ELSE Becomes(Tracks(Game, [pointer EXCEPT ![CHOOSE s \in SlotOf(Game, f) : TRUE] = Nobody]))

(* The pause and restart buttons of a board, through the same actions.     *)
Button(restart) ==
  /\ Becomes(IF restart THEN Restarted(Game) ELSE PauseToggled(Game))
  /\ UNCHANGED finger

(* lose_life *)
LifeLost(g) ==
  IF g.lives > 1 THEN [g EXCEPT !.lives = @ - 1]
  ELSE [g EXCEPT !.lives = 0, !.phase = "over"]

(* platform_game_update: an enemy ends the tick, a fall or the finish come *)
(* after it.  In no level is there a gap beyond the finish.                *)
Update(event) ==
  /\ phase = "playing"
  /\ Becomes(CASE event \in {"enemy", "fall"} -> LifeLost(Game)
               [] event = "finish" ->
                    [Game EXCEPT !.phase = IF level + 1 < Levels THEN "clear" ELSE "won"])
  /\ UNCHANGED finger

Next ==
  \/ \E f \in Fingers, area \in Areas : Touch(f, area)
  \/ \E f \in Fingers : Lift(f)
  \/ \E restart \in BOOLEAN : Button(restart)
  \/ \E event \in {"enemy", "fall", "finish"} : Update(event)

Spec == Init /\ [][Next]_vars

----------------------------------------------------------------------------
(* A pointer slot belongs to a finger that is still down, a finger has one *)
(* at most, and while the game is on a control is held only by such a      *)
(* slot: whatever fingers do while it pauses, between levels and on the    *)
(* screens, no control stays held.  A game that is on has lives, and a     *)
(* level that is cleared has one after it.                                 *)
NothingIsStuck ==
  /\ \A s \in Slots : pointer[s] # Nobody => finger[pointer[s].track] # Nobody
  /\ \A f \in Fingers : Cardinality(SlotOf(Game, f)) <= 1
  /\ phase = "playing" => held \subseteq Held(pointer) /\ lives > 0
  /\ phase = "clear" => level + 1 < Levels
=============================================================================
