------------------------------ MODULE Preview ------------------------------
(***************************************************************************)
(* The host preview's server (run_game.py): a thread that steps the game,  *)
(* and a thread per request of the page that reports fingers and keys,     *)
(* fetches a frame, asks for the state or controls the clock; they share   *)
(* the settings of the simulation, and a lock in front of the game.  When  *)
(* the game's sources change, the step that notices it builds the game     *)
(* anew and closes the old one.  Under it the input state of the window    *)
(* (raylib_lite_raylib_impl.c), that host_module_bridge.c fills and the    *)
(* end of a frame clears of its edges.  Positions are left out.            *)
(***************************************************************************)
EXTENDS Integers, FiniteSets

CONSTANTS
  Tracks,   \* fingers of the page
  Slots,    \* RAYLIB_LITE_RAYLIB_POINTER_COUNT, and the fingers of a request
  Actions,  \* what the page's buttons may say, of left, right, jump and restart
  Handlers, \* bound: requests that are served at a time
  Builds,   \* bound: how often the game is built
  None

VARIABLES
  paused, wanted, shown, \* simulation["paused"], ["actions"] and ["pointers"]
  lock,     \* who holds runtime.lock, or None
  loop,     \* the stepping thread: [pc, wants]
  handler,  \* each request's thread
  game,     \* number of the game that is current
  alive,    \* the games that are not closed
  changed,  \* a watched file is newer than the game
  window,   \* the current game's window: [down, pressed, released, finger, touched, lifted]
  before,   \* history: what was down when the window's last frame ended
  mixed     \* history: "told", "rebuilt" or "mixed" (see FingersAreHeld)

vars == <<paused, wanted, shown, lock, loop, handler, game, alive, changed, window, before, mixed>>

(* The keys an action stands for: primary and alias. *)
Key == [left |-> {"KEY_LEFT", "KEY_A"}, right |-> {"KEY_RIGHT", "KEY_D"}, jump |-> {"KEY_SPACE"},
        restart |-> {"KEY_ENTER"}]
KeysOf(actions) == UNION {Key[a] : a \in actions}

Slot == 1 .. Slots
NewWindow == [down |-> {}, pressed |-> {}, released |-> {},
              finger |-> [s \in Slot |-> None], touched |-> {}, lifted |-> {}]
Busy(w) == {s \in Slot : w.finger[s] # None}
Touching(w) == {w.finger[s] : s \in Slot} \ {None}
Reports == {[fingers |-> f, actions |-> a] : f \in {f \in SUBSET Tracks : Cardinality(f) <= Slots}, a \in SUBSET (Actions \ {"restart"})}
Idle == [pc |-> "idle"]
Reporting(h) == handler[h].pc \in {"lift", "press", "note"}
Goes(h, pc) == handler' = [handler EXCEPT ![h].pc = pc]
Settings == <<paused, wanted, shown>>

Init ==
  /\ paused = FALSE
  /\ wanted = {}
  /\ shown = {}
  /\ lock = None
  /\ loop = [pc |-> "look", wants |-> {}]
  /\ handler = [h \in Handlers |-> Idle]
  /\ game = 1
  /\ alive = {1}
  /\ changed = FALSE
  /\ window = NewWindow
  /\ before = [keys |-> {}, busy |-> {}]
  /\ mixed = "told"

-----------------------------------------------------------------------------
\* The window: its keys, its fingers and their edges.

Injected(w, keys, pressed) ==
  LET turned == IF pressed THEN keys \ w.down ELSE keys \cap w.down IN
  IF pressed THEN [w EXCEPT !.down = @ \cup turned, !.pressed = @ \cup turned]
  ELSE [w EXCEPT !.down = @ \ turned, !.released = @ \cup turned]

First(S) == CHOOSE s \in S : \A t \in S : s <= t

\* inject_pointer; a finger that finds no slot is not heard of.
Pressed(w, track) ==
  LET free == Slot \ Busy(w) IN
  IF track \in Touching(w) \/ free = {} THEN w
  ELSE [w EXCEPT !.finger[First(free)] = track, !.touched = @ \cup {First(free)}]
Released(w, tracks) ==
  [w EXCEPT !.finger = [s \in Slot |-> IF @[s] \in tracks THEN None ELSE @[s]],
            !.lifted = @ \cup {s \in Slot : w.finger[s] \in tracks}]

EdgesConsumed(w) == [w EXCEPT !.pressed = {}, !.released = {}, !.touched = {}, !.lifted = {}]

\* get_touch_point_count and get_touch_point_id, that count the active slots.
TouchCount == Cardinality(Busy(window))
TouchId(index) ==
  LET found == {s \in Busy(window) : Cardinality({t \in Busy(window) : t < s}) = index}
  IN IF found = {} THEN -1 ELSE window.finger[First(found)]

-----------------------------------------------------------------------------
\* The stepping thread, and a request that steps: both inside the lock.

(* ReloadableHostRuntime._reload, at the start of a step. *)
Unchanged == UNCHANGED <<game, alive, changed, window, before, mixed>>
Reload ==
  \/ ~changed /\ Unchanged
  \/ changed /\ changed' = FALSE /\ UNCHANGED <<game, alive, window, before, mixed>>  \* the build failed
  \/ /\ changed
     /\ game' = game + 1
     /\ alive' = (alive \ {game}) \cup {game + 1}
     /\ changed' = FALSE
     /\ window' = NewWindow
     /\ before' = [keys |-> {}, busy |-> {}]
     /\ mixed' = IF mixed = "mixed" /\ \E h \in Handlers : Reporting(h) THEN mixed ELSE "rebuilt"

(* GenericHostRuntime.step: the three buttons as they are, a restart only  *)
(* pressed, and the update, which leaves the edges to the next frame.      *)
Stepped(wants, restart) ==
  LET held == KeysOf(wants)
      others == KeysOf({"left", "right", "jump"}) \ held
      w == Injected(Injected(window, held, TRUE), others, FALSE)
  IN IF restart THEN Injected(w, KeysOf({"restart"}), TRUE) ELSE w

LoopLook ==
  /\ loop.pc = "look"
  /\ ~paused
  /\ loop' = [loop EXCEPT !.pc = "lock"]
  /\ UNCHANGED <<Settings, lock, handler, game, alive, changed, window, before, mixed>>
LoopEnters ==
  /\ loop.pc = "lock"
  /\ lock = None
  /\ lock' = "loop"
  /\ loop' = [loop EXCEPT !.pc = "step", !.wants = wanted]
  /\ Reload
  /\ UNCHANGED <<Settings, handler>>
LoopSteps ==
  /\ loop.pc = "step"
  /\ window' = Stepped(loop.wants, FALSE)
  /\ lock' = None
  /\ loop' = [loop EXCEPT !.pc = "look"]
  /\ UNCHANGED <<Settings, handler, game, alive, changed, before, mixed>>

-----------------------------------------------------------------------------
\* POST input: the buttons at once, the fingers inside the lock, and what
\* was reported after it.

InputArrives(h, report) ==
  /\ handler[h] = Idle
  /\ wanted' = report.actions
  /\ handler' = [handler EXCEPT ![h] = [pc |-> "lift", fingers |-> report.fingers, left |-> report.fingers]]
  /\ mixed' = IF \E other \in Handlers : Reporting(other) THEN "mixed" ELSE mixed
  /\ UNCHANGED <<paused, shown, lock, loop, game, alive, changed, window, before>>

\* pointer(track, ..., False) for the fingers that are not reported any more,
InputLifts(h) ==
  /\ handler[h].pc = "lift"
  /\ lock = None
  /\ lock' = h
  /\ window' = Released(window, shown \ handler[h].fingers)
  /\ Goes(h, "press")
  /\ UNCHANGED <<Settings, loop, game, alive, changed, before, mixed>>
\* pointer(track, ..., True) for each one that is, and out of the lock.
InputPresses(h) ==
  /\ handler[h].pc = "press"
  /\ \E track \in handler[h].left :
       /\ window' = Pressed(window, track)
       /\ handler' = [handler EXCEPT ![h].left = @ \ {track}]
  /\ UNCHANGED <<Settings, lock, loop, game, alive, changed, before, mixed>>
InputReported(h) ==
  /\ handler[h].pc = "press"
  /\ handler[h].left = {}
  /\ lock' = None
  /\ mixed' = IF mixed = "rebuilt" THEN "told" ELSE mixed
  /\ Goes(h, "note")
  /\ UNCHANGED <<Settings, loop, game, alive, changed, window, before>>
InputNotes(h) ==
  /\ handler[h].pc = "note"
  /\ shown' = handler[h].fingers
  /\ handler' = [handler EXCEPT ![h] = [pc |-> "read"]]
  /\ UNCHANGED <<paused, wanted, lock, loop, game, alive, changed, window, before, mixed>>

-----------------------------------------------------------------------------
\* The other requests.

\* GET frame: the module renders, and the end of the drawing takes the edges.
FrameBegins(h) ==
  /\ handler[h] = Idle
  /\ lock = None
  /\ lock' = h
  /\ handler' = [handler EXCEPT ![h] = [pc |-> "draw"]]
  /\ UNCHANGED <<Settings, loop, game, alive, changed, window, before, mixed>>
FrameEnds(h) ==
  /\ handler[h].pc = "draw"
  /\ window' = EdgesConsumed(window)
  /\ before' = [keys |-> window.down, busy |-> Busy(window)]
  /\ lock' = None
  /\ handler' = [handler EXCEPT ![h] = Idle]
  /\ UNCHANGED <<Settings, loop, game, alive, changed, mixed>>

\* POST control: pause and resume.
Pause(h) ==
  /\ handler[h] = Idle
  /\ paused' = ~paused
  /\ handler' = [handler EXCEPT ![h] = [pc |-> "read"]]
  /\ UNCHANGED <<wanted, shown, lock, loop, game, alive, changed, window, before, mixed>>
\* POST control: step and continue, with no button down.
ControlEnters(h, restart) ==
  /\ handler[h] = Idle
  /\ lock = None
  /\ lock' = h
  /\ handler' = [handler EXCEPT ![h] = [pc |-> "step", restart |-> restart]]
  /\ Reload
  /\ UNCHANGED <<Settings, loop>>
ControlSteps(h) ==
  /\ handler[h].pc = "step"
  /\ window' = Stepped({}, handler[h].restart)
  /\ lock' = None
  /\ handler' = [handler EXCEPT ![h] = [pc |-> "read"]]
  /\ UNCHANGED <<Settings, loop, game, alive, changed, before, mixed>>
\* POST control: reset, a message to the game alone.
ResetEnters(h) ==
  /\ handler[h] = Idle
  /\ lock = None
  /\ lock' = h
  /\ handler' = [handler EXCEPT ![h] = [pc |-> "reset"]]
  /\ UNCHANGED <<Settings, loop, game, alive, changed, window, before, mixed>>
ResetLeaves(h) ==
  /\ handler[h].pc = "reset"
  /\ lock' = None
  /\ handler' = [handler EXCEPT ![h] = [pc |-> "read"]]
  /\ UNCHANGED <<Settings, loop, game, alive, changed, window, before, mixed>>

(* The state of the game for GET state and for the answer to a POST, read  *)
(* outside the lock: the game may be closed before it is read.             *)
Asks(h) ==
  /\ handler[h] = Idle
  /\ handler' = [handler EXCEPT ![h] = [pc |-> "read"]]
  /\ UNCHANGED <<Settings, lock, loop, game, alive, changed, window, before, mixed>>
Answered(h) ==
  /\ handler[h].pc = "read"
  /\ handler' = [handler EXCEPT ![h] = Idle]
  /\ UNCHANGED <<Settings, lock, loop, game, alive, changed, window, before, mixed>>

\* Someone saves a source of the game.
Edit ==
  /\ ~changed
  /\ game < Builds
  /\ changed' = TRUE
  /\ UNCHANGED <<Settings, lock, loop, handler, game, alive, window, before, mixed>>

Next ==
  \/ LoopLook \/ LoopEnters \/ LoopSteps \/ Edit
  \/ \E h \in Handlers :
       \/ \E report \in Reports : InputArrives(h, report)
       \/ InputLifts(h) \/ InputPresses(h) \/ InputReported(h) \/ InputNotes(h)
       \/ FrameBegins(h) \/ FrameEnds(h) \/ Pause(h)
       \/ \E restart \in {FALSE, "restart" \in Actions} : ControlEnters(h, restart)
       \/ ControlSteps(h) \/ ResetEnters(h) \/ ResetLeaves(h)
       \/ Asks(h) \/ Answered(h)

Spec == Init /\ [][Next]_vars
-----------------------------------------------------------------------------
(* What changes the game is one thread at a time, in a game that is open:  *)
(* every way into it, a rebuild in the middle of a step among them, takes  *)
(* the lock.                                                               *)
Inside == {h \in Handlers : handler[h].pc \in {"press", "draw", "step", "reset"}}
OneInTheGame ==
  /\ Cardinality(Inside) + (IF loop.pc = "step" THEN 1 ELSE 0) <= 1
  /\ game \in alive
  /\ Cardinality(alive) = 1

(* The window holds the fingers the page reported last, one to a slot, and *)
(* a count and ids give each of them once; a game that was built anew      *)
(* waits for the next report.  Reports that overlapped are left out: what  *)
(* they noted may be another one's fingers, and one of them stays down.    *)
FingersAreHeld ==
  /\ \A s, t \in Slot : s # t /\ window.finger[s] # None => window.finger[s] # window.finger[t]
  /\ {TouchId(i) : i \in 0 .. TouchCount - 1} = Touching(window)
  /\ (\A h \in Handlers : ~Reporting(h)) =>
       /\ mixed = "told" => Touching(window) = shown
       /\ mixed = "rebuilt" => Touching(window) \subseteq shown

(* A game that looks at the edges in a frame misses no key and no finger   *)
(* that changed since the last one, and sees no change that was not.       *)
EdgesTellChanges ==
  LET busy == Busy(window) IN
  /\ window.down \ before.keys \subseteq window.pressed
  /\ before.keys \ window.down \subseteq window.released
  /\ busy \ before.busy \subseteq window.touched
  /\ before.busy \ busy \subseteq window.lifted
  /\ window.pressed \ window.released \subseteq window.down \ before.keys
  /\ window.touched \ window.lifted \subseteq busy \ before.busy
  /\ window.released \ window.pressed \subseteq before.keys \ window.down
  /\ window.lifted \ window.touched \subseteq before.busy \ busy
=============================================================================
