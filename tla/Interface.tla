------------------------------ MODULE Interface ------------------------------
(***************************************************************************)
(* The helpers a game builds its screens from: buttons under fingers and a *)
(* focus (raylib_lite_ui.c), and a stack of scenes (raylib_lite_scene.c).  *)
(* A place on the screen is a cell.  A callback calls none of these        *)
(* functions.                                                              *)
(***************************************************************************)
EXTENDS Integers, Sequences, FiniteSets

CONSTANTS
  Nodes,     \* the interface: a sequence of [button, at], at the cells it covers
  Tracks, Cells, \* fingers, and where they may be
  Directions, \* in which the focus is moved; 0 stays
  Pointers,  \* RAYLIB_LITE_UI_POINTER_CAPACITY
  Scenes,    \* scenes with their contexts
  Depth,     \* RAYLIB_LITE_SCENE_STACK_CAPACITY
  None

VARIABLES
  visible, lit, \* nodes[i].visible and .pressed
  focused,   \* 0 for none: nodes are counted from 1
  pointer,   \* pointers: a sequence of [track, at, active]
  glass,     \* where the fingers are that the interface was told of
  clicks,    \* history: [heard, meant], the callbacks of the last call and those it stands for
  turned,    \* history: nodes hidden or shown since the last call about a finger
  stack,     \* entries
  life       \* history: what a scene takes itself for, from the callbacks it got

ui == <<visible, lit, focused, pointer, glass, clicks, turned>>
scenes == <<stack, life>>
vars == <<ui, scenes>>

Buttons == {i \in DOMAIN Nodes : Nodes[i].button}
Slot == 1 .. Pointers
Unused == [track |-> None, at |-> None, active |-> FALSE]  \* what is left in it is never read
NoClicks == [heard |-> {}, meant |-> {}]

Init ==
  /\ visible = DOMAIN Nodes
  /\ lit = {}
  /\ focused = 0
  /\ pointer = [s \in Slot |-> Unused]
  /\ glass = [t \in Tracks |-> None]
  /\ clicks = NoClicks
  /\ turned = {}
  /\ stack = <<>>
  /\ life = [s \in Scenes |-> "out"]

-----------------------------------------------------------------------------
\* Buttons.

First(S) == CHOOSE s \in S : \A t \in S : s <= t
On(cell) == {i \in Buttons \cap visible : cell \in Nodes[i].at}

(* raylib_lite_ui_pointer: the slot of the finger, or a free one for one   *)
(* that is down; a button hears of a finger that is lifted where it was.   *)
SlotOf(track, down) ==
  LET its == {s \in Slot : pointer[s].active /\ pointer[s].track = track}
      free == {s \in Slot : ~pointer[s].active}
  IN IF its # {} THEN First(its) ELSE IF down /\ free # {} THEN First(free) ELSE None
Lit(p, old) ==
  (old \ visible) \cup UNION {On(p[s].at) : s \in {s \in Slot : p[s].active}}

Pointer(track, cell, down) ==
  LET slot == SlotOf(track, down)
      before == IF slot = None THEN None ELSE pointer[slot].at
  IN /\ down \/ glass[track] # None
     /\ glass' = [glass EXCEPT ![track] = IF down THEN cell ELSE None]
     /\ pointer' = IF slot = None THEN pointer
                   ELSE [pointer EXCEPT ![slot] = IF down THEN [track |-> track, at |-> cell, active |-> TRUE] ELSE Unused]
     /\ lit' = Lit(pointer', lit)
     /\ clicks' = [heard |-> IF slot = None \/ down THEN {} ELSE {i \in On(cell) : before \in Nodes[i].at},
                   meant |-> IF down THEN {} ELSE {i \in Buttons \cap visible : {cell, glass[track]} \subseteq Nodes[i].at}]
     /\ turned' = {}
     /\ UNCHANGED <<visible, focused, scenes>>

(* raylib_lite_ui_action: the next visible button in a direction, around   *)
(* the end, and the callback of the one in focus.                          *)
Around(from, steps) == 1 + ((from + steps - 1) % Len(Nodes))
Found(from, direction) ==
  LET there == {n \in DOMAIN Nodes : Around(from, n * direction) \in Buttons \cap visible}
  IN IF there = {} THEN from ELSE Around(from, First(there) * direction)
Action(direction, confirm) ==
  /\ focused' = IF direction = 0 THEN focused ELSE Found(focused, direction)
  /\ clicks' = IF confirm /\ focused' # 0 THEN [heard |-> {focused'}, meant |-> {focused'}] ELSE NoClicks
  /\ UNCHANGED <<visible, lit, pointer, glass, turned, scenes>>

\* The game hides a node or shows it again.
Turn(i) ==
  /\ visible' = IF i \in visible THEN visible \ {i} ELSE visible \cup {i}
  /\ turned' = turned \cup {i}
  /\ clicks' = NoClicks
  /\ UNCHANGED <<lit, focused, pointer, glass, scenes>>

-----------------------------------------------------------------------------
\* Scenes, each on the stack at most once.

Top == stack[Len(stack)]
Below == stack[Len(stack) - 1]

(* What a scene makes of a callback; one out of turn leaves it confused.   *)
Turns == [enter |-> <<"out", "running">>, pause |-> <<"running", "paused">>,
          resume |-> <<"paused", "running">>, exit |-> <<"running", "out">>]
Told(l, callback, scene) ==
  [l EXCEPT ![scene] = IF @ = Turns[callback][1] THEN Turns[callback][2] ELSE "confused"]

Push(scene) ==
  /\ scene \notin {stack[n] : n \in DOMAIN stack}
  /\ Len(stack) < Depth
  /\ stack' = Append(stack, scene)
  /\ life' = Told(IF stack = <<>> THEN life ELSE Told(life, "pause", Top), "enter", scene)
  /\ UNCHANGED ui
Pop ==
  /\ stack # <<>>
  /\ stack' = SubSeq(stack, 1, Len(stack) - 1)
  /\ LET left == Told(life, "exit", Top) IN
     life' = IF Len(stack) > 1 THEN Told(left, "resume", Below) ELSE left
  /\ UNCHANGED ui
Replace(scene) ==
  /\ scene \notin {stack[n] : n \in 1 .. Len(stack) - 1}
  /\ stack' = IF stack = <<>> THEN <<scene>> ELSE [stack EXCEPT ![Len(stack)] = scene]
  /\ life' = Told(IF stack = <<>> THEN life ELSE Told(life, "exit", Top), "enter", scene)
  /\ UNCHANGED ui

Next ==
  \/ \E t \in Tracks, c \in Cells, down \in BOOLEAN : Pointer(t, c, down)
  \/ \E d \in Directions, confirm \in BOOLEAN : Action(d, confirm)
  \/ \E i \in Buttons : Turn(i)
  \/ \E s \in Scenes : Push(s) \/ Replace(s)
  \/ Pop

Spec == Init /\ [][Next]_vars
-----------------------------------------------------------------------------
TypeOK ==
  /\ visible \subseteq DOMAIN Nodes /\ lit \subseteq Buttons /\ focused \in Buttons \cup {0}
  /\ pointer \in [Slot -> [track : Tracks \cup {None}, at : Cells \cup {None}, active : BOOLEAN]]
  /\ glass \in [Tracks -> Cells \cup {None}]
  /\ stack \in Seq(Scenes) /\ life \in [Scenes -> {"out", "running", "paused"}]

(* A button is called for a finger that is lifted from it and was on it    *)
(* before, for nothing else, and for each one that was let in; it is lit   *)
(* while such a finger is on it.  A finger more than there are slots for   *)
(* is heard of when it moves after another one is gone.                    *)
HeldBy == [t \in Tracks |-> {s \in Slot : pointer[s].active /\ pointer[s].track = t}]
ButtonsFollowFingers ==
  /\ clicks.heard \subseteq clicks.meant
  /\ \A t \in Tracks : /\ Cardinality(HeldBy[t]) <= 1
                        /\ \A s \in HeldBy[t] : pointer[s].at = glass[t]
  /\ \A i \in (Buttons \cap visible) \ turned :
       i \in lit <=> \E t \in Tracks : HeldBy[t] # {} /\ glass[t] \in Nodes[i].at
(* A lifted finger that had a slot was heard by all buttons it means. *)
ClicksAreHeard ==
  \A t \in Tracks : glass[t] # None /\ glass'[t] = None /\ HeldBy[t] # {} => clicks'.heard = clicks'.meant

(* Going on in either direction, the focus visits every visible button. *)
Visited(direction) ==
  LET walk[n \in 0 .. Len(Nodes)] == IF n = 0 THEN focused ELSE Found(walk[n - 1], direction)
  IN  {walk[n] : n \in 1 .. Len(Nodes)}
FocusGoesRound == \A d \in {-1, 1} : Buttons \cap visible \subseteq Visited(d)

(* The scene on top runs, those under it are paused, and the others are    *)
(* out; none is told anything twice or out of turn.                        *)
ScenesTakeTurns ==
  \A s \in Scenes :
    life[s] = CASE stack # <<>> /\ s = Top -> "running"
                [] \E n \in 1 .. Len(stack) - 1 : stack[n] = s -> "paused"
                [] OTHER -> "out"
=============================================================================
