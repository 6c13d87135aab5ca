---------------------------- MODULE InputPipeline ----------------------------
(***************************************************************************)
(* From the touch panel to a game's actions: the sampling tasks of the     *)
(* ESP-Mosaico board (board.c), the bounded input queue                    *)
(* (raylib_lite_input_queue.c), the game loop that drains it               *)
(* (raylib_lite_game_app.c) and the action mapper (raylib_lite_action.c).  *)
(* The queue is locked per call, so each push and each poll is a step.     *)
(* Not modelled: timestamps and the dropped-event counter.                 *)
(***************************************************************************)
EXTENDS Naturals, Sequences, FiniteSets

CONSTANTS Track,       \* track_id of a finger
          Cell,        \* places on the panel that zones and drivers tell apart
          Capacity,    \* INPUT_CAPACITY
          TouchPoints, \* values of config.touch_points, at most the next
          Contacts,    \* RAYLIB_LITE_ACTION_CONTACT_CAPACITY
          Tilts,       \* what the IMU may report: "left", "right", "level"
          ZoneTables,  \* what a game may pass to raylib_lite_action_set_zones
          None         \* an inactive contact

Action == {"left", "right", "jump", "restart"}

ASSUME InputAssumption ==
  /\ Capacity \in Nat \ {0} /\ Contacts \in Nat \ {0}
  /\ TouchPoints \subseteq 1 .. Contacts
  /\ 0 \notin Track /\ IsFiniteSet([track : Track, cell : Cell])
  /\ None \notin [track : Track \cup {0}, cell : Cell]
  /\ Tilts \subseteq {"left", "right", "level"}
  /\ \A t \in ZoneTables : t \in [DOMAIN t -> SUBSET Cell] /\ DOMAIN t \subseteq Action

VARIABLES
  max,       \* max of touch_worker: the points a sample may have
  hand,      \* what the panel may still report: anything, or fingers at rest
  old,       \* old[] of touch_worker; was_pressed, last_x, last_y are old[1]
  wpc, at, reading,    \* touch_worker: its place, slot and points
  queue,     \* the input queue
  contacts, zones,     \* s_contacts, s_zones
  held, pulse, down,   \* s_held, s_pulse, s_down
  gpc        \* the game loop drains the queue, or runs updates

worker == <<max, old, wpc, at, reading>>
mapper == <<contacts, zones, held, pulse, down>>
vars == <<hand, worker, queue, mapper, gpc>>

Slots == 1 .. Contacts
Point == [track : Track, cell : Cell]
Idle  == [i \in Slots |-> None]

\* What the driver may report: at most n points of distinct fingers.
\* Points off the panel (mosaico_touch_valid) count as absent in every loop.
Readings(n) == { r \in SUBSET Point :
                   /\ Cardinality(r) <= n
                   /\ \A p, q \in r : p.track = q.track => p = q }

\* The active contacts of a table.
View(table) == { table[i] : i \in { s \in Slots : table[s] # None } }
Tracks(points) == { p.track : p \in points }

Lowest(S) == CHOOSE i \in S : \A j \in S : i <= j

Touch(point, pressed) ==
  [type |-> "touch", track |-> point.track, cell |-> point.cell,
   pressed |-> pressed]
Axis(t) == [type |-> "axis", tilt |-> t]

Init ==
  /\ max \in TouchPoints /\ hand = Readings(max)
  /\ old = Idle /\ wpc = "read" /\ at = 1 /\ reading = {}
  /\ queue = <<>>
  /\ contacts = Idle /\ zones \in ZoneTables
  /\ held = {} /\ pulse = {} /\ down = {}
  /\ gpc = "poll"

------------------------------------------------------------------------------
(* The producers.                                                          *)

\* raylib_lite_input_push: BUSY when the queue is full.
HasRoom == Len(queue) < Capacity
Push(event) == queue' = IF HasRoom THEN Append(queue, event) ELSE queue

\* The fingers come to rest, for good.
Rest ==
  /\ hand = Readings(max)
  /\ \E r \in Readings(max) : hand' = {r}
  /\ UNCHANGED <<worker, queue, mapper, gpc>>

\* esp_lcd_touch_read_data and _get_data; a failed read is a sample not taken.
Sample ==
  /\ wpc = "read"
  /\ reading' \in hand
  /\ wpc' = IF max = 1 THEN "single" ELSE "release"
  /\ at' = 1
  /\ UNCHANGED <<hand, max, old, queue, mapper, gpc>>

\* Slip: a release that the queue refuses is forgotten.
Forgotten(slot, new) == old' = [old EXCEPT ![slot] = new]

\* old[] follows what the queue has accepted.
Accepted(slot, new) == old' = IF HasRoom THEN [old EXCEPT ![slot] = new] ELSE old

\* max == 1: one pointer, whatever the finger; its track is 0.
SampleSingle ==
  /\ wpc = "single"
  /\ LET points == { [track |-> 0, cell |-> p.cell] : p \in reading } IN
       \/ \E p \in points :
            /\ p # old[1]
            /\ Push(Touch(p, TRUE)) /\ Accepted(1, p)
       \/ /\ points = {} /\ old[1] # None
          /\ Push(Touch(old[1], FALSE)) /\ Accepted(1, None)
       \/ /\ points = View(old)
          /\ UNCHANGED <<queue, old>>
  /\ wpc' = "read"
  /\ UNCHANGED <<hand, max, at, reading, mapper, gpc>>

\* The first loop: release the contacts that are absent, slot by slot.
SampleRelease ==
  /\ wpc = "release"
  /\ IF old[at] # None /\ old[at].track \notin Tracks(reading)
       THEN Push(Touch(old[at], FALSE)) /\ Accepted(at, None)
       ELSE UNCHANGED <<queue, old>>
  /\ at' = IF at = Contacts THEN 1 ELSE at + 1
  /\ wpc' = IF at = Contacts THEN "press" ELSE "release"
  /\ UNCHANGED <<hand, max, reading, mapper, gpc>>

\* The slot of a point: the one of its finger, or the lowest inactive one.
SlotFor(table, track, pressed) ==
  LET same == { i \in Slots : table[i] # None /\ table[i].track = track }
      free == { i \in Slots : table[i] = None }
  IN  IF same # {} THEN Lowest(same)
      ELSE IF pressed /\ free # {} THEN Lowest(free) ELSE 0

\* The second loop: presses and moves, in the driver's order, whatever it is.
SamplePress ==
  /\ wpc = "press"
  /\ \/ /\ reading = {}
        /\ wpc' = "read"
        /\ UNCHANGED <<old, queue, reading>>
     \/ \E p \in reading :
          LET slot == SlotFor(old, p.track, TRUE) IN
          /\ IF slot = 0 \/ p \in View(old)
               THEN UNCHANGED <<queue, old>>
               ELSE Push(Touch(p, TRUE)) /\ Accepted(slot, p)
          /\ reading' = reading \ {p}
          /\ UNCHANGED wpc
  /\ UNCHANGED <<hand, max, at, mapper, gpc>>

\* imu_worker: a sample that the queue refuses is superseded by the next.
SampleImu ==
  /\ \E t \in Tilts : Push(Axis(t))
  /\ UNCHANGED <<hand, worker, mapper, gpc>>

------------------------------------------------------------------------------
(* The game loop.                                                          *)

\* Slip: an action once held stays held.
StickyZones(table) ==
  held \cup { a \in DOMAIN zones : \E c \in View(table) : c.cell \in zones[a] }

\* sync_zones: an action with a zone is held by a contact in it, and only so.
SyncZones(table) ==
  (held \ DOMAIN zones)
    \cup { a \in DOMAIN zones : \E c \in View(table) : c.cell \in zones[a] }

\* contact_for
ContactFor(table, track, pressed) == SlotFor(table, track, pressed)

\* raylib_lite_action_apply_event of a TOUCH or POINTER event.
ApplyTouch(e) ==
  LET slot == ContactFor(contacts, e.track, e.pressed)
      new  == [track |-> e.track, cell |-> e.cell]
      next == IF slot = 0 THEN contacts
              ELSE [contacts EXCEPT ![slot] = IF e.pressed THEN new ELSE None]
  IN  /\ contacts' = next
      /\ pulse' = IF slot # 0 /\ e.pressed /\ contacts[slot] = None
                  THEN pulse \cup {"restart"} ELSE pulse
      /\ held' = SyncZones(next)

\* ... and of an IMU event, beyond the axis threshold or not.
ApplyAxis(e) ==
  /\ held' = (held \ {"left", "right"}) \cup ({e.tilt} \ {"level"})
  /\ UNCHANGED <<contacts, pulse>>

\* poll_input: one raylib_lite_input_poll and what becomes of its event.
Poll ==
  /\ gpc = "poll" /\ queue # <<>>
  /\ LET e == Head(queue)
     IN  IF e.type = "touch" THEN ApplyTouch(e) ELSE ApplyAxis(e)
  /\ queue' = Tail(queue)
  /\ UNCHANGED <<hand, worker, zones, down, gpc>>

\* The loop of poll_input ends only on an empty queue.
PollDone ==
  /\ gpc = "poll" /\ queue = <<>>
  /\ gpc' = "update"
  /\ UNCHANGED <<hand, worker, queue, mapper>>

\* Slip: a pulse is cleared before it is looked at.
PulseLost == held

\* raylib_lite_action_begin_frame.  s_pressed and s_released are what down
\* gains and loses.
Frame == held \cup pulse

\* update: begin_frame, then the game's on_update, which may change the zones.
Update ==
  /\ gpc = "update"
  /\ down' = Frame
  /\ pulse' = {}
  /\ zones' \in ZoneTables
  /\ UNCHANGED <<hand, worker, queue, contacts, held, gpc>>

\* The pass ends, after any number of updates.
Pass ==
  /\ gpc = "update"
  /\ gpc' = "poll"
  /\ UNCHANGED <<hand, worker, queue, mapper>>

------------------------------------------------------------------------------
(* The specification.                                                      *)

TouchWorker == Sample \/ SampleSingle \/ SampleRelease \/ SamplePress

Next == TouchWorker \/ SampleImu \/ Poll \/ PollDone \/ Update \/ Pass

\* Fingers that may rest reach no state but those of fingers that need not:
\* safety is asked of the second.
Spec == Init /\ [][Next]_vars

\* Both threads run, and logic gets its credits from the runner.
FairSpec ==
  /\ Init /\ [][Rest \/ Next]_vars
  /\ WF_vars(TouchWorker) /\ WF_vars(Poll \/ PollDone \/ Pass)
  /\ SF_vars(Update)

------------------------------------------------------------------------------
(* Properties.                                                             *)

Tracked == [track : Track \cup {0}, cell : Cell]

TypeOK ==
  /\ max \in TouchPoints
  /\ hand \subseteq Readings(max)
  /\ old \in [Slots -> Tracked \cup {None}]
  /\ wpc \in {"read", "single", "release", "press"}
  /\ at \in Slots /\ reading \in Readings(max)
  /\ Len(queue) <= Capacity
  /\ contacts \in [Slots -> Tracked \cup {None}]
  /\ zones \in ZoneTables
  /\ held \subseteq Action /\ pulse \subseteq Action /\ down \subseteq Action
  /\ gpc \in {"poll", "update"}

\* Touches of one finger that the game has still to see.
Waiting(track) ==
  { i \in 1 .. Len(queue) : queue[i].type = "touch" /\ queue[i].track = track }

\* No press, move or release is lost on the way, however full the queue was:
\* where the game will believe a finger to be, once it has seen what waits in
\* the queue, is where the worker believes it to be.
NothingForgotten ==
  \A track \in Track \cup {0} :
    LET seen == { c \in View(contacts) : c.track = track }
        sent == { c \in View(old) : c.track = track }
        last == CHOOSE i \in Waiting(track) : \A j \in Waiting(track) : j <= i
    IN  IF Waiting(track) = {} THEN seen = sent
        ELSE IF queue[last].pressed
             THEN sent = {[track |-> track, cell |-> queue[last].cell]}
             ELSE sent = {}

\* A release reaches the contact it was made for, so that a contact's place is
\* free when the next press needs it.
ReleasesFindTheirContact ==
  \A i \in 1 .. Len(queue) :
    queue[i].type = "touch" /\ ~queue[i].pressed =>
      \/ queue[i].track \in Tracks(View(contacts))
      \/ \E j \in 1 .. i - 1 : j \in Waiting(queue[i].track) /\ queue[j].pressed

\* While a game keeps its zones, an action of a zone is held by a finger that
\* touches the zone, whatever was lost on the way.
HeldIsTouched ==
  "jump" \in held =>
    /\ "jump" \in DOMAIN zones
    /\ \E c \in View(contacts) : c.cell \in zones["jump"]

\* What the game is told stays well formed, and nothing stays pressed.
Safety == TypeOK /\ HeldIsTouched

\* Once the fingers come to rest, the game sees just those fingers, and the
\* actions of their zones, for good.
Settles ==
  \A r \in Readings(Contacts) :
    hand = {r} ~> [](/\ { p.cell : p \in View(contacts) } = { p.cell : p \in r }
                   /\ "jump" \in down
                        <=> \E p \in r : p.cell \in zones["jump"])

\* As long as the loop of poll_input keeps coming to its end (its producers
\* sleep between samples), an update feels every new touch as a restart pulse,
\* even when the finger has gone before that update.
TapIsFelt ==
  []<>(gpc = "update") =>
    ((\E i \in 1 .. Len(queue) :
        /\ queue[i].type = "touch" /\ queue[i].pressed
        /\ queue[i].track \notin Tracks(View(contacts)))
     ~> "restart" \in down)
==============================================================================
