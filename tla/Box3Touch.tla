------------------------------ MODULE Box3Touch ------------------------------
(***************************************************************************)
(* What the touch task of the BOX-3 board (esp32-s3-box-3/board.c) tells   *)
(* the game of the fingers on the glass.  The game's picture does not fill *)
(* the panel, and a finger outside it does not exist for the game; the     *)
(* queue may refuse any event, which the next sample makes good.           *)
(***************************************************************************)
EXTENDS Integers, Sequences, SequencesExt, FiniteSets, FiniteSetsExt

CONSTANTS
  Tracks,    \* track ids of the touch controller
  Cells,     \* pixels of the game, as box3_video_map_touch answers
  None       \* outside the picture; or no contact

VARIABLES
  max,       \* points of a sample
  old,       \* old[]: what the game was told of, by slot; was_pressed is old[1]
  told,      \* contacts the game holds after the events that were queued
  glass,     \* fingers of the last sample on the picture, by track
  refused    \* the queue has refused an event of the last sample

vars == <<max, old, told, glass, refused>>

Contacts == 2
Slots == 1 .. Contacts
Nobody == [track |-> None, cell |-> None]

Init ==
  /\ max \in 1 .. Contacts /\ old = [s \in Slots |-> Nobody]
  /\ told = [t \in Tracks |-> None] /\ glass = told /\ refused = FALSE

\* A sample: distinct tracks, in the controller's order.
Samples == {p \in UNION {[1 .. n -> [track : Tracks, cell : Cells \cup {None}]] : n \in 0 .. max} :
              \A i, j \in DOMAIN p : p[i].track = p[j].track => i = j}

-----------------------------------------------------------------------------
(* One point: the game is sent POINTER events, which have no track.        *)

Pointer == CHOOSE t \in Tracks : TRUE

SampleSingle(points, accepts) ==
  LET seen == IF points = <<>> THEN None ELSE points[1].cell
      before == old[1].cell
      changed == seen # before
  IN /\ old' = IF changed /\ accepts[1] THEN [old EXCEPT ![1].cell = seen] ELSE old
     /\ refused' = (changed /\ ~accepts[1])
     /\ told' = IF changed /\ accepts[1] THEN [told EXCEPT ![Pointer] = seen] ELSE told

-----------------------------------------------------------------------------
(* Several points.                                                         *)

Found(points, track) ==
  \E i \in DOMAIN points : points[i].track = track /\ points[i].cell # None

\* The state of a sample under way: [old, told, refused].
Told(s, slot, track, cell, accepted) ==
  IF ~accepted THEN [s EXCEPT !.refused = TRUE]
  ELSE [s EXCEPT !.old[slot] = IF cell = None THEN Nobody ELSE [track |-> track, cell |-> cell],
                 !.told[track] = cell]

\* Contacts that are gone are released, whose slots may be used again.
Releases(points, accepts) ==
  FoldLeft(LAMBDA s, slot :
             IF s.old[slot] = Nobody \/ Found(points, s.old[slot].track) THEN s
             ELSE Told(s, slot, s.old[slot].track, None, accepts[slot]),
           [old |-> old, told |-> told, refused |-> FALSE], <<1, 2>>)

SlotOf(s, track) ==
  LET has == {i \in Slots : s.old[i].track = track}
      free == {i \in Slots : s.old[i] = Nobody}
  IN IF has # {} THEN Min(has) ELSE IF free # {} THEN Min(free) ELSE 0

Presses(points, accepts, start) ==
  FoldLeft(LAMBDA s, i :
             CHOOSE after \in {IF points[i].cell = None \/ slot = 0 \/ s.old[slot] = points[i] THEN s
                               ELSE Told(s, slot, points[i].track, points[i].cell, accepts[Contacts + i]) :
                               slot \in {SlotOf(s, points[i].track)}} : TRUE,
           start, [i \in DOMAIN points |-> i])

SampleSeveral(points, accepts) ==
  \E released \in {Releases(points, accepts)} : \E after \in {Presses(points, accepts, released)} :
    old' = after.old /\ told' = after.told /\ refused' = after.refused

-----------------------------------------------------------------------------
\* The fingers on the picture, as a game that asks for so many is to see them.
Seen(points) == [t \in Tracks |->
  LET of == {i \in DOMAIN points : IF max = 1 THEN t = Pointer ELSE points[i].track = t}
  IN IF of = {} THEN None ELSE points[Min(of)].cell]

\* The events that a sample may have to queue: releases, then the points.
Events(points) ==
  IF max = 1 THEN {1}
  ELSE {s \in Slots : old[s] # Nobody /\ ~Found(points, old[s].track)}
       \cup {Contacts + i : i \in {j \in DOMAIN points : points[j].cell # None /\ \A s \in Slots : old[s] # points[j]}}

(* A round of touch_worker; a read that fails changes nothing.             *)
Sample ==
  \E points \in Samples : \E accepts \in [Events(points) -> BOOLEAN] :
    /\ IF max = 1 THEN SampleSingle(points, accepts) ELSE SampleSeveral(points, accepts)
    /\ glass' = Seen(points)
    /\ UNCHANGED max

Next == Sample

Spec == Init /\ [][Next]_vars
-----------------------------------------------------------------------------
(* After a round whose events were all queued the game holds just the      *)
(* fingers that lie on its picture, where they lie: also those whose       *)
(* release was refused before, which slid off the picture, or whose slot   *)
(* another finger has taken.                                               *)
HoldsWhatIsSeen == ~refused => told = glass
=============================================================================
