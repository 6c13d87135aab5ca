------------------------------ MODULE RallyRace ------------------------------
(***************************************************************************)
(* A race of Neon Rift Rally: rally_game.c and the feedback that the game  *)
(* module gives.  Progress around the track, gates and laps, the rivals,   *)
(* what ends the race and the position it ends in; the ride with nitro,    *)
(* drift and the ramp; the combo; and the events that are heard and felt.  *)
(* How fast everybody is in a tick, how far a drift slides and who touches *)
(* or just misses whom, is any choice the distances allow.  The score is   *)
(* left out, and so is the jump by hand, which no control asks for.        *)
(***************************************************************************)
EXTENDS Integers, Sequences, FiniteSets

CONSTANTS
  Length,         \* RALLY_TRACK_LENGTH
  Gates,          \* s_checkpoints, a sequence in increasing order
  TargetLaps,
  MaxStep,        \* what a vehicle moves in a tick, at most
  Rivals,         \* 1 .. RALLY_OPPONENT_COUNT
  CountdownTicks,
  OfftrackTicks,  \* RALLY_OFFTRACK_FAIL_TICKS
  Whole,          \* integrity of a new vehicle in collisions it survives, and one
  Cooldown,       \* ticks before a rival can be hit again
  MissCooldown,   \* and before it can be just missed again
  MissGaps,       \* distances at which a rival is just missed
  Ramp, Rearm,    \* in_launch_zone, and where the next jump is armed
  LaunchStep,     \* RALLY_AUTO_JUMP_SPEED, as the step of a tick
  JumpSpeed, Gravity,
  Tank, Drain, Recharge,  \* RALLY_NITRO_MAX, _DRAIN and _RECHARGE
  Payout, MaxRisk,        \* the risk_meter that pays, and its end
  ComboTimeout, MaxCombo,
  Controls,       \* combinations of "nitro" and "drift" that may be held; for
                  \* nitro this is the button with enough throttle and speed
  Word            \* 2^32, of event_serial

VARIABLES
  phase,       \* "countdown", "playing", "finished", "failed"
  countdown,
  progress, laps,
  gate,        \* next_checkpoint: gates passed in this lap
  missed,      \* missed_checkpoints
  offtrack,    \* offtrack_ticks
  integrity,
  rival,       \* [progress, laps, finished, cooldown, miss, place] of each
  position,
  bike,        \* the rest of rally_game_t, and last_feedback_serial as heard
  log          \* history: the distance moved, the jumps, the nitro cues since the
               \* button was let go, the ticks since the combo grew, the events
               \* of the last update and those of them that were played

vars == <<phase, countdown, progress, laps, gate, missed, offtrack, integrity,
          rival, position, bike, log>>

Events == {"JUMP", "LANDING", "CHECKPOINT", "LAP", "FINISH", "NITRO", "DRIFT", "OFFTRACK",
           "COLLISION", "NEAR_MISS", "COMBO", "START", "FAIL", "DRIFT_BOOST"}

TypeOK ==
  /\ phase \in {"countdown", "playing", "finished", "failed"}
  /\ countdown \in 0..CountdownTicks
  /\ progress \in 0..Length - 1 /\ laps \in 0..TargetLaps
  /\ gate \in 0..Len(Gates) /\ missed \in 0..TargetLaps
  /\ offtrack \in 0..OfftrackTicks /\ integrity \in 0..Whole
  /\ \A i \in Rivals :
       /\ rival[i].progress \in 0..Length - 1 /\ rival[i].laps \in 0..TargetLaps
       /\ rival[i].cooldown \in 0..Cooldown /\ rival[i].miss \in 0..MissCooldown
       /\ rival[i].place \in 1..Cardinality(Rivals) + 1
  /\ position \in 1..Cardinality(Rivals) + 1
  /\ bike.nitro \in 0..Tank /\ bike.risk \in 0..MaxRisk
  /\ bike.combo \in 0..MaxCombo /\ bike.timer \in 0..ComboTimeout
  /\ bike.flags \subseteq Events

(* rally_reset: the rivals start ahead. *)
Grid == [i \in Rivals |-> [progress |-> i, laps |-> 0, finished |-> FALSE,
                           cooldown |-> 0, miss |-> 0, place |-> i]]

(* reset_run: the feedback begins anew with the game's serial. *)
NewBike == [height |-> 0, rise |-> 0, armed |-> TRUE, nitro |-> Tank, active |-> FALSE,
            drifting |-> FALSE, risk |-> 0, combo |-> 0, timer |-> 0,
            flags |-> {}, serial |-> 0, heard |-> 0]

NewLog == [travelled |-> 0, jumps |-> 0, cues |-> 0, since |-> 0, events |-> {}, played |-> {}]

Init ==
  /\ phase = "countdown" /\ countdown = CountdownTicks
  /\ progress = 0 /\ laps = 0 /\ gate = 0 /\ missed = 0
  /\ offtrack = 0 /\ integrity = Whole
  /\ rival = Grid /\ position = Cardinality(Rivals) + 1
  /\ bike = NewBike /\ log = NewLog

----------------------------------------------------------------------------
\* The two sides of clampf.
AtMost(a, b) == IF a < b THEN a ELSE b
AtLeast(a, b) == IF a > b THEN a ELSE b

\* wrap_progress
Wrap(at) == at % Length

Crossed(g, from, to) == from < Gates[g] /\ Gates[g] <= to

(* process_checkpoint_segment: the gates are taken in order, from the next *)
(* one on, as long as they lie between the ends.                           *)
PassGates(next, from, to) ==
  LET last == {n \in next..Len(Gates) : \A g \in next + 1..n : Crossed(g, from, to)}
  IN CHOOSE n \in last : \A m \in last : m <= n

(* advance_race *)
Advance(distance) ==
  LET end == progress + distance
      atLine == PassGates(gate, progress, Length)
      lap == atLine = Len(Gates)
      anew == PassGates(0, 0, end - Length)
      done == laps + 1
  IN IF end < Length
     THEN LET on == PassGates(gate, progress, end)
          IN [gate |-> on, laps |-> laps, missed |-> missed,
              events |-> IF on > gate THEN {"CHECKPOINT"} ELSE {}]
     ELSE [gate |-> anew,
           laps |-> IF lap THEN done ELSE laps,
           missed |-> IF ~lap /\ atLine # 0 THEN missed + 1 ELSE missed,
           events |-> (IF atLine > gate \/ anew > 0 THEN {"CHECKPOINT"} ELSE {})
                      \cup (IF lap THEN {"LAP"} ELSE {})
                      \cup (IF lap /\ done >= TargetLaps THEN {"FINISH"} ELSE {})]

(* update_opponents; a rival that has finished stays where it is, and may  *)
(* keep its cooldowns.                                                     *)
Driven(r, step) ==
  IF r.finished THEN r
  ELSE LET over == r.progress + step >= Length
           after == r.laps + (IF over THEN 1 ELSE 0)
       IN [r EXCEPT !.progress = Wrap(@ + step), !.laps = after,
                    !.finished = after >= TargetLaps,
                    !.cooldown = AtLeast(@ - 1, 0), !.miss = AtLeast(@ - 1, 0)]

Moved(steps) == [i \in Rivals |-> Driven(rival[i], steps[i])]

\* loop_gap
Gap(a, b) == LET gap == IF a > b THEN a - b ELSE b - a IN AtMost(gap, Length - gap)

(* update_interactions: near on the road and on none of the two lanes.     *)
(* Rivals that have finished are still in the way.                         *)
Near(a, b) == Gap(a, b) <= 1

Struck(hits, where, moved) ==
  {i \in hits : Near(where, moved[i].progress) /\ moved[i].cooldown = 0}

Passed(passes, where, moved) ==
  {i \in passes : Gap(where, moved[i].progress) \in MissGaps /\ moved[i].miss = 0}

Distance(p, n) == n * Length + p

(* update_rank: of the player, and of a rival among the others. *)
Rank(p, n, rivals) ==
  1 + Cardinality({i \in Rivals : Distance(rivals[i].progress, rivals[i].laps) > Distance(p, n)})

Place(i, p, n, rivals) ==
  LET at == Distance(rivals[i].progress, rivals[i].laps)
  IN 1 + Cardinality({j \in Rivals \ {i} : Distance(rivals[j].progress, rivals[j].laps) > at})
       + (IF Distance(p, n) > at THEN 1 ELSE 0)

----------------------------------------------------------------------------
(* The nitro of a tick: a flame that empties the tank goes out, and only a *)
(* flame that was not there before is an event.                            *)
Fuelled(b, pressed) ==
  LET burns == pressed /\ b.nitro > 0
      lit == burns /\ b.nitro > Drain
  IN [b EXCEPT !.nitro = IF burns THEN AtLeast(@ - Drain, 0) ELSE AtMost(@ + Recharge, Tank),
               !.active = lit,
               !.flags = @ \cup (IF lit /\ ~b.active THEN {"NITRO"} ELSE {})]

(* The drift of a tick, on the ground and, as an event, on the road. *)
Drifts(b, pressed) ==
  LET slides == pressed /\ b.height = 0
  IN [b EXCEPT !.drifting = slides,
               !.flags = @ \cup (IF slides /\ ~b.drifting /\ offtrack = 0 THEN {"DRIFT"} ELSE {})]

(* launch: the ramp throws a bike that is fast enough, once until the jump *)
(* is armed again.                                                         *)
Launched(b, where, distance) ==
  IF b.height = 0 /\ b.armed /\ where \in Ramp /\ distance >= LaunchStep
  THEN [b EXCEPT !.height = 1, !.rise = JumpSpeed, !.armed = FALSE, !.flags = @ \cup {"JUMP"}]
  ELSE b

(* A bike that is not on the ground flies, also in the tick of its launch. *)
Flown(b, where, distance) ==
  LET up == Launched([b EXCEPT !.armed = @ \/ where >= Rearm], where, distance)
      rise == up.rise - Gravity
      height == up.height + rise
  IN IF up.height = 0 THEN up
     ELSE IF height > 0 THEN [up EXCEPT !.rise = rise, !.height = height]
     ELSE [up EXCEPT !.rise = 0, !.height = 0, !.flags = @ \cup {"LANDING"}]

(* award_combo, n times *)
Awarded(b, n) ==
  IF n = 0 THEN b
  ELSE [b EXCEPT !.combo = AtMost(@ + n, MaxCombo), !.timer = ComboTimeout,
                 !.flags = @ \cup {"COMBO"}]

(* update_interactions for the bike: rivals are looked at in their order,  *)
(* so only those just missed after the last collision count for the combo. *)
Touched(b, struck, passed) ==
  LET after == {i \in passed : \A j \in struck : i > j}
      calm == IF struck = {} THEN b ELSE [b EXCEPT !.combo = 0, !.timer = 0, !.risk = 0]
      told == IF passed = {} THEN {} ELSE {"NEAR_MISS", "COMBO"}
  IN [Awarded(calm, Cardinality(after)) EXCEPT
        !.flags = @ \cup told \cup (IF struck = {} THEN {} ELSE {"COLLISION"})]

(* update_risk: the combo runs out, a drift gathers risk, and its end pays *)
(* for it.  was is previous_drifting.                                      *)
Risked(b, was, slide) ==
  LET idle == [b EXCEPT !.combo = IF b.timer > 0 THEN @ ELSE 0, !.timer = AtLeast(@ - 1, 0),
                        !.risk = IF b.drifting THEN AtMost(@ + slide, MaxRisk) ELSE @]
      pays == was /\ ~b.drifting /\ idle.risk >= Payout
  IN IF pays
     THEN [Awarded(idle, 1) EXCEPT !.risk = 0, !.flags = @ \cup {"DRIFT_BOOST"}]
     ELSE idle

(* feedback_events: what a tick has emitted is played once. *)
Play(b) ==
  IF b.serial = b.heard THEN [bike |-> b, played |-> {}]
  ELSE [bike |-> [b EXCEPT !.heard = b.serial], played |-> b.flags]

(* The end of rally_update: the serial goes on with the events. *)
Told(b) == IF b.flags = {} THEN b ELSE [b EXCEPT !.serial = (@ + 1) % Word]

----------------------------------------------------------------------------
Countdown ==
  /\ phase = "countdown"
  /\ countdown' = countdown - 1
  /\ phase' = IF countdown' = 0 THEN "playing" ELSE phase
  /\ LET b == Told([bike EXCEPT !.flags = IF countdown' = 0 THEN {"START"} ELSE {}])
     IN bike' = Play(b).bike /\ log' = [log EXCEPT !.events = b.flags, !.played = Play(b).played]
  /\ UNCHANGED <<progress, laps, gate, missed, offtrack, integrity, rival, position>>

(* The race of a tick, in its order: off the road for too long, the line,  *)
(* the rivals, their collisions, the rank.                                 *)
Race(distance, off, steps, struck) ==
  LET race == Advance(distance)
      where == Wrap(progress + distance)
      left == integrity - Cardinality(struck)
  IN
  /\ offtrack' = IF off THEN offtrack + 1 ELSE 0
  /\ progress' = where
  /\ laps' = race.laps
  /\ gate' = race.gate
  /\ missed' = race.missed
  /\ integrity' = AtLeast(left, 0)
  /\ phase' = CASE struck # {} /\ left <= 0 -> "failed"
                [] ~(struck # {} /\ left <= 0) /\ "FINISH" \in race.events -> "finished"
                [] OTHER -> IF offtrack' >= OfftrackTicks THEN "failed" ELSE "playing"
  /\ position' = Rank(where, race.laps, Moved(steps))
  /\ UNCHANGED countdown

(* What the race of a tick emits. *)
Emitted(distance, struck) ==
  Advance(distance).events
  \cup (IF offtrack' > 0 /\ offtrack = 0 THEN {"OFFTRACK"} ELSE {})
  \cup (IF offtrack' >= OfftrackTicks \/ (struck # {} /\ integrity' = 0) THEN {"FAIL"} ELSE {})

(* The ride of the tick, what it emits, and the feedback after it. *)
Ridden(distance, held, slide, where, struck, passed) ==
  \E ridden \in {Flown(Drifts(Fuelled([bike EXCEPT !.flags = {}], "nitro" \in held),
                              "drift" \in held), where, distance)} :
  \E b \in {Told([Risked(Touched(ridden, struck, passed), bike.drifting, slide) EXCEPT
                     !.flags = @ \cup Emitted(distance, struck)])} :
    /\ bike' = Play(b).bike
    /\ log' = [travelled |-> log.travelled + distance,
               jumps |-> log.jumps + (IF "JUMP" \in b.flags THEN 1 ELSE 0),
               cues |-> IF "nitro" \notin held THEN 0
                        ELSE log.cues + (IF "NITRO" \in b.flags THEN 1 ELSE 0),
               since |-> IF b.combo > 0 /\ "COMBO" \in b.flags THEN 0
                         ELSE AtMost(log.since + 1, ComboTimeout + 1),
               events |-> b.flags, played |-> Play(b).played]

(* rally_update of a race that goes on. *)
Drive(distance, off, steps, hits, passes, held, slide) ==
  /\ phase = "playing"
  /\ \E moved \in {Moved(steps)}, where \in {Wrap(progress + distance)} :
     \E struck \in {Struck(hits, where, moved)}, passed \in {Passed(passes, where, moved)} :
       /\ Race(distance, off, steps, struck)
       /\ rival' = [i \in Rivals |->
            [moved[i] EXCEPT !.cooldown = IF i \in struck THEN Cooldown ELSE @,
                             !.miss = IF i \in passed THEN MissCooldown ELSE @,
                             !.place = Place(i, where, laps', moved)]]
       /\ Ridden(distance, held, slide, where, struck, passed)

(* The module's update of a race that is over: rally_update returns before *)
(* it clears the events, and the feedback looks at them again.             *)
Over ==
  /\ phase \in {"finished", "failed"}
  /\ bike' = Play(bike).bike
  /\ log' = [log EXCEPT !.events = {}, !.played = Play(bike).played]
  /\ UNCHANGED <<phase, countdown, progress, laps, gate, missed, offtrack, integrity, rival, position>>

(* reset_run with rally_reset, from the game module at any time. *)
Reset ==
  /\ phase' = "countdown" /\ countdown' = CountdownTicks
  /\ progress' = 0 /\ laps' = 0 /\ gate' = 0 /\ missed' = 0
  /\ offtrack' = 0 /\ integrity' = Whole
  /\ rival' = Grid /\ position' = Cardinality(Rivals) + 1
  /\ bike' = NewBike /\ log' = NewLog

Next ==
  \/ Countdown
  \/ \E distance \in 0..MaxStep, off \in BOOLEAN, steps \in [Rivals -> 1..MaxStep],
        hits \in SUBSET Rivals, held \in Controls :
     \E passes \in (IF MissGaps = {} THEN {{}} ELSE SUBSET (Rivals \ hits)),
        slide \in (IF "drift" \in held THEN 0..1 ELSE {0}) :
       Drive(distance, off, steps, hits, passes, held, slide)
  \/ Over
  \/ Reset

Spec == Init /\ [][Next]_vars

----------------------------------------------------------------------------
(* Laps and progress are the distance driven, the gates passed those that  *)
(* lie behind, and no lap is missed, also when a tick ends on a gate or    *)
(* takes one together with the line; the position counts the rivals of the *)
(* same tick that are ahead; and a race is on exactly as long as nothing   *)
(* has ended it, whatever comes together in the last tick.                 *)
RaceIsFair ==
  /\ Distance(progress, laps) = log.travelled
  /\ gate = Cardinality({g \in DOMAIN Gates : Gates[g] <= progress})
  /\ missed = 0
  /\ position = Rank(progress, laps, rival)
  /\ phase = "playing" => laps < TargetLaps /\ integrity > 0 /\ offtrack < OfftrackTicks
  /\ phase = "finished" => laps = TargetLaps /\ integrity > 0
  /\ phase = "failed" => integrity = 0 \/ offtrack = OfftrackTicks

(* The ride is as it is meant.  Whatever the ticks bring together, holding *)
(* the button lights the nitro once, however often the tank runs empty and *)
(* fills, and it burns only with fuel; the ramp throws the bike once in a  *)
(* lap; a drift that is worth something pays when it ends, by hand or in   *)
(* the air; a combo lives as long as its timeout after it last grew; and   *)
(* each event is played once, those of the last tick and of a new race     *)
(* included.                                                               *)
RideIsFair ==
  /\ bike.active => bike.nitro > 0
  /\ log.cues <= 1
  /\ log.jumps <= laps + (IF \E at \in Ramp : at <= progress THEN 1 ELSE 0)
  /\ ~bike.drifting => bike.risk < Payout
  /\ bike.combo > 0 => log.since <= ComboTimeout
  /\ log.played = log.events
  /\ phase = "finished" => "FINISH" \in bike.flags
  /\ phase = "failed" => "FAIL" \in bike.flags
=============================================================================
