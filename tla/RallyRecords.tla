---------------------------- MODULE RallyRecords ----------------------------
(***************************************************************************)
(* Who uses the save: Neon Rift Rally keeps one best time per course in a  *)
(* record (game_module.c).  The game holds the best of the course it is on *)
(* in memory, reads the others back from storage before it writes all of   *)
(* them, leaves a lap's write to the debounce and forces a finish's and    *)
(* the shutdown's.  Lap and race times go the same way; Time stands for    *)
(* either.  The race itself is RallyRace's: here it completes laps.        *)
(***************************************************************************)
EXTENDS Integers, FiniteSets

CONSTANTS
  Courses,   \* number of courses, 0 .. Courses - 1
  Times,     \* times a lap may take; 0 is "none yet"
  Faults,
  TargetLaps

Course == 0..Courses - 1
Record == [Course -> Times \cup {0}]
Empty == [c \in Course |-> 0]
Version == 2

VARIABLES
  slot, flash,
  phase,    \* "off", or the game's phase: "countdown", "racing", "over"
  flags,    \* LAP and FINISH of event_flags
  laps,     \* laps_completed
  last,     \* last_lap_ticks
  course,   \* course_id
  best,     \* best_lap_ticks, of the course the game is on
  driven,   \* history: the times driven on each course
  misread   \* history: a read has failed, or found a blob it cannot use

vars == <<slot, flash, phase, flags, laps, last, course, best, driven, misread>>

S == INSTANCE Save WITH Payload <- Record, Zero <- Empty

(* migrate_record: version 1 had one course, which is now the first. *)
Migrate(blob) ==
  IF blob.version = 1 THEN [Empty EXCEPT ![0] = blob.data[0]] ELSE Empty

TypeOK ==
  /\ S!SaveTypeOK
  /\ phase \in {"off", "countdown", "racing", "over"}
  /\ flags \subseteq {"LAP", "FINISH"}
  /\ laps \in 0..TargetLaps
  /\ last \in Times \cup {0}
  /\ course \in Course
  /\ best \in Times \cup {0}
  /\ driven \in [Course -> SUBSET Times]

(* The flash of a new device, of one with an older game, or a damaged one. *)
Init ==
  /\ \E first \in {S!Missing, S!Corrupt} \cup
                  {S!Blob(1, [Empty EXCEPT ![0] = t]) : t \in Times} :
       /\ flash = [seen |-> first, kept |-> first]
       /\ driven = [c \in Course |->
                      IF first.kind = "blob" /\ first.data[c] # 0 THEN {first.data[c]} ELSE {}]
  /\ slot = S!Fresh
  /\ phase = "off"
  /\ flags = {}
  /\ laps = 0
  /\ last = 0
  /\ course = 0
  /\ best = 0
  /\ misread = FALSE

----------------------------------------------------------------------------
BestOf(load, c) == IF load.ok THEN load.data[c] ELSE 0

Misreads(blob) == misread \/ blob.kind \in {"error", "corrupt"}

(* rally_reset, inside of reset_run *)
Restarted == phase' = "countdown" /\ flags' = {} /\ laps' = 0 /\ last' = 0

(* initialize with load_record *)
Launch ==
  /\ phase = "off"
  /\ Restarted
  /\ course' = 0
  /\ slot' = S!Initialised
  /\ \E blob \in S!Reads :
       /\ best' = BestOf(S!Loaded(blob, Migrate(blob)), 0)
       /\ misread' = Misreads(blob)
  /\ UNCHANGED <<flash, driven>>

(* select_course: only during the countdown. *)
Select(c) ==
  /\ phase = "countdown"
  /\ c \in {(course + 1) % Courses, (course + Courses - 1) % Courses}
  /\ Restarted
  /\ course' = c
  /\ \E blob \in S!Reads :
       /\ best' = BestOf(S!Loaded(blob, Migrate(blob)), c)
       /\ misread' = Misreads(blob)
  /\ UNCHANGED <<slot, flash, driven>>

\* Slip: the record is put together without what the storage holds.
OnlyThisCourse(load, c, t) == [Empty EXCEPT ![c] = t]
\* Slip: the best time goes to the course after the one it was driven on.
NextCourse(load, c, t) ==
  [(IF load.ok THEN load.data ELSE Empty) EXCEPT ![(c + 1) % Courses] = t]
Merged(load, c, t) == [(IF load.ok THEN load.data ELSE Empty) EXCEPT ![c] = t]

(* save_record: load, merge, request and flush.  The debounce of a request *)
(* that was just made passes before the flush only if the thread is held   *)
(* up in between.                                                          *)
SaveRecord(t, force) ==
  \E blob \in S!Reads :
    /\ misread' = Misreads(blob)
    /\ \E due \in {force, TRUE} :
       \E after \in S!Flushed(S!Requested(slot, Merged(S!Loaded(blob, Migrate(blob)), course, t)), due) :
         slot' = after.slot /\ flash' = after.flash

Better(t) == IF best = 0 \/ t < best THEN t ELSE best

(* update: the countdown ends, a tick of the race without a lap, which may *)
(* end it.                                                                 *)
Tick ==
  /\ phase \in {"countdown", "racing"}
  /\ phase' \in {"racing", "over"} \ (IF phase = "countdown" THEN {"over"} ELSE {})
  /\ flags' = {}
  /\ UNCHANGED <<slot, flash, laps, last, course, best, driven, misread>>

(* update, when it completes a lap.  The last one is the finish; a crash   *)
(* in the same tick ends the race as well.                                 *)
Lap(t) ==
  /\ phase = "racing"
  /\ laps' = laps + 1
  /\ last' = t
  /\ flags' = {"LAP"} \cup (IF laps' = TargetLaps THEN {"FINISH"} ELSE {})
  /\ phase' \in (IF laps' = TargetLaps THEN {"over"} ELSE {"racing", "over"})
  /\ best' = Better(t)
  /\ driven' = [driven EXCEPT ![course] = @ \cup {t}]
  /\ SaveRecord(Better(t), "FINISH" \in flags')
  /\ UNCHANGED course

(* update, when the race is over: rally_update returns before it clears    *)
(* the flags.  The lap they still tell of takes 0 ticks, which is no best  *)
(* time, and the record is saved again.                                    *)
LapAgain ==
  /\ phase = "over"
  /\ "LAP" \in flags
  /\ SaveRecord(best, "FINISH" \in flags)
  /\ last' = 0
  /\ UNCHANGED <<phase, flags, laps, course, best, driven>>

(* reset_run, from the restart action, a tap after the race or the host. *)
Reset ==
  /\ phase \in {"racing", "over"}
  /\ Restarted
  /\ UNCHANGED <<slot, flash, course, best, driven, misread>>

Shutdown ==
  /\ phase # "off"
  /\ phase' = "off"
  /\ SaveRecord(best, TRUE)
  /\ UNCHANGED <<flags, laps, last, course, best, driven>>

(* Power fails: memory is gone, a write that was not committed may be. *)
PowerLoss ==
  /\ phase' = "off"
  /\ slot' = S!Fresh
  /\ flash' \in {[seen |-> b, kept |-> b] : b \in {flash.seen, flash.kept}}
  /\ phase # "off" \/ flash.seen # flash.kept
  /\ UNCHANGED <<flags, laps, last, course, best, driven, misread>>

Next ==
  \/ Launch
  \/ \E c \in Course : Select(c)
  \/ Tick
  \/ \E t \in Times : Lap(t)
  \/ LapAgain
  \/ Reset
  \/ Shutdown
  \/ (Faults /\ PowerLoss)

Spec == Init /\ [][Next]_vars

----------------------------------------------------------------------------
(* What a blob says of a course. *)
TimeOf(blob, c) ==
  CASE blob.kind # "blob" -> 0
    [] blob.kind = "blob" -> IF blob.version = Version THEN blob.data[c] ELSE Migrate(blob)[c]

(* A stored time was driven on the course it is stored for, also across    *)
(* migration, failed writes, power losses and changes of the course while  *)
(* a request is pending.                                                   *)
StoredWasDriven ==
  \A c \in Course, b \in {flash.seen, flash.kept} : TimeOf(b, c) \in driven[c] \cup {0}

(* A slot that has nothing pending has stored what was last requested: a   *)
(* failed write keeps the request.                                         *)
CleanMeansKept ==
  slot.ready /\ ~slot.dirty /\ slot.pending # Empty => flash.kept = S!Blob(Version, slot.pending)

NoWorse(t, u) == t # 0 => u # 0 /\ u <= t

(* As long as every read has found what is stored, no write makes the      *)
(* record of any course worse, also when the game is on another course.    *)
RecordsImprove ==
  \A c \in Course : misread' \/ NoWorse(TimeOf(flash.kept, c), TimeOf(flash'.kept, c))

(* The game's README: each course has an independent best record, and the  *)
(* firmware stores the best values.  So when a game whose storage never    *)
(* failed has been shut down, the best time of each course is stored.      *)
RecordsKept ==
  phase = "off" =>
    \A c \in Course : \A t \in driven[c] :
      TimeOf(flash.kept, c) # 0 /\ TimeOf(flash.kept, c) <= t
=============================================================================
