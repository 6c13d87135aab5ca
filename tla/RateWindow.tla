----------------------------- MODULE RateWindow -----------------------------
(***************************************************************************)
(* A rate of raylib_lite_runtime_stats.c: events are counted for a second  *)
(* of a clock of which only the low word is kept, then the rate is         *)
(* published and the count begins anew.  Frames, updates and displayed     *)
(* frames each have such a window and one thread that writes it, so a      *)
(* record is one step.                                                     *)
(***************************************************************************)
EXTENDS Integers

CONSTANTS
  Word,      \* 2^32
  Second,    \* 1 000 000 microseconds
  Gap,       \* 250 000: frames this far apart begin anew
  Begins,    \* what the clock may show at first
  Waits,     \* time that passes between two records
  MaxClock,
  None

VARIABLES
  clock,             \* in full; the code keeps its low word
  counts,            \* what is counted: "frames", "updates" or "displayed" frames
  started, events,   \* the start of the window, encoded, and its count
  last,              \* last_frame_us
  rate,              \* what the last record published: a count and its time
  opened, first, n   \* when the window was begun, its first event, and how many there were

vars == <<clock, counts, started, events, last, rate, opened, first, n>>

Init ==
  /\ clock \in Begins /\ counts \in {"frames", "updates", "displayed"}
  /\ started = 0 /\ events = 0 /\ last = 0 /\ rate = None
  /\ opened = None /\ first = None /\ n = 0

\* low_us
Low(time) == time % Word

Encoded(time) == Low(time + 1)

\* start_if_needed
Start(code, time) == IF code = 0 THEN Encoded(time) ELSE code

\* Unsigned subtraction, right across a wrap.
Elapsed(time, start) == Low(Low(time) - start)

\* A last_frame_us of 0 is also what there is before the first frame.
Paused(time) == last # 0 /\ Elapsed(time, last) > Gap

Remaining(published, count) == IF published THEN 0 ELSE count

(* What each record does with its window: a pause may begin it anew, then  *)
(* the event counts, and after a second the rate is published.  The new    *)
(* start is stored plain, only start_if_needed encodes one.                *)
Record(time, anew, interrupted) ==
  LET code == Start(IF anew THEN Low(time) ELSE started, time)
      count == (IF anew THEN 0 ELSE events) + 1
      elapsed == Elapsed(time, Low(code - 1))
      published == elapsed >= Second
      seen == (IF interrupted THEN 0 ELSE n) + 1
      begun == IF interrupted THEN time ELSE opened
      \* The second event may stand for one at 2^32 - 1, where the code is 0.
      from == IF seen = 1 \/ Encoded(first) = 0 THEN time ELSE first
  IN /\ clock' = time
     /\ started' = IF published THEN Low(time) ELSE code
     /\ events' = Remaining(published, count)
     /\ rate' = IF published
                THEN [count |-> count, elapsed |-> elapsed, n |-> seen,
                      times |-> {time - s : s \in {begun, from} \ {None}}]
                ELSE None
     /\ opened' = IF published THEN time ELSE begun
     /\ first' = IF published THEN None ELSE from
     /\ n' = IF published THEN 0 ELSE seen
     /\ UNCHANGED counts

(* record_frame_sample: a long pause is no part of the rate. *)
RecordFrame(time) ==
  /\ counts = "frames"
  /\ last' = Low(time)
  /\ Record(time, Paused(time), last # 0 /\ time - clock > Gap)

RecordLogic(time) ==
  /\ counts = "updates"
  /\ Record(time, FALSE, FALSE)
  /\ UNCHANGED last

RecordDisplayRelease(time) ==
  /\ counts = "displayed"
  /\ Record(time, FALSE, FALSE)
  /\ UNCHANGED last

\* A window is written again before the clock has gone round once.
Next == \E wait \in Waits :
  /\ clock + wait <= MaxClock
  /\ \A from \in {opened, first} \ {None} : clock + wait - from < Word
  /\ \/ RecordFrame(clock + wait)
     \/ RecordLogic(clock + wait)
     \/ RecordDisplayRelease(clock + wait)

Spec == Init /\ [][Next]_vars
-----------------------------------------------------------------------------
(* A published rate counts every event since its window was begun, by the  *)
(* second before, by a pause or by the first event of all, and divides     *)
(* them by the time since then, or since its first event, to a             *)
(* microsecond: across a wrap of the clock's low word and with the stored  *)
(* start at 0 or at the last value of the word too.                        *)
RateIsMeasured ==
  rate # None =>
    /\ rate.count = rate.n
    /\ \E time \in rate.times : rate.elapsed - time \in {0, 1}
=============================================================================
