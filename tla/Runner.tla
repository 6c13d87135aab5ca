-------------------------------- MODULE Runner --------------------------------
(***************************************************************************)
(* The arithmetic of the scheduler raylib_lite_runner_run                  *)
(* (raylib_lite_runner.c): elapsed time earns logic and render credit, a   *)
(* whole credit buys an update or a frame, and the rest of a pass is slept *)
(* away.  The callbacks are those of GameApp; here they only take time.    *)
(***************************************************************************)
EXTENDS Integers

CONSTANTS CreditOne,   \* CREDIT_ONE: one update or frame, in microsecond-hertz
          MaxLogic,    \* MAX_LOGIC_UPDATES
          CreditMax,   \* UINT64_MAX
          LogicHz,     \* config->logic_hz
          Rates,       \* what config->render_fps may answer
          Steps,       \* bound: microseconds that may pass between clock reads
          MaxClock     \* bound: microseconds in all

ASSUME RunnerAssumption ==
  /\ CreditOne \in Nat \ {0} /\ MaxLogic \in Nat \ {0}
  /\ CreditMax \in Nat /\ CreditMax >= MaxLogic * CreditOne
  /\ LogicHz \in Nat \ {0}
  /\ Rates \subseteq Nat \ {0}
  /\ Steps \subseteq Nat
  /\ MaxClock \in Nat

VARIABLES
  pc,
  clock, previous, now,      \* the clock, previous_us and now_us
  logic, render, fps,        \* logic_credit, render_credit, render_fps
  updates, frames,           \* what this pass has run
  wait,                      \* the sleep that ends the pass, 0 for none
  since, ticks, lost         \* history since the start or the last idle pass:
                             \* when that was, the updates run or discarded,
                             \* and whether credit_add has saturated

time   == <<clock, previous, now>>
credit == <<logic, render, fps>>
work   == <<updates, frames>>
ledger == <<since, ticks, lost>>
vars   == <<pc, time, credit, work, wait, ledger>>

Init ==
  /\ pc = "test"
  /\ clock = 0 /\ previous = 0 /\ now = 0
  /\ logic = CreditOne /\ render = CreditOne /\ fps \in Rates
  /\ updates = 0 /\ frames = 0 /\ wait = 0
  /\ since = 0 /\ ticks = 0 /\ lost = FALSE

Pass(by) == clock' = clock + by /\ clock' <= MaxClock

------------------------------------------------------------------------------

\* Slip: the addition wraps around.
Wraps(value, elapsed, rate) == (value + elapsed * rate) % (CreditMax + 1)

\* credit_add
Saturated(value, elapsed, rate) ==
  IF value + elapsed * rate > CreditMax THEN CreditMax
                                        ELSE value + elapsed * rate

\* The clamp: whole credits beyond the limit are discarded, the phase is kept.
Clamped(value, limit) ==
  IF value \div CreditOne > limit
    THEN limit * CreditOne + (value % CreditOne) ELSE value

\* discarded_logic_updates of one clamp.
Discarded(value, limit) ==
  IF value \div CreditOne > limit THEN value \div CreditOne - limit ELSE 0

\* The pass's first callbacks take time, then config->idle says no.
Earn ==
  /\ pc = "test"
  /\ \E by \in Steps :
       /\ Pass(by)
       /\ now' = clock' /\ previous' = clock'
       /\ fps' \in Rates
       /\ LET elapsed == clock' - previous
              full    == Saturated(logic, elapsed, LogicHz)
          IN  /\ logic' = Clamped(full, MaxLogic)
              /\ render' = Clamped(Saturated(render, elapsed, fps'), 1)
              /\ ticks' = ticks + Discarded(full, MaxLogic)
              /\ lost' = (lost \/ full < logic + elapsed * LogicHz)
  /\ updates' = 0 /\ frames' = 0
  /\ pc' = "logic"
  /\ UNCHANGED <<wait, since>>

\* config->idle says yes: one credit of each is left for the resume, and the
\* pass sleeps IDLE_SLEEP_US.
Idle ==
  /\ pc = "test"
  /\ \E by \in Steps : Pass(by)
  /\ logic' = CreditOne /\ render' = CreditOne
  /\ previous' = clock'
  /\ updates' = 0 /\ frames' = 0
  /\ wait' = 0
  /\ since' = clock' /\ ticks' = 0 /\ lost' = FALSE
  /\ UNCHANGED <<pc, now, fps>>

WholeCredit == logic >= CreditOne

Run ==
  /\ pc = "logic" /\ WholeCredit
  /\ \E by \in Steps : Pass(by)
  /\ ticks' = ticks + 1
  /\ updates' = updates + 1
  /\ UNCHANGED <<pc, previous, now, render, fps, frames, wait, since, lost>>

Update == Run /\ logic' = logic - CreditOne

Render ==
  /\ pc = "logic" /\ ~WholeCredit
  /\ \/ /\ render >= CreditOne
        /\ \E by \in Steps : Pass(by)
        /\ render' = render - CreditOne
        /\ frames' = frames + 1
     \/ /\ render < CreditOne
        /\ UNCHANGED <<clock, render, frames>>
  /\ pc' = "sleep"
  /\ UNCHANGED <<previous, now, logic, fps, updates, wait, ledger>>

\* Slip: an exact wait is rounded up all the same.
RoundedTwice(value, rate) == (CreditOne - value + rate) \div rate

\* The time until a credit is whole, rounded up.
Until(value, rate) == (CreditOne - value + rate - 1) \div rate

Least(a, b) == IF a < b THEN a ELSE b

\* Both credits are below one here (BoundedPass), as the code tests again.
\* What is left of the time until the next update or frame; an overrun may
\* yield a tick, which is time like any other.
Sleep ==
  /\ pc = "sleep"
  /\ LET until == Least(Until(logic, LogicHz), Until(render, fps))
         busy  == clock - now
     IN  \/ /\ busy < until
            /\ wait' = until - busy
            /\ Pass(until - busy)
         \/ /\ busy >= until
            /\ wait' = 0
            /\ \E by \in Steps : Pass(by)
  /\ pc' = "test"
  /\ UNCHANGED <<previous, now, credit, work, ledger>>

Next == Earn \/ Idle \/ Update \/ Render \/ Sleep

Spec == Init /\ [][Next]_vars

------------------------------------------------------------------------------
(* Properties.                                                             *)

TypeOK ==
  /\ pc \in {"test", "logic", "sleep"}
  /\ clock \in Nat /\ previous \in Nat /\ now \in Nat
  /\ logic \in 0 .. CreditMax /\ render \in 0 .. CreditMax
  /\ fps \in Rates
  /\ updates \in Nat /\ frames \in Nat /\ wait \in Nat
  /\ since \in 0 .. clock /\ ticks \in Nat /\ lost \in BOOLEAN

\* raylib_lite_runner.h: "A pass executes at most three logic updates and at
\* most one render", however long the stall before it, and leaves less than one
\* credit of each kind to the next.
BoundedPass ==
  /\ updates <= MaxLogic /\ frames <= 1
  /\ pc = "sleep" => logic < CreditOne /\ render < CreditOne

\* Logic keeps time: the updates run, those the clamp discarded and the phase
\* that is left make up the time since the start or the last idle pass, however
\* that time was cut into passes and stalls.
NoDrift ==
  ~lost => ticks * CreditOne + logic = CreditOne + (previous - since) * LogicHz

\* A pass owes what the time since the last one has earned, up to its limit,
\* even after a stall that credit_add cannot count.
OwedByTime ==
  [][Earn => LET elapsed == clock' - previous
             IN  /\ logic' \div CreditOne = Least(MaxLogic,
                      (logic + elapsed * LogicHz) \div CreditOne)
                 /\ render' \div CreditOne = Least(1,
                      (render + elapsed * fps') \div CreditOne)]_vars

\* A sleep ends when the first update or frame falls due, neither a microsecond
\* before, for a pass without work, nor after.
SleepsExact ==
  pc = "test" /\ wait > 0 =>
    LET Due(elapsed) == \/ logic + elapsed * LogicHz >= CreditOne
                        \/ render + elapsed * fps >= CreditOne
    IN  Due(clock - previous) /\ ~Due(clock - previous - 1)

\* The schedule is exact: bounded passes, no drift, and no sleep that is off.
KeepsTime == BoundedPass /\ NoDrift /\ SleepsExact

------------------------------------------------------------------------------
(* The inductive invariant of RunnerProofs.                                *)

\* The clock reads are in order, and a pass works at its own reading.
ClockOrder ==
  /\ since <= previous /\ previous <= clock /\ now <= clock
  /\ pc # "test" => previous = now

\* The credit there may be at each stage of a pass, with the updates run.
Stages ==
  /\ pc = "test" => logic <= CreditOne /\ render <= CreditOne
  /\ pc = "logic" =>
       /\ render < 2 * CreditOne /\ frames = 0
       /\ updates * CreditOne + logic < (MaxLogic + 1) * CreditOne

Inductive ==
  /\ TypeOK /\ ClockOrder /\ Stages
  /\ BoundedPass /\ NoDrift /\ SleepsExact
==============================================================================
