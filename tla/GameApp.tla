------------------------------- MODULE GameApp -------------------------------
(***************************************************************************)
(* The life of a game on its thread: raylib_lite_game_app_run              *)
(* (raylib_lite_game_app.c), the scheduler pass it runs                    *)
(* (raylib_lite_runner.c), drawing (raylib_lite_raylib_impl.c) and the     *)
(* port that holds the one leased frame (raylib_lite_raylib_port.c), over  *)
(* a backend that shows accepted frames on a thread of its own.  The       *)
(* frames are those of VideoContract.                                      *)
(***************************************************************************)
EXTENDS Integers

\* raylib_lite_result_t
Results == {"OK", "INVALID_ARGUMENT", "INVALID_STATE", "NO_MEMORY", "TIMEOUT",
            "NOT_SUPPORTED", "PLATFORM_ERROR", "BUSY", "NOT_READY"}

CONSTANTS MaxFrames,     \* bound: frames the backend ever lends
          MaxUpdates,    \* MAX_LOGIC_UPDATES
          MaxRuns,       \* bound: runs of the application
          StripErrors,   \* how a frame that fails on its way is reported
          CallErrors     \* what the backend's calls can answer besides OK

ASSUME AppAssumption ==
  /\ MaxFrames \in Nat /\ MaxUpdates \in Nat /\ MaxRuns \in Nat
  /\ StripErrors \subseteq Results \ {"OK"}
  /\ CallErrors \subseteq Results \ {"OK"}

VARIABLES
  issued, leased, flight, shown, open,   \* the backend's frames
  failed,       \* an asynchronous failure not reported yet
  pc, first,    \* the game thread; it draws the first frame
  entered, stops, healthy,   \* calls of on_start, on_stop, on_first_present
  started,                   \* the flag of that name
  result, terminal,          \* result, runtime.terminal_result
  initialized, acquired,     \* s_port.initialized, s_port.frame_acquired
  pixels,                    \* s_pixels is not NULL
  lastAcquire, lastPresent,  \* s_last_acquire, s_last_present
  closed,       \* s_window_should_close
  due, drawn,   \* updates and render left in this pass
  runs, base    \* runs so far, and the frames issued before this one

frames   == <<issued, leased, flight, shown, open, failed>>
calls    == <<entered, started, stops, healthy>>
run      == <<runs, base>>
app      == <<calls, run, result, terminal>>
port     == <<initialized, acquired>>
drawing  == <<pixels, lastAcquire, lastPresent>>
schedule == <<due, drawn>>
vars == <<frames, pc, first, app, port, drawing, closed, schedule>>

Contract == INSTANCE VideoContract

Init ==
  /\ Contract!Init
  /\ failed = "OK"
  /\ pc = "entry" /\ first = TRUE
  /\ entered = FALSE /\ started = FALSE /\ stops = 0 /\ healthy = FALSE
  /\ result = "OK" /\ terminal = "OK"
  /\ initialized = FALSE /\ acquired = FALSE
  /\ pixels = FALSE /\ lastAcquire = "NOT_READY" /\ lastPresent = "NOT_READY"
  /\ closed = FALSE
  /\ due = 0 /\ drawn = FALSE
  /\ runs = 0 /\ base = 0

------------------------------------------------------------------------------
(* The backend: an accepted frame is shown and released, or fails.         *)

Show ==
  /\ \E n \in flight : n > shown /\ shown' = n
  /\ UNCHANGED <<issued, leased, flight, open, failed, pc, first, app, port,
                 drawing, closed, schedule>>

Release ==
  /\ \E n \in flight :
       /\ flight' = flight \ {n}
       /\ \/ n <= shown /\ UNCHANGED failed
          \/ n > shown /\ failed' \in StripErrors
  /\ UNCHANGED <<issued, leased, shown, open, pc, first, app, port, drawing,
                 closed, schedule>>

\* acquire lends a frame.
Lend ==
  /\ issued < MaxFrames
  /\ issued' = issued + 1
  /\ leased' = issued'
  /\ UNCHANGED <<flight, shown, open, failed>>

\* present takes the frame back, and reports a failure or accepts the frame.
Take(answer) ==
  /\ leased' = 0
  /\ UNCHANGED <<issued, shown, open>>
  /\ \/ /\ failed # "OK" /\ answer = failed
        /\ failed' = "OK"
        /\ UNCHANGED flight
     \/ /\ failed = "OK" /\ answer \in CallErrors
        /\ UNCHANGED <<flight, failed>>
     \/ /\ failed = "OK" /\ answer = "OK"
        /\ \E superseded \in { n \in flight : n > shown } \cup {0} :
             flight' = (flight \ {superseded}) \cup {leased}
        /\ UNCHANGED failed

\* flush answers once nothing is in flight, or gives up.
Drain(answer) ==
  /\ UNCHANGED <<issued, leased, flight, shown, open>>
  /\ \/ flight = {} /\ answer = failed /\ failed' = "OK"
     \/ flight # {} /\ answer = "TIMEOUT" /\ UNCHANGED failed
     \/ answer \in CallErrors /\ UNCHANGED failed

------------------------------------------------------------------------------
(* Start and first frame.                                                  *)

\* raylib_lite_game_app_run up to raylib_lite_raylib_init_window.
Start ==
  /\ pc = "entry" /\ runs < MaxRuns
  /\ runs' = runs + 1 /\ base' = issued
  /\ entered' = FALSE /\ started' = FALSE /\ stops' = 0 /\ healthy' = FALSE
  /\ terminal' = "OK"
  /\ \/ /\ result' \in CallErrors                    \* init_backend refuses
        /\ pc' = "returned"
        /\ UNCHANGED <<port, drawing, closed, first>>
     \/ /\ initialized' = TRUE /\ acquired' = FALSE
        /\ lastAcquire' = "NOT_READY" /\ lastPresent' = "NOT_READY"
        /\ closed' = FALSE
        /\ result' = "OK"
        /\ first' = TRUE
        /\ pc' = "start"
        /\ UNCHANGED pixels
  /\ UNCHANGED <<frames, schedule>>

\* on_start, if the game has one; it may close the window.
OnStart ==
  /\ pc = "start"
  /\ \/ /\ result' \in {"OK", "PLATFORM_ERROR", "NO_MEMORY"}
        /\ entered' = TRUE
        /\ started' = TRUE
        /\ closed' \in {closed, TRUE}
        /\ pc' = IF result' = "OK" THEN "begin" ELSE "stop"
     \/ /\ pc' = "begin"
        /\ UNCHANGED <<result, entered, started, closed>>
  /\ UNCHANGED <<frames, first, stops, healthy, terminal, run, port, drawing,
                 schedule>>

\* raylib_lite_raylib_port_flush and on_first_present after a first frame.
FlushFirst ==
  /\ pc = "flush"
  /\ \E answer \in Results :
       /\ IF acquired THEN answer = "INVALID_STATE" /\ UNCHANGED frames
                      ELSE Drain(answer)
       /\ result' = answer
       /\ pc' = IF answer = "OK" THEN "healthy" ELSE "stop"
  /\ UNCHANGED <<first, calls, terminal, run, port, drawing, closed, schedule>>

OnFirstPresent ==
  /\ pc = "healthy"
  /\ healthy' = TRUE
  /\ result' \in {"OK", "PLATFORM_ERROR", "NO_MEMORY"}
  /\ first' = FALSE
  /\ pc' = IF result' = "OK" THEN "pass" ELSE "stop"
  /\ UNCHANGED <<frames, entered, started, stops, terminal, run, port,
                 drawing, closed, schedule>>

------------------------------------------------------------------------------
(* Drawing: on_render calls BeginDrawing and EndDrawing.                   *)

\* Slip: a second BeginDrawing asks the backend for a second frame.
AlwaysAsks == initialized

\* raylib_lite_raylib_port_begin_frame asks only without a frame.
MayAsk == initialized /\ ~acquired

\* BeginDrawing up to the backend's acquire.
Begin ==
  /\ pc = "begin"
  /\ lastPresent' = "NOT_READY" /\ pixels' = FALSE
  /\ \/ /\ ~MayAsk
        /\ lastAcquire' = "INVALID_STATE"
        /\ pc' = "end"
        /\ UNCHANGED frames
     \/ /\ MayAsk
        /\ lastAcquire' \in CallErrors \cup {"BUSY"}
        /\ pc' = "end"
        /\ UNCHANGED frames
     \/ /\ MayAsk
        /\ Lend
        /\ pc' = "inspect"
        /\ UNCHANGED lastAcquire
  /\ UNCHANGED <<first, app, port, closed, schedule>>

\* ... and the check of the frame's descriptor.
Inspect ==
  /\ pc = "inspect"
  /\ pc' = "end"
  /\ \/ /\ acquired' = TRUE
        /\ pixels' = TRUE
        /\ lastAcquire' = "OK"
        /\ UNCHANGED leased
     \/ /\ leased' = 0
        /\ lastAcquire' = "PLATFORM_ERROR"
        /\ UNCHANGED <<acquired, pixels>>
  /\ UNCHANGED <<issued, flight, shown, open, failed, first, app, initialized,
                 lastPresent, closed, schedule>>

\* Slip: a failed present leaves the frame with the port.
KeepIfFailed(answer) == acquired' = (answer # "OK")

\* raylib_lite_raylib_port_present_frame forgets the frame before it presents.
Forget(answer) == acquired' = FALSE

\* EndDrawing.
End ==
  /\ pc = "end"
  /\ pc' = "judge"
  /\ pixels' = FALSE
  /\ \/ /\ pixels /\ acquired
        /\ \E answer \in Results :
             Take(answer) /\ Forget(answer) /\ lastPresent' = answer
     \/ /\ ~pixels
        /\ UNCHANGED <<frames, acquired, lastPresent>>
  /\ UNCHANGED <<first, app, initialized, lastAcquire, closed, schedule>>

\* on_render returns without EndDrawing, or it never drew at all.
Abandon ==
  /\ \/ pc = "end"
     \/ pc = "begin"
  /\ pc' = "judge"
  /\ UNCHANGED <<frames, first, app, port, drawing, closed, schedule>>

\* last_frame_result
FrameResult == IF lastAcquire # "OK" THEN lastAcquire ELSE lastPresent

\* frame_result_is_fatal
Fatal(res) ==
  res \in {"INVALID_ARGUMENT", "INVALID_STATE", "NOT_SUPPORTED", "NO_MEMORY"}

\* What game_app_run and render do once on_render has returned; on_render may
\* have closed the window.
Judge ==
  /\ pc = "judge"
  /\ closed' \in {closed, TRUE}
  /\ \/ /\ first
        /\ result' = FrameResult
        /\ pc' = IF FrameResult = "OK" THEN "flush" ELSE "stop"
        /\ UNCHANGED terminal
     \/ /\ ~first
        /\ terminal' = IF Fatal(FrameResult) THEN FrameResult ELSE terminal
        /\ pc' = "pass"
        /\ UNCHANGED result
  /\ UNCHANGED <<frames, first, calls, run, port, drawing, schedule>>

------------------------------------------------------------------------------
(* The runner's passes, and the way out.                                   *)

\* Slip: only the window decides.
OnlyWindow == closed

ShouldClose == terminal # "OK" \/ closed

RunResult == terminal

\* A scheduler pass: the loop's test, poll_input, idle, and the credits, which
\* allow up to MaxUpdates updates and one render.
Pass ==
  /\ pc = "pass"
  /\ \/ /\ ShouldClose
        /\ result' = RunResult
        /\ pc' = "stop"
        /\ UNCHANGED schedule
     \/ /\ ~ShouldClose
        /\ UNCHANGED result
        /\ \/ UNCHANGED <<pc, schedule>>               \* idle
           \/ /\ due' \in 0 .. MaxUpdates
              /\ drawn' \in BOOLEAN
              /\ pc' = "work"
  /\ UNCHANGED <<frames, first, calls, terminal, run, port, drawing, closed>>

\* update: begin_frame, on_update.
Update ==
  /\ pc = "work" /\ due > 0
  /\ due' = due - 1
  /\ closed' \in {closed, TRUE}
  /\ UNCHANGED <<frames, pc, first, app, port, drawing, drawn>>

\* The updates are done: render, or the next pass.
Render ==
  /\ pc = "work" /\ due = 0
  /\ pc' = IF drawn THEN "begin" ELSE "pass"
  /\ UNCHANGED <<frames, first, app, port, drawing, closed, schedule>>

\* shutdown_port: on_stop.
Stop ==
  /\ pc = "stop"
  /\ stops' = IF started THEN stops + 1 ELSE stops
  /\ pc' = "close"
  /\ UNCHANGED <<frames, first, entered, started, healthy, result, terminal,
                 run, port, drawing, closed, schedule>>

\* The frame that an abandoned drawing left behind.
GiveBack ==
  /\ leased' = IF acquired THEN 0 ELSE leased
  /\ UNCHANGED <<issued, flight, shown, open, failed>>

\* raylib_lite_raylib_close_window and raylib_lite_raylib_port_deinit.
Close ==
  /\ pc = "close"
  /\ closed' = TRUE
  /\ GiveBack
  /\ initialized' = FALSE /\ acquired' = FALSE
  /\ pc' = "returned"
  /\ UNCHANGED <<first, app, drawing, schedule>>

\* The launcher may run an application again.
Again ==
  /\ pc = "returned"
  /\ pc' = "entry"
  /\ UNCHANGED <<frames, first, app, port, drawing, closed, schedule>>

------------------------------------------------------------------------------
(* The specification.                                                      *)

Game ==
  \/ Start \/ OnStart \/ FlushFirst \/ OnFirstPresent
  \/ Begin \/ Inspect \/ End \/ Abandon \/ Judge
  \/ Pass \/ Update \/ Render \/ Stop \/ Close \/ Again

Backend == Show \/ Release

Next == Game \/ Backend

Spec == Init /\ [][Next]_vars

\* The game thread runs; its callbacks and the backend's calls return.
FairSpec == Spec /\ WF_vars(Game)

------------------------------------------------------------------------------
(* Properties.                                                             *)

NumberType ==
  /\ issued \in 0 .. MaxFrames /\ leased \in 0 .. MaxFrames
  /\ flight \subseteq 1 .. MaxFrames /\ shown \in 0 .. MaxFrames
  /\ stops \in 0 .. 1 /\ due \in 0 .. MaxUpdates
  /\ runs \in 0 .. MaxRuns /\ base \in 0 .. MaxFrames

FlagType ==
  /\ open \in BOOLEAN /\ first \in BOOLEAN /\ entered \in BOOLEAN
  /\ started \in BOOLEAN /\ healthy \in BOOLEAN /\ initialized \in BOOLEAN
  /\ acquired \in BOOLEAN /\ pixels \in BOOLEAN /\ closed \in BOOLEAN
  /\ drawn \in BOOLEAN

AnswerType ==
  /\ failed \in Results /\ result \in Results /\ terminal \in Results
  /\ lastAcquire \in Results /\ lastPresent \in Results

PlaceType ==
  pc \in {"entry", "start", "begin", "inspect", "end", "judge", "flush",
         "healthy", "pass", "work", "stop", "close", "returned"}

TypeOK == NumberType /\ FlagType /\ AnswerType /\ PlaceType

\* API.md: the engine holds at most one frame, presents or discards it exactly
\* once, and has none left when the run returns, whatever failed.
KeepsContract == Contract!Spec

\* The port knows of the frame that the backend has lent, and only of that one.
PortHoldsLease ==
  /\ pc # "inspect" => (acquired <=> leased # 0)
  /\ pixels /\ pc = "end" => acquired
  /\ pc \in {"entry", "returned"} => leased = 0

\* API.md: once on_start has been entered, on_stop runs exactly once on every
\* exit path.
OnStopOnce == pc = "returned" => stops = (IF entered THEN 1 ELSE 0)

\* The device counts as healthy only after a frame of this run has been shown.
HealthyWasShown == pc = "healthy" \/ healthy => shown > base

\* The lease, the hooks and the health of a run, whatever failed in it.
Safety == TypeOK /\ PortHoldsLease /\ OnStopOnce /\ HealthyWasShown

\* raylib_lite_game_app.c: "Strip submission failures are dropped frames [...]
\* They must not unwind the launcher": a failure that the backend reports for
\* an earlier frame is not taken for a lasting one.
StripFailureDropsFrame ==
  [][pc = "judge" /\ lastPresent \in StripErrors => terminal' = terminal]_vars

\* A window that was closed, or a lasting failure, ends the run.
CloseReturns ==
  pc \in {"pass", "work", "begin", "inspect", "end", "judge"} /\ ~first
      /\ (terminal # "OK" \/ closed)
    ~> pc = "returned"
==============================================================================
