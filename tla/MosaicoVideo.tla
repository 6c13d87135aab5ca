----------------------------- MODULE MosaicoVideo -----------------------------
(***************************************************************************)
(* The ESP-Mosaico video backend                                           *)
(* (examples/boards/esp-mosaico/mosaico_video.c): frame buffers shared by  *)
(* the game thread, which draws and presents, the strip worker, which      *)
(* copies an accepted frame strip by strip to the panel, and a task that   *)
(* copies the latest frame.  One mutex guards the indices; ready, finished *)
(* and stopped are binary semaphores.  A critical section that cannot be   *)
(* observed by a zero-timeout lock attempt is one step.                    *)
(*                                                                         *)
(* A frame is the number acquire gave it; content[b] is the frame whose    *)
(* pixels buffer b holds.                                                  *)
(*                                                                         *)
(* The presenter (board.c: PANEL_IO, no frame buffer, two draw buffers) is *)
(* external.  Each of its calls may fail; a strip that was submitted       *)
(* reaches the panel at any later moment, before the commit or after it,   *)
(* whatever becomes of its frame.  The worker goes on after a failure.     *)
(***************************************************************************)
EXTENDS Integers, Sequences, FiniteSets

(* The esp_err_t codes a display driver answers with, and map_err, which   *)
(* turns them into raylib_lite_result_t.                                   *)
EspOk == "ESP_OK"

EspErrors == {"ESP_ERR_INVALID_ARG", "ESP_ERR_INVALID_STATE",
              "ESP_ERR_NO_MEM", "ESP_ERR_TIMEOUT", "ESP_ERR_NOT_SUPPORTED",
              "ESP_FAIL"}

Results == {"OK", "INVALID_ARGUMENT", "INVALID_STATE", "NO_MEMORY", "TIMEOUT",
            "NOT_SUPPORTED", "PLATFORM_ERROR", "BUSY", "NOT_READY"}

MapErr(e) ==
  CASE e = EspOk                   -> "OK"
    [] e = "ESP_ERR_INVALID_ARG"   -> "INVALID_ARGUMENT"
    [] e = "ESP_ERR_INVALID_STATE" -> "INVALID_STATE"
    [] e = "ESP_ERR_NO_MEM"        -> "NO_MEMORY"
    [] e = "ESP_ERR_TIMEOUT"       -> "TIMEOUT"
    [] e = "ESP_ERR_NOT_SUPPORTED" -> "NOT_SUPPORTED"
    [] OTHER                       -> "PLATFORM_ERROR"

CONSTANTS FrameCount,   \* FRAME_COUNT
          Rows,         \* rows of the panel
          DrawBuffers,  \* draw buffers of the presenter
          Errors,       \* esp_err_t codes the presenter can fail with
          MaxFrames,    \* bound: frames the game acquires
          MayTimeOut,   \* the waits of flush and close can time out
          Misuse        \* the caller may also break the port's discipline

ASSUME VideoAssumption ==
  /\ FrameCount \in Nat \ {0}
  /\ Rows \in Nat \ {0}
  /\ DrawBuffers \in Nat \ {0}
  /\ MaxFrames \in Nat
  /\ Errors \subseteq EspErrors
  /\ MayTimeOut \in BOOLEAN /\ Misuse \in BOOLEAN

Buffers == 0 .. FrameCount - 1
None    == -1
Index   == Buffers \cup {None}
Frames  == 0 .. MaxFrames
Lines   == 0 .. Rows - 1
Strips  == [first : Lines, count : 1 .. Rows, frame : Frames]

VARIABLES
  state, drawing, pending, latest, workerError, closing,   \* mosaico_video
  mutex, ready, finished, stopped,                         \* its semaphores
  gpc, closer, frame, ret,       \* game thread: where it is, in a close or
                                 \* not, its frame, the last answer it got
  wpc, work, y, err,                                       \* strip worker
  rpc, row,                                                \* copying task
  content, frames,                                         \* pixels
  wire, panel,       \* strips submitted that are not on the panel yet; the
                     \* frame each row of the panel shows
  committed, broken  \* history: the newest frame committed; a frame was given
                     \* up since, after its first strip

device == <<state, drawing, pending, latest, workerError, closing>>
game   == <<gpc, closer, frame, ret>>
worker == <<wpc, work, y, err>>
reader == <<rpc, row>>
display == <<wire, panel, committed, broken>>
pixels == <<content, frames, display>>
vars   == <<device, mutex, ready, finished, stopped, game, worker, reader,
            pixels>>

FrameState == {"FREE", "DRAWING", "PENDING", "WORKING", "LATEST"}

Init ==
  /\ state = [b \in Buffers |-> "FREE"]
  /\ drawing = None /\ pending = None /\ latest = None
  /\ workerError = EspOk
  /\ closing = FALSE
  /\ mutex = "free"
  /\ ready = FALSE /\ finished = FALSE /\ stopped = FALSE
  /\ gpc = "idle" /\ closer = FALSE /\ frame = None
  /\ ret = "OK"
  /\ wpc = "wait" /\ work = None /\ y = 0 /\ err = EspOk
  /\ rpc = "idle" /\ row = 0
  /\ content = [b \in Buffers |-> 0] /\ frames = 0
  /\ wire = <<>> /\ panel = [r \in Lines |-> 0]
  /\ committed = 0 /\ broken = FALSE

------------------------------------------------------------------------------
(* The game thread.                                                        *)

Return(res) == ret' = res

\* in_flight_locked: the buffers accepted and not released.
InFlight == {b \in Buffers : state[b] \in {"PENDING", "WORKING"}}

\* Slip: video_flush forgets the frame the worker is busy with.
BusyPendingOnly == pending # None

\* `busy` as video_flush computes it.
Busy == pending # None \/ \E b \in Buffers : state[b] = "WORKING"

\* Slip: acquire only avoids the frame waiting for the worker.
LowestNotPending(b) ==
  /\ b # pending
  /\ \A c \in Buffers : c # pending => b <= c

LowestFree(b) ==
  /\ state[b] = "FREE"
  /\ \A c \in Buffers : state[c] = "FREE" => b <= c

Acquire ==
  /\ gpc = "idle" /\ mutex = "free"
  /\ Misuse \/ frame = None
  /\ UNCHANGED <<pending, latest, workerError, closing, mutex, ready,
                 finished, stopped, gpc, closer, worker, reader, display>>
  /\ \/ /\ drawing # None \/ closing
        /\ Return("INVALID_STATE")
        /\ UNCHANGED <<state, drawing, frame, content, frames>>
     \/ /\ drawing = None /\ ~closing
        /\ \A b \in Buffers : state[b] # "FREE"
        /\ Return("BUSY")
        /\ UNCHANGED <<state, drawing, frame, content, frames>>
     \/ /\ drawing = None /\ ~closing
        /\ frames < MaxFrames
        /\ \E b \in Buffers :
             /\ LowestFree(b)
             /\ drawing' = b
             /\ frame' = b
             /\ state' = [state EXCEPT ![b] = "DRAWING"]
             /\ content' = [content EXCEPT ![b] = frames + 1]
        /\ frames' = frames + 1
        /\ Return("OK")

\* What video_discard and the mismatch branch of video_present do.
FreeDrawing ==
  /\ state' = IF drawing = None THEN state
              ELSE [state EXCEPT ![drawing] = "FREE"]
  /\ drawing' = None

\* video_present up to xSemaphoreGive(mutex), for a frame descriptor f.
Present(f) ==
  /\ gpc = "idle" /\ mutex = "free"
  /\ Misuse \/ (f = frame /\ frame # None)
  /\ frame' = None
  /\ UNCHANGED <<latest, closing, mutex, ready, finished, stopped, closer,
                 worker, reader, pixels>>
  /\ \/ /\ drawing = None \/ f # drawing                  \* !frame_matches
        /\ FreeDrawing
        /\ Return("INVALID_STATE")
        /\ UNCHANGED <<pending, workerError, gpc>>
     \/ /\ drawing # None /\ f = drawing
        /\ workerError # EspOk \/ closing
        /\ FreeDrawing
        /\ workerError' = EspOk
        /\ Return(IF closing THEN "INVALID_STATE"
                  ELSE MapErr(workerError))
        /\ UNCHANGED <<pending, gpc>>
     \/ /\ drawing # None /\ f = drawing
        /\ workerError = EspOk /\ ~closing
        /\ state' = [b \in Buffers |-> IF b = drawing THEN "PENDING"
                                       ELSE IF b = pending THEN "FREE"
                                       ELSE state[b]]
        /\ pending' = drawing
        /\ drawing' = None
        /\ gpc' = "give"
        /\ UNCHANGED <<workerError, ret>>

\* Slip: the worker is never woken.
ForgetReady == UNCHANGED ready

GiveReady == ready' = TRUE

\* ... and the xSemaphoreGive(ready) that follows it.
PresentGive ==
  /\ gpc = "give"
  /\ GiveReady
  /\ gpc' = "idle"
  /\ Return("OK")
  /\ UNCHANGED <<device, mutex, finished, stopped, closer, frame, worker,
                 reader, pixels>>

Discard ==
  /\ gpc = "idle" /\ mutex = "free"
  /\ Misuse \/ frame # None
  /\ FreeDrawing
  /\ frame' = None
  /\ UNCHANGED <<pending, latest, workerError, closing, mutex, ready,
                 finished, stopped, gpc, closer, ret, worker, reader, pixels>>

\* A call of flush, or of mosaico_video_close, which flushes first.  The other
\* users of the backend are gone when it is closed.
Flush(forClose) ==
  /\ gpc = "idle"
  /\ Misuse \/ frame = None
  /\ forClose => rpc = "idle"
  /\ gpc' = "flush"
  /\ closer' = forClose
  /\ UNCHANGED <<device, mutex, ready, finished, stopped, frame, ret, worker,
                 reader, pixels>>

FlushReturn(res) ==
  /\ gpc' = "idle"
  /\ closer' = FALSE
  /\ Return(res)

\* One turn of video_flush's loop, under the mutex.
FlushCheck ==
  /\ gpc = "flush" /\ mutex = "free"
  /\ workerError' = IF Busy THEN workerError ELSE EspOk
  /\ UNCHANGED <<state, drawing, pending, latest, closing, mutex, ready,
                 finished, stopped, frame, worker, reader, pixels>>
  /\ \/ /\ drawing # None
        /\ FlushReturn("INVALID_STATE")
     \/ /\ drawing = None /\ Busy
        /\ gpc' = "await"
        /\ UNCHANGED <<closer, ret>>
     \/ /\ drawing = None /\ ~Busy /\ workerError # EspOk
        /\ FlushReturn(MapErr(workerError))
     \/ /\ drawing = None /\ ~Busy /\ workerError = EspOk
        /\ gpc' = "quiesce"
        /\ UNCHANGED <<closer, ret>>

\* The wait on `finished`: taken, or timed out.
FlushWait ==
  /\ gpc = "await" /\ finished
  /\ finished' = FALSE
  /\ gpc' = "flush"
  /\ UNCHANGED <<device, mutex, ready, stopped, closer, frame, ret, worker,
                 reader, pixels>>

FlushTimeout ==
  /\ gpc = "await" /\ ~finished /\ MayTimeOut
  /\ FlushReturn("TIMEOUT")
  /\ UNCHANGED <<device, mutex, ready, finished, stopped, frame, worker,
                 reader, pixels>>

\* esp_display_presenter_quiesce returns, with OK once the wire is empty; a
\* close goes on only after OK.
FlushQuiesce ==
  /\ gpc = "quiesce"
  /\ \/ closer /\ wire = <<>> /\ gpc' = "closing" /\ UNCHANGED <<closer, ret>>
     \/ ~closer /\ wire = <<>> /\ FlushReturn("OK")
     \/ \E e \in Errors : FlushReturn(MapErr(e))
  /\ UNCHANGED <<device, mutex, ready, finished, stopped, frame, worker,
                 reader, pixels>>

CloseSet ==
  /\ gpc = "closing" /\ mutex = "free"
  /\ closing' = TRUE
  /\ gpc' = "wake"
  /\ UNCHANGED <<state, drawing, pending, latest, workerError, mutex, ready,
                 finished, stopped, closer, frame, ret, worker, reader,
                 pixels>>

CloseGive ==
  /\ gpc = "wake"
  /\ GiveReady
  /\ gpc' = "join"
  /\ UNCHANGED <<device, mutex, finished, stopped, closer, frame, ret, worker,
                 reader, pixels>>

\* Slip: the wait on `stopped` is not checked.
JoinAnyway ==
  /\ gpc = "join"
  /\ stopped' = FALSE
  /\ gpc' = "gone"
  /\ Return("OK")
  /\ UNCHANGED <<device, mutex, ready, finished, closer, frame, worker,
                 reader, pixels>>

\* The wait on `stopped`; after it every buffer and semaphore is freed.
CloseJoin ==
  /\ gpc = "join" /\ stopped
  /\ stopped' = FALSE
  /\ gpc' = "gone"
  /\ Return("OK")
  /\ UNCHANGED <<device, mutex, ready, finished, closer, frame, worker,
                 reader, pixels>>

\* The wait times out: everything is kept and the close can be retried.
CloseTimeout ==
  /\ gpc = "join" /\ ~stopped /\ MayTimeOut
  /\ FlushReturn("TIMEOUT")
  /\ UNCHANGED <<device, mutex, ready, finished, stopped, frame, worker,
                 reader, pixels>>

------------------------------------------------------------------------------
(* The strip worker (strip_worker, submit_strips).                         *)

WorkerFrame == UNCHANGED <<game, reader, content, frames>>

WorkerWait ==
  /\ wpc = "wait" /\ ready
  /\ ready' = FALSE
  /\ wpc' = "lock"
  /\ UNCHANGED <<device, mutex, finished, stopped, work, y, err, display>>
  /\ WorkerFrame

WorkerLock ==
  /\ mutex = "free"
  /\ \/ wpc = "lock" /\ wpc' = "pick"
     \/ wpc = "relock" /\ wpc' = "finish"
  /\ mutex' = "worker"
  /\ UNCHANGED <<device, ready, finished, stopped, work, y, err, display>>
  /\ WorkerFrame

\* Take the pending frame, if any; leave the loop when closing without one.
WorkerPick ==
  /\ wpc = "pick"
  /\ mutex' = "free"
  /\ \/ /\ pending = None /\ closing
        /\ wpc' = "exit"
        /\ UNCHANGED <<state, pending, work>>
     \/ /\ pending = None /\ ~closing
        /\ wpc' = "wait"
        /\ UNCHANGED <<state, pending, work>>
     \/ /\ pending # None
        /\ work' = pending
        /\ pending' = None
        /\ state' = [state EXCEPT ![pending] = "WORKING"]
        /\ wpc' = "begin"
  /\ UNCHANGED <<drawing, latest, workerError, closing, ready, finished,
                 stopped, y, err, display>>
  /\ WorkerFrame

WorkerBegin ==
  /\ wpc = "begin"
  /\ wpc' = "strips"
  /\ UNCHANGED <<device, mutex, ready, finished, stopped, work, y, err,
                 display>>
  /\ WorkerFrame

MoreRows == y < Rows

\* A free draw buffer, as many rows as it resolves, copied out of the frame
\* buffer and submitted.
WorkerStrip ==
  /\ wpc = "strips" /\ MoreRows
  /\ Len(wire) < DrawBuffers
  /\ \E count \in 1 .. Rows - y :
       /\ wire' = Append(wire, [first |-> y, count |-> count,
                                frame |-> content[work]])
       /\ y' = y + count
  /\ UNCHANGED <<device, mutex, ready, finished, stopped, wpc, work, err,
                 panel, committed, broken>>
  /\ WorkerFrame

WorkerCommit ==
  /\ wpc = "strips" /\ ~MoreRows
  /\ committed' = content[work] /\ broken' = FALSE
  /\ y' = 0
  /\ wpc' = "relock"
  /\ UNCHANGED <<device, mutex, ready, finished, stopped, work, err, wire,
                 panel>>
  /\ WorkerFrame

\* begin, a strip (then the frame is cancelled) or the commit fails.  What was
\* submitted is not taken back.
WorkerFail ==
  /\ wpc \in {"begin", "strips"}
  /\ err' \in Errors
  /\ broken' = (broken \/ y > 0)
  /\ y' = 0
  /\ wpc' = "relock"
  /\ UNCHANGED <<device, mutex, ready, finished, stopped, work, wire, panel,
                 committed>>
  /\ WorkerFrame

\* Slip: a frame that went well wipes out the error of an earlier one.
PublishForget ==
  /\ state' = [b \in Buffers |-> IF b = work THEN "LATEST"
                                 ELSE IF b = latest THEN "FREE" ELSE state[b]]
  /\ latest' = work
  /\ workerError' = EspOk

\* The frame becomes the latest one, which frees the previous.
Publish ==
  /\ state' = [b \in Buffers |-> IF b = work THEN "LATEST"
                                 ELSE IF b = latest THEN "FREE" ELSE state[b]]
  /\ latest' = work
  /\ UNCHANGED workerError

\* The frame is freed and its error kept for the next present or flush.
Fail ==
  /\ state' = [state EXCEPT ![work] = "FREE"]
  /\ workerError' = err
  /\ UNCHANGED latest

WorkerFinish ==
  /\ wpc = "finish"
  /\ mutex' = "free"
  /\ wpc' = "signal"
  /\ \/ err = EspOk /\ Publish
     \/ err # EspOk /\ Fail
  /\ work' = None /\ err' = EspOk
  /\ UNCHANGED <<drawing, pending, closing, ready, finished, stopped, y,
                 display>>
  /\ WorkerFrame

\* Slip: the worker does not tell a waiting flush.
WorkerSilent ==
  /\ wpc = "signal"
  /\ wpc' = "wait"
  /\ UNCHANGED <<device, mutex, ready, finished, stopped, work, y, err,
                 display>>
  /\ WorkerFrame

WorkerSignal ==
  /\ wpc = "signal"
  /\ finished' = TRUE
  /\ wpc' = "wait"
  /\ UNCHANGED <<device, mutex, ready, stopped, work, y, err, display>>
  /\ WorkerFrame

WorkerStop ==
  /\ wpc = "exit"
  /\ stopped' = TRUE
  /\ wpc' = "exited"
  /\ UNCHANGED <<device, mutex, ready, finished, work, y, err, display>>
  /\ WorkerFrame

------------------------------------------------------------------------------
(* The DMA of the presenter: the oldest strip reaches the panel and leaves *)
(* its draw buffer.                                                        *)

Covers(strip, r) == r \in strip.first .. strip.first + strip.count - 1

Land ==
  /\ wire # <<>>
  /\ wire' = Tail(wire)
  /\ panel' = [r \in Lines |-> IF Covers(Head(wire), r) THEN Head(wire).frame
                               ELSE panel[r]]
  /\ UNCHANGED <<device, mutex, ready, finished, stopped, game, worker, reader,
                 content, frames, committed, broken>>

------------------------------------------------------------------------------
(* video_copy_latest, called by a task of its own: a lock attempt that     *)
(* never waits, then a copy under the mutex, seen as its first and its     *)
(* last row.  A BUSY or NOT_READY answer changes nothing.                  *)

NotReady == latest = None

CopyStart ==
  /\ rpc = "idle" /\ mutex = "free" /\ ~NotReady
  /\ ~closer
  /\ mutex' = "reader"
  /\ rpc' = "copy"
  /\ row' = content[latest]
  /\ UNCHANGED <<device, ready, finished, stopped, game, worker, pixels>>

CopyEnd ==
  /\ rpc = "copy"
  /\ mutex' = "free"
  /\ rpc' = "idle"
  /\ row' = 0
  /\ UNCHANGED <<device, ready, finished, stopped, game, worker, pixels>>

------------------------------------------------------------------------------
(* The specification.                                                      *)

GameCall ==
  \/ Acquire
  \/ \E f \in Index : Present(f)
  \/ Discard
  \/ \E c \in BOOLEAN : Flush(c)

GameStep ==
  PresentGive \/ FlushCheck \/ FlushWait \/ FlushQuiesce
    \/ CloseSet \/ CloseGive \/ CloseJoin

Timeout == FlushTimeout \/ CloseTimeout

Worker ==
  WorkerWait \/ WorkerLock \/ WorkerPick \/ WorkerBegin \/ WorkerStrip
    \/ WorkerCommit \/ WorkerFail \/ WorkerFinish \/ WorkerSignal
    \/ WorkerStop

\* The backend is freed and its worker has deleted itself.
Closed ==
  /\ gpc = "gone" /\ wpc = "exited"
  /\ UNCHANGED vars

Next ==
  GameCall \/ GameStep \/ Timeout \/ Worker \/ Land \/ CopyStart \/ CopyEnd
    \/ Closed

Spec == Init /\ [][Next]_vars

\* A call that began, and the worker, keep running; FreeRTOS hands a mutex to
\* a task that blocks on it, and the copying task never blocks.  The display
\* need not take what is sent to it: a presenter that waits for it in vain
\* fails.
Fairness ==
  /\ WF_vars(GameStep) /\ SF_vars(FlushCheck \/ CloseSet)
  /\ WF_vars(Worker) /\ SF_vars(WorkerLock)
  /\ WF_vars(CopyEnd)

FairSpec == Spec /\ Fairness

------------------------------------------------------------------------------
(* Properties.                                                             *)

DeviceOK ==
  /\ state \in [Buffers -> FrameState]
  /\ drawing \in Index /\ pending \in Index /\ latest \in Index
  /\ workerError \in Errors \cup {EspOk} /\ closing \in BOOLEAN
  /\ mutex \in {"free", "worker", "reader"}
  /\ ready \in BOOLEAN /\ finished \in BOOLEAN /\ stopped \in BOOLEAN

GameOK ==
  /\ gpc \in {"idle", "give", "flush", "await", "quiesce", "closing", "wake",
              "join", "gone"}
  /\ closer \in BOOLEAN /\ frame \in Index /\ ret \in Results

WorkerOK ==
  /\ wpc \in {"wait", "lock", "pick", "begin", "strips", "relock", "finish",
              "signal", "exit", "exited"}
  /\ work \in Index /\ y \in 0 .. Rows /\ err \in Errors \cup {EspOk}

PixelsOK ==
  /\ rpc \in {"idle", "copy"} /\ row \in Frames
  /\ content \in [Buffers -> Frames] /\ frames \in Frames

DisplayOK ==
  /\ wire \in Seq(Strips) /\ Len(wire) <= DrawBuffers
  /\ panel \in [Lines -> Frames]
  /\ committed \in Frames /\ broken \in BOOLEAN

\* Every variable stays in its range.
TypeOK == DeviceOK /\ GameOK /\ WorkerOK /\ PixelsOK /\ DisplayOK

\* The index fields and the buffer states tell the same story: no buffer is
\* leaked, lent twice or lent while the worker or `latest` still has it.
Ownership ==
  \A b \in Buffers :
    /\ state[b] = "DRAWING" <=> drawing = b
    /\ state[b] = "PENDING" <=> pending = b
    /\ state[b] = "LATEST"  <=> latest = b
    /\ state[b] = "WORKING" <=> work = b

\* Row r of the panel shows frame f once the wire is empty.
Coming(r, f) ==
  \/ panel[r] = f /\ \A i \in DOMAIN wire : ~Covers(wire[i], r)
  \/ \E i \in DOMAIN wire :
       /\ wire[i].frame = f /\ Covers(wire[i], r)
       /\ \A j \in i + 1 .. Len(wire) : ~Covers(wire[j], r)

\* The rows the worker has sent are all of the frame it works on; unless one
\* was given up half way, the other rows are those of the frame committed last.
Painted ==
  /\ wpc = "strips" => \A r \in 0 .. y - 1 : Coming(r, content[work])
  /\ ~broken => \A r \in y .. Rows - 1 : Coming(r, committed)

\* copy_latest copies one frame.
CopyIsWhole == rpc = "copy" => latest # None /\ content[latest] = row

\* The wire never takes a row of the panel back to an older frame.
WireIsNewer ==
  \A i \in DOMAIN wire :
    /\ \A r \in Lines : panel[r] <= wire[i].frame
    /\ \A j \in i .. Len(wire) : wire[i].frame <= wire[j].frame

\* The game never draws into a buffer somebody reads.  The panel, once it has
\* got what is on its way, is cut in two only where the worker's loop stands;
\* between two frames it is whole, unless one failed after its first strip and
\* none was committed since.  No row ever goes back, whatever fails.
NoTearing == Painted /\ CopyIsWhole /\ WireIsNewer

\* A failed frame never becomes the snapshot: `latest` is the frame that was
\* committed last, except while the worker is about to publish this one.
LatestIsCommitted ==
  latest # None => \/ content[latest] = committed
                   \/ /\ wpc \in {"relock", "finish"} /\ err = EspOk
                      /\ content[work] = committed /\ latest # work

\* esp_display_presenter_quiesce, called by the game thread, never overlaps
\* the worker's use of the presenter.
ExclusivePresenter == gpc = "quiesce" => wpc \notin {"begin", "strips"}

\* mosaico_video_close frees the buffers and semaphores only when no other
\* task can reach them any more.
NoUseAfterFree == gpc = "gone" => wpc = "exited" /\ rpc = "idle"

\* A frame waiting for the worker always has a wakeup on its way.
NoLostWakeup ==
  pending # None => ready \/ gpc = "give" \/ wpc \in {"lock", "pick"}

\* Once a flush has found nothing busy, and for ever after a close began,
\* every accepted frame has been released; what it had sent is on the panel
\* before the backend is freed.
Drained ==
  /\ closing \/ gpc \in {"quiesce", "closing", "wake", "join", "gone"}
       => InFlight = {} /\ wpc \notin {"begin", "strips", "relock", "finish"}
  /\ gpc \in {"closing", "wake", "join", "gone"} => wire = <<>>

\* What the mutex and the semaphores are for: the buffers, the presenter and the
\* memory each have one user at a time, no wakeup and no frame gets lost, and
\* no frame becomes the snapshot that the presenter has not taken whole.
Safety ==
  /\ TypeOK
  /\ Ownership
  /\ LatestIsCommitted
  /\ ExclusivePresenter
  /\ NoUseAfterFree
  /\ NoLostWakeup
  /\ Drained

\* The call that clears a display error returns its code, the next present,
\* flush or close.  Until then no frame is accepted, so that a code is replaced
\* by a later one at most once, by that of the frame that was already waiting:
\* then nothing is in flight that could fail.  For a caller that keeps the
\* port's discipline; a flush with a frame held drops the error.
ErrorsReported ==
  [][workerError # EspOk =>
       /\ InFlight' \subseteq InFlight
       /\ workerError' = EspOk => ret' = MapErr(workerError)
       /\ workerError' \notin {EspOk, workerError} => InFlight' = {}]_vars

\* copy_latest, as the header has it: "Returns NOT_READY before the first
\* accepted frame", so never while an accepted frame exists.
NotReadyBeforeFirstAccept == NotReady => InFlight = {}

\* Every accepted frame is released, whatever the presenter answers.
AcceptedIsReleased ==
  \A b \in Buffers : state[b] = "PENDING" ~> state[b] \in {"FREE", "LATEST"}

\* flush and close return, even when their waits never time out
\* (RAYLIB_LITE_WAIT_FOREVER): no wakeup they depend on is ever lost.
CallsReturn == gpc # "idle" ~> gpc \in {"idle", "gone"}

\* What the proofs add to the properties above to make them inductive.

Holding == {"begin", "strips", "relock", "finish"}

\* Who has the mutex, the worker's buffer and the game's frame, by control
\* state.
Control ==
  /\ mutex = "worker" <=> wpc \in {"pick", "finish"}
  /\ mutex = "reader" <=> rpc = "copy"
  /\ work # None <=> wpc \in Holding
  /\ err # EspOk => wpc \in {"relock", "finish"}
  /\ frame = drawing

\* Where the loop over the rows is, and what the worker has committed.
Staging ==
  /\ wpc # "strips" => y = 0
  /\ wpc \in {"relock", "finish"} /\ err = EspOk => content[work] = committed

\* How far a close has come, and what is over by then.
Closing ==
  /\ gpc \in {"closing", "wake", "join", "gone"} => closer
  /\ closer => gpc \notin {"idle", "give"} /\ rpc = "idle"
  /\ gpc \in {"wake", "join", "gone"} \/ wpc \in {"exit", "exited"} => closing
  /\ closing \/ gpc \in {"quiesce", "closing", "wake", "join", "gone"}
       => drawing = None /\ pending = None /\ work = None
  /\ gpc \in {"closing", "wake", "join", "gone"} => wire = <<>>
  /\ stopped => wpc = "exited"

Inductive ==
  /\ TypeOK
  /\ Ownership
  /\ Control
  /\ Staging
  /\ Painted
  /\ CopyIsWhole
  /\ LatestIsCommitted
  /\ Closing
  /\ NoUseAfterFree
  /\ NoLostWakeup

\* Every frame that has reached the panel or the wire, in part or whole.
Sent ==
  {panel[r] : r \in Lines} \cup {wire[i].frame : i \in DOMAIN wire}
    \cup {committed}

\* Frames are sent in the order they were handed out: what is on the panel and
\* on the wire is no newer than what the worker has, that is older than the
\* pending frame, and the frame being drawn is the newest.
FrameOrder ==
  /\ \A b \in Buffers : content[b] <= frames
  /\ \A f \in Sent :
       /\ f <= frames
       /\ \A b \in Buffers : state[b] \in {"PENDING", "DRAWING"}
            => f < content[b]
       /\ wpc \in {"begin", "strips"} => f <= content[work]
  /\ wpc \in {"begin", "strips"} => committed < content[work]
  /\ WireIsNewer
  /\ drawing # None => content[drawing] = frames
  /\ \A b \in InFlight : drawing # None => content[b] < frames
  /\ work # None /\ pending # None => content[work] < content[pending]
  /\ \A b \in Buffers : state[b] # "FREE" => content[b] # 0

\* The contract of raylib_lite_video.h, with the frames seen through the
\* buffers that hold them; a frame counts as shown once it is committed.
FrameOf(b) == IF b = None THEN 0 ELSE content[b]

Flight == {content[b] : b \in InFlight}

Contract == INSTANCE VideoContract WITH
  issued <- frames,
  leased <- FrameOf(drawing),
  flight <- Flight,
  shown  <- committed,
  open   <- ~closing

ImplementsContract == Contract!Spec
==============================================================================
