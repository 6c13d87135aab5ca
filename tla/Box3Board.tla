------------------------------ MODULE Box3Board ------------------------------
(***************************************************************************)
(* The ESP32-S3-BOX-3 board from create to destroy (esp32-s3-box-3/board.c) *)
(* and the codec that borrows its board manager (box3_audio_codec.c), under *)
(* the launcher (native_module_main.c).  Every call may fail, every wait    *)
(* may time out; what is left is kept for a retry.  The panel is Box3Video, *)
(* what the touch task tells the game Box3Touch.                            *)
(***************************************************************************)
EXTENDS Integers

Locks == {"mutex", "done"}    \* input_mutex, touch_done

VARIABLES
  pc, retries,      \* the launcher; cleanups it has left after this one
  claimed,          \* s_claimed
  manager, video,   \* bmgr_initialized, video
  locks, queue,     \* the semaphores, input.initialized
  sampling, task,   \* sampling, touch_task
  worker,           \* the touch task: "none", "loop", or it "gave" touch_done
  audio,            \* the audio service, whose worker writes to the codec
  codec             \* s_dac, s_codec_open, s_dac_initialized

vars == <<pc, retries, claimed, manager, video, locks, queue, sampling, task, worker, audio, codec>>
board == <<claimed, manager, video, locks, queue>>
input == <<sampling, task, worker>>

Closed == [handle |-> FALSE, open |-> FALSE, ready |-> FALSE]

Init ==
  /\ pc = "returned" /\ retries = 0 /\ claimed = FALSE
  /\ manager = FALSE /\ video = FALSE /\ locks = {} /\ queue = FALSE
  /\ sampling = FALSE /\ task = FALSE /\ worker = "none"
  /\ audio = "off" /\ codec = Closed

\* The launcher goes on, or the cleanup is refused and tried once more.
To(stage) == pc' = stage /\ UNCHANGED retries
Refused == pc' = (IF retries > 0 THEN "audio" ELSE "returned") /\ retries' = 0

-----------------------------------------------------------------------------
(* raylib_lite_example_board_create clears the board, which nobody may     *)
(* still use, and cleans up after a failure.                               *)
Create ==
  /\ pc = "returned" /\ ~claimed
  /\ claimed' = TRUE /\ sampling' = FALSE /\ task' = FALSE
  /\ \/ manager' = FALSE /\ video' = FALSE /\ locks' = {}
     \/ manager' = TRUE /\ video' = FALSE /\ locks' = {}     \* handles, mirroring, panel
     \/ manager' = TRUE /\ video' = TRUE /\ locks' \in SUBSET Locks
  /\ queue' = (locks' = Locks)
  /\ pc' = (IF queue' THEN "run" ELSE "audio") /\ retries' = 1
  /\ UNCHANGED <<worker, audio, codec>>

(* raylib_lite_example_board_start_input, of the first frame. *)
StartInput ==
  /\ pc = "run" /\ ~sampling
  /\ \/ sampling' = TRUE /\ task' = TRUE /\ worker' = "loop" /\ UNCHANGED <<pc, retries>>
     \/ UNCHANGED input /\ pc' = "audio" /\ retries' = 1
  /\ UNCHANGED <<board, audio, codec>>

\* touch_worker sees that it shall stop.
WorkerEnds ==
  /\ worker = "loop" /\ ~sampling
  /\ worker' = "gave"
  /\ UNCHANGED <<pc, retries, board, sampling, task, audio, codec>>

-----------------------------------------------------------------------------
(* The codec.                                                              *)

Closing == [codec EXCEPT !.open = FALSE, !.handle = FALSE]

\* release_dac: what it answers and what it leaves behind.
ReleaseDac(ok) ==
  \/ codec.open /\ ~ok /\ UNCHANGED codec                     \* close fails
  \/ codec.ready /\ ~ok /\ codec' = Closing                   \* deinit fails
  \/ ok /\ codec' = Closed

(* codec_start: the device, its handle, the stream and its volume, each of *)
(* which may fail, in the worker of the audio service.                     *)
Started(left, ok) ==
  \/ ~ok /\ left = Closed
  \/ ~ok /\ left \in [handle : BOOLEAN, open : {FALSE}, ready : {TRUE}]
  \/ left = [handle |-> TRUE, open |-> TRUE, ready |-> TRUE]

\* InitAudioDevice: a start that fails is finished by stop, after the join.
StartAudio ==
  /\ pc = "run" /\ audio = "off"
  /\ \E ok \in BOOLEAN :
       /\ IF codec.handle \/ codec.ready THEN ~ok /\ UNCHANGED codec ELSE Started(codec', ok)
       /\ audio' = IF ok THEN "on" ELSE "joined"
  /\ UNCHANGED <<pc, retries, board, input>>

\* The game closes its audio while it runs, or the service after a failed start.
StopAudio ==
  /\ pc = "run" /\ audio # "off"
  /\ \E ok \in BOOLEAN : ReleaseDac(ok) /\ audio' = IF ok THEN "off" ELSE "joined"
  /\ UNCHANGED <<pc, retries, board, input>>

-----------------------------------------------------------------------------
(* Cleanup: the launcher's end, or that of a board it was left with.       *)

EndRun ==
  /\ \/ pc = "run"
     \/ pc = "returned" /\ claimed
  /\ pc' = "audio" /\ retries' = 1
  /\ UNCHANGED <<board, input, audio, codec>>

\* raylib_lite_game_audio_shutdown: the worker may not join, or stop fail.
ShutAudio ==
  /\ pc = "audio"
  /\ \/ audio = "off" /\ To("stop") /\ UNCHANGED <<audio, codec>>
     \/ audio = "on" /\ Refused /\ UNCHANGED <<audio, codec>>
     \/ /\ audio # "off"
        /\ \/ ReleaseDac(TRUE) /\ audio' = "off" /\ To("stop")
           \/ ReleaseDac(FALSE) /\ audio' = "joined" /\ Refused
  /\ UNCHANGED <<board, input>>

\* raylib_lite_example_board_stop
Stop ==
  /\ pc = "stop"
  /\ sampling' = FALSE
  /\ To(IF task THEN "wait" ELSE "video")
  /\ UNCHANGED <<board, task, worker, audio, codec>>

TimedOut == Refused /\ UNCHANGED <<task, worker>>

Wait ==
  /\ pc = "wait"
  /\ \/ worker = "gave" /\ worker' = "none" /\ task' = FALSE /\ To("video")
     \/ TimedOut
  /\ UNCHANGED <<board, sampling, audio, codec>>

\* box3_video_close waits for the panel.
CloseVideo ==
  /\ pc = "video"
  /\ \/ video' = FALSE /\ To("manager")
     \/ video /\ UNCHANGED video /\ Refused
  /\ UNCHANGED <<claimed, manager, locks, queue, input, audio, codec>>

DeinitManager ==
  /\ pc = "manager"
  /\ \/ manager' = FALSE /\ To("release")
     \/ manager /\ UNCHANGED manager /\ Refused
  /\ UNCHANGED <<claimed, video, locks, queue, input, audio, codec>>

Release ==
  /\ pc = "release"
  /\ claimed' = FALSE /\ locks' = {} /\ queue' = FALSE
  /\ To("returned")
  /\ UNCHANGED <<manager, video, input, audio, codec>>

Next ==
  \/ Create \/ StartInput \/ WorkerEnds \/ StartAudio \/ StopAudio
  \/ EndRun \/ ShutAudio \/ Stop \/ Wait \/ CloseVideo \/ DeinitManager \/ Release

Spec == Init /\ [][Next]_vars
-----------------------------------------------------------------------------
(* Whatever fails or times out: the touch task never runs without the      *)
(* panel, the queue and the devices it uses, the codec is never open       *)
(* without a handle that the board manager still owns, and a board that is *)
(* not claimed has left nothing behind.                                    *)
UsersHaveTheirBoard ==
  /\ worker = "loop" => claimed /\ manager /\ video /\ queue /\ locks = Locks /\ task
  /\ codec.ready => claimed /\ manager /\ audio # "off"
  /\ audio = "on" => codec.open
  /\ codec.open => codec.handle
  /\ codec.handle => codec.ready
  /\ ~claimed => /\ ~manager /\ ~video /\ ~queue /\ locks = {}
                 /\ worker = "none" /\ ~task /\ codec = Closed /\ audio = "off"
=============================================================================
