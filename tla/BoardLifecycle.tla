---------------------------- MODULE BoardLifecycle ----------------------------
(***************************************************************************)
(* The ESP-Mosaico board from create to destroy (esp-mosaico/board.c, with *)
(* the power rail of mosaico_hardware.c) under the launcher that owns it   *)
(* (examples_common/native_module_main.c).  Every call may fail and every  *)
(* wait may time out; what is left is kept for a retry.  The sampling      *)
(* tasks run beside the launcher; the video backend, the audio service and *)
(* the game loop are as coarse as their results: MosaicoVideo,             *)
(* AudioService and GameApp have their inside.                             *)
(***************************************************************************)
EXTENDS Integers

CONSTANT MaxRuns   \* bound: boards ever created

ASSUME BoardAssumption == MaxRuns \in Nat

Samplers == {"touch", "imu"}
Locks    == {"mutex"} \cup Samplers     \* mutex, touch_done, imu_done

VARIABLES
  pc, retries,                  \* the launcher; cleanups left after this one
  back,                         \* where a stop returns to
  claimed, enabled,             \* s_claimed, config.enable_imu
  power,                        \* s_power_owned
  manager, presenter, video,    \* bmgr_initialized, presenter, video
  imu, locks, queue,            \* imu, the semaphores, input.initialized
  sampling, task, done,         \* sampling, the task handles, given semaphores
  spc,                          \* the sampling tasks
  audio,                        \* the service: off, on, or only its worker gone
  memory, assets,               \* game.state, the registered assets
  provider, attached,           \* s_services, which borrows video and queue
  runs

control == <<pc, retries, back, runs>>
config  == <<enabled, provider>>
devices == <<power, manager, presenter, video, imu>>
input   == <<locks, queue>>
tasks   == <<sampling, task, done, spc>>
game    == <<audio, memory, assets>>
vars    == <<control, claimed, config, devices, input, tasks, game, attached>>

Nobody == [s \in Samplers |-> FALSE]

Init ==
  /\ pc = "returned" /\ retries = 0 /\ back = "video" /\ runs = 0
  /\ claimed = FALSE /\ enabled = FALSE /\ provider \in BOOLEAN
  /\ power = FALSE /\ manager = FALSE /\ presenter = FALSE
  /\ video = FALSE /\ imu = FALSE
  /\ locks = {} /\ queue = FALSE
  /\ sampling = FALSE /\ task = Nobody /\ done = Nobody
  /\ spc = [s \in Samplers |-> "none"]
  /\ audio = "off" /\ memory = FALSE /\ assets = FALSE
  /\ attached = FALSE

At(stage) == pc = stage /\ UNCHANGED <<runs, config>>

\* The launcher goes on with stage.
To(stage) == pc' = stage /\ UNCHANGED <<retries, back>>

\* A cleanup that fails is retried once, by cleanup_board or by app_main.
Refused ==
  /\ pc' = IF retries > 0 THEN "audio" ELSE "returned"
  /\ retries' = 0
  /\ UNCHANGED back

Outcome(ok, stage) == IF ok THEN To(stage) ELSE Refused

------------------------------------------------------------------------------
(* raylib_lite_example_board_create; a failure cleans up at once.          *)

Free == ~claimed

\* The claim, the memset, nvs_flash_init and mosaico_hardware_prepare.
Create ==
  /\ pc = "returned" /\ runs < MaxRuns
  /\ Free
  /\ runs' = runs + 1
  /\ claimed' = TRUE /\ enabled' \in BOOLEAN
  /\ manager' = FALSE /\ presenter' = FALSE /\ video' = FALSE /\ imu' = FALSE
  /\ locks' = {} /\ queue' = FALSE
  /\ sampling' = FALSE /\ task' = Nobody
  /\ pc' \in {"manager", "audio"}
  /\ retries' = 1
  /\ UNCHANGED <<back, provider, power, done, spc, game, attached>>

\* esp_board_manager_init, which powers the board, and the device handles.
InitManager ==
  /\ At("manager")
  /\ \/ manager' = TRUE /\ power' = TRUE /\ pc' \in {"presenter", "audio"}
     \/ manager' = FALSE /\ power' \in BOOLEAN /\ pc' = "audio"
  /\ UNCHANGED <<retries, back, claimed, presenter, video, imu, input, tasks,
                 game, attached>>

CreatePresenter ==
  /\ At("presenter")
  /\ presenter' \in BOOLEAN
  /\ To(IF presenter' THEN "sensor" ELSE "audio")
  /\ UNCHANGED <<claimed, power, manager, video, imu, input, tasks, game,
                 attached>>

InitImu ==
  /\ At("sensor")
  /\ imu' \in IF enabled THEN BOOLEAN ELSE {FALSE}
  /\ To(IF imu' = enabled THEN "open" ELSE "audio")
  /\ UNCHANGED <<claimed, power, manager, presenter, video, input, tasks,
                 game, attached>>

OpenVideo ==
  /\ At("open")
  /\ video' \in BOOLEAN
  /\ To(IF video' THEN "locks" ELSE "audio")
  /\ UNCHANGED <<claimed, power, manager, presenter, imu, input, tasks, game,
                 attached>>

\* The mutex, the two semaphores and the queue they guard.
CreateLocks ==
  /\ At("locks")
  /\ locks' \in SUBSET Locks
  /\ queue' = (locks' = Locks)
  /\ done' = Nobody
  /\ To(IF queue' THEN "attach" ELSE "audio")
  /\ UNCHANGED <<claimed, devices, sampling, task, spc, game, attached>>

------------------------------------------------------------------------------
(* app_main runs the game (raylib_lite_game_app_run).                      *)

\* A provider that fails to attach may have borrowed the interfaces already.
Attach ==
  /\ At("attach")
  /\ \/ ~provider /\ To("start") /\ UNCHANGED attached
     \/ provider /\ To("start") /\ attached' = TRUE
     \/ provider /\ To("detach") /\ attached' \in BOOLEAN
  /\ UNCHANGED <<claimed, devices, input, tasks, game>>

\* raylib_lite_game_audio_init: opened, shut down again, or stuck half-way.
OpenAudio == audio' \in IF audio = "off" THEN {"off", "on", "joined"}
                                         ELSE {audio}

\* raylib_lite_game_audio_shutdown, and what it answers.
ShutAudio(answer) ==
  \/ answer = "OK" /\ audio' = "off"
  \/ answer = "TIMEOUT" /\ audio = "on" /\ UNCHANGED audio
  \/ answer = "PLATFORM_ERROR" /\ audio # "off" /\ audio' = "joined"

AudioAnswers == {"OK", "TIMEOUT", "PLATFORM_ERROR"}

\* game_start: assets, memory, the module's initialize; or the run is refused
\* before it.
GameStart ==
  /\ At("start")
  /\ \/ To("silence") /\ UNCHANGED game
     \/ /\ assets' = TRUE
        /\ memory' \in BOOLEAN
        /\ IF memory' THEN OpenAudio /\ (To("first") \/ To("stop"))
                      ELSE To("stop") /\ UNCHANGED audio
  /\ UNCHANGED <<claimed, devices, input, tasks, attached>>

\* The first frame is drawn and flushed, or not.
FirstFrame ==
  /\ At("first")
  /\ To("input") \/ To("stop")
  /\ UNCHANGED <<claimed, devices, input, tasks, game, attached>>

\* first_present: raylib_lite_example_board_start_input up to the first task.
StartInput ==
  /\ At("input")
  /\ IF queue /\ task = Nobody /\ ~sampling
       THEN sampling' = TRUE /\ To("touch")
       ELSE To("stop") /\ UNCHANGED sampling
  /\ UNCHANGED <<claimed, devices, input, task, done, spc, game, attached>>

\* xTaskCreate; the first task runs on when the second cannot be created.
Spawn(s) ==
  /\ At(s)
  /\ \/ /\ task' = [task EXCEPT ![s] = TRUE]
        /\ spc' = [spc EXCEPT ![s] = "test"]
        /\ To(IF s = "touch" /\ enabled THEN "imu" ELSE "ready")
        /\ UNCHANGED sampling
     \/ /\ sampling' = FALSE
        /\ To("stop")
        /\ UNCHANGED <<task, spc>>
  /\ UNCHANGED <<claimed, devices, input, done, game, attached>>

\* The provider's first_present.
Ready ==
  /\ At("ready")
  /\ To("play") \/ (provider /\ To("stop"))
  /\ UNCHANGED <<claimed, devices, input, tasks, game, attached>>

\* The game opens and closes its audio device as it likes.
Play ==
  /\ At("play")
  /\ \/ To("play") /\ (OpenAudio \/ \E answer \in AudioAnswers : ShutAudio(answer))
     \/ To("stop") /\ UNCHANGED audio
  /\ UNCHANGED <<claimed, devices, input, tasks, memory, assets, attached>>

\* game_stop: the module's shutdown may close the audio device.
GameStop ==
  /\ At("stop")
  /\ To("silence")
  /\ \/ UNCHANGED audio
     \/ memory /\ \E answer \in AudioAnswers : ShutAudio(answer)
  /\ UNCHANGED <<claimed, devices, input, tasks, memory, assets, attached>>

\* Slip: any answer of the shutdown will do.
SilentAnyway(answer) == TRUE

Silent(answer) == answer = "OK"

\* app_main shuts the audio down, and once more if the worker is slow.
Silence ==
  /\ At("silence")
  /\ \E answer \in AudioAnswers :
       /\ ShutAudio(answer)
       /\ To(IF Silent(answer) THEN "free"
             ELSE IF answer = "TIMEOUT" THEN "silence again" ELSE "returned")
  /\ UNCHANGED <<claimed, devices, input, tasks, memory, assets, attached>>

SilenceAgain ==
  /\ At("silence again")
  /\ \E answer \in AudioAnswers :
       /\ ShutAudio(answer)
       /\ To(IF Silent(answer) THEN "free" ELSE "returned")
  /\ UNCHANGED <<claimed, devices, input, tasks, memory, assets, attached>>

\* heap_caps_free of the game's state and raylib_lite_assets_unmount.
FreeGame ==
  /\ At("free")
  /\ memory' = FALSE /\ assets' = FALSE
  /\ To("detach")
  /\ UNCHANGED <<claimed, devices, input, tasks, audio, attached>>

------------------------------------------------------------------------------
(* cleanup_board.                                                          *)

Detached(ok) == IF ok THEN To("hush") ELSE To("returned")

Detach(ok) ==
  /\ At("detach")
  /\ ok \/ provider
  /\ attached' = (attached /\ ~ok)
  /\ Detached(ok)
  /\ UNCHANGED <<claimed, devices, input, tasks, game>>

\* The audio again, then raylib_lite_example_board_stop, whose answer does not
\* matter: destroy stops once more.
Hush ==
  /\ At("hush")
  /\ \E answer \in AudioAnswers :
       /\ ShutAudio(answer)
       /\ pc' = IF answer = "OK" THEN "halt" ELSE "returned"
  /\ back' = "audio"
  /\ retries' = 1
  /\ UNCHANGED <<claimed, devices, input, tasks, memory, assets, attached>>

------------------------------------------------------------------------------
(* raylib_lite_example_board_retry_cleanup, which destroy is.              *)

ShutAudioDown(ok) ==
  /\ At("audio")
  /\ \E answer \in AudioAnswers : ShutAudio(answer) /\ ok = (answer = "OK")
  /\ IF ok THEN pc' = "halt" /\ back' = "video" /\ UNCHANGED retries
           ELSE Refused
  /\ UNCHANGED <<claimed, devices, input, tasks, memory, assets, attached>>

\* raylib_lite_example_board_stop asks, then joins one task after the other.
Halt ==
  /\ At("halt")
  /\ sampling' = FALSE
  /\ To("join")
  /\ UNCHANGED <<claimed, devices, input, task, done, spc, game, attached>>

\* The touch task is joined first.
Turn(s) == task[s] /\ (s = "imu" => ~task["touch"])

\* Slip: the handle of a joined task is kept.
KeepHandle(s) == UNCHANGED task

DropHandle(s) == task' = [task EXCEPT ![s] = FALSE]

\* The semaphore is taken and with it the task's last word.
Join(s) ==
  /\ At("join") /\ Turn(s) /\ done[s]
  /\ done' = [done EXCEPT ![s] = FALSE]
  /\ DropHandle(s)
  /\ To("join")
  /\ UNCHANGED <<claimed, devices, input, sampling, spc, game, attached>>

\* Slip: a cleanup goes on without the tasks it waited for.
GoOn == To(back)

\* cleanup_board goes on to destroy, a cleanup gives up.
GiveUp == IF back = "audio" THEN To(back) ELSE Refused

JoinTimeout ==
  /\ At("join")
  /\ \E s \in Samplers : Turn(s) /\ ~done[s]
  /\ GiveUp
  /\ UNCHANGED <<claimed, devices, input, tasks, game, attached>>

Joined ==
  /\ At("join") /\ task = Nobody
  /\ To(back)
  /\ UNCHANGED <<claimed, devices, input, tasks, game, attached>>

\* mosaico_video_close; like the presenter's deletion, skipped once done.
CloseVideo(ok) ==
  /\ At("video")
  /\ ok \/ video
  /\ video' = (video /\ ~ok)
  /\ Outcome(ok, "panel")
  /\ UNCHANGED <<claimed, power, manager, presenter, imu, input, tasks, game,
                 attached>>

DeletePresenter(ok) ==
  /\ At("panel")
  /\ ok \/ presenter
  /\ presenter' = (presenter /\ ~ok)
  /\ Outcome(ok, "deinit")
  /\ UNCHANGED <<claimed, power, manager, video, imu, input, tasks, game,
                 attached>>

\* esp_board_manager_deinit, which reaches board_power_deinit unless an earlier
\* device refuses.
DeinitManager(ok) ==
  /\ At("deinit")
  /\ \/ manager /\ power' \in IF ok THEN {FALSE} ELSE {power, FALSE}
     \/ ~manager /\ ok /\ UNCHANGED power
  /\ manager' = (manager /\ ~ok)
  /\ imu' = (imu /\ ~ok)
  /\ Outcome(ok, "release")
  /\ UNCHANGED <<claimed, presenter, video, input, tasks, game, attached>>

\* Slip: the rail is taken for released when a pin refuses.
ReleaseAnyway(ok) == To("finish")

Released(ok) == Outcome(ok, "finish")

\* mosaico_hardware_release, for a manager that never came up.
ReleasePower(ok) ==
  /\ At("release")
  /\ ok \/ power
  /\ power' = (power /\ ~ok)
  /\ Released(ok)
  /\ UNCHANGED <<claimed, manager, presenter, video, imu, input, tasks, game,
                 attached>>

Finish ==
  /\ At("finish")
  /\ queue' = FALSE /\ locks' = {} /\ done' = Nobody
  /\ claimed' = FALSE
  /\ To("returned")
  /\ UNCHANGED <<devices, sampling, task, spc, game, attached>>

\* The owner of a board that was retained goes on where the launcher gave up,
\* with the game's memory, its provider, or the board alone.
Retry ==
  /\ At("returned") /\ claimed
  /\ To(IF memory \/ assets THEN "silence"
        ELSE IF attached THEN "detach" ELSE "audio")
  /\ UNCHANGED <<claimed, devices, input, tasks, game, attached>>

------------------------------------------------------------------------------
(* The sampling tasks (touch_worker, imu_worker).                          *)

SamplerSame ==
  UNCHANGED <<control, claimed, config, devices, input, sampling, task, game,
              attached>>

\* while (sampling)
Test(s) ==
  /\ spc[s] = "test"
  /\ spc' = [spc EXCEPT ![s] = IF sampling THEN "read" ELSE "give"]
  /\ UNCHANGED done
  /\ SamplerSame

\* The device is read; there may be nothing to tell.
Read(s) ==
  /\ spc[s] = "read"
  /\ \E next \in {"push", "test"} : spc' = [spc EXCEPT ![s] = next]
  /\ UNCHANGED done
  /\ SamplerSame

\* push_event, under the queue's mutex, and the delay.
Push(s) ==
  /\ spc[s] = "push"
  /\ spc' = [spc EXCEPT ![s] = "test"]
  /\ UNCHANGED done
  /\ SamplerSame

Give(s) ==
  /\ spc[s] = "give"
  /\ done' = [done EXCEPT ![s] = TRUE]
  /\ spc' = [spc EXCEPT ![s] = "none"]
  /\ SamplerSame

------------------------------------------------------------------------------
(* The specification.                                                      *)

Startup ==
  \/ Create \/ InitManager \/ CreatePresenter \/ InitImu \/ OpenVideo
  \/ CreateLocks \/ Attach

Running ==
  \/ GameStart \/ FirstFrame \/ StartInput \/ \E s \in Samplers : Spawn(s)
  \/ Ready \/ Play \/ GameStop

Goodbye ==
  \/ Silence \/ SilenceAgain \/ FreeGame \/ (\E ok \in BOOLEAN : Detach(ok))
  \/ Hush

Step(ok) ==
  \/ ShutAudioDown(ok) \/ CloseVideo(ok) \/ DeletePresenter(ok)
  \/ DeinitManager(ok) \/ ReleasePower(ok)

Stopping == Halt \/ (\E s \in Samplers : Join(s)) \/ JoinTimeout \/ Joined

Cleanup == (\E ok \in BOOLEAN : Step(ok)) \/ Stopping \/ Finish

Sampler(s) == Test(s) \/ Read(s) \/ Push(s) \/ Give(s)

Next ==
  \/ Startup \/ Running \/ Goodbye \/ Cleanup \/ Retry
  \/ \E s \in Samplers : Sampler(s)

Spec == Init /\ [][Next]_vars

\* The owner retries and calls return; a call that is retried without end does
\* not fail without end.
FairSpec ==
  /\ Spec
  /\ WF_vars(Goodbye) /\ WF_vars(Cleanup) /\ WF_vars(Retry)
  /\ \A s \in Samplers : WF_vars(Sampler(s))
  /\ SF_vars(Silence /\ pc' = "free") /\ SF_vars(Detach(TRUE))
  /\ SF_vars(Hush /\ pc' = "halt")
  /\ SF_vars(ShutAudioDown(TRUE)) /\ SF_vars(CloseVideo(TRUE))
  /\ SF_vars(DeletePresenter(TRUE)) /\ SF_vars(DeinitManager(TRUE))
  /\ SF_vars(ReleasePower(TRUE))

------------------------------------------------------------------------------
(* Properties.                                                             *)

Places ==
  {"manager", "presenter", "sensor", "open", "locks", "attach", "start",
   "first", "input", "touch", "imu", "ready", "play", "stop", "silence",
   "silence again", "free", "detach", "hush", "audio", "halt", "join",
   "video", "panel", "deinit", "release", "finish", "returned"}

LauncherType ==
  /\ pc \in Places /\ back \in {"audio", "video"}
  /\ retries \in 0 .. 1 /\ runs \in 0 .. MaxRuns

BoardType ==
  /\ claimed \in BOOLEAN /\ enabled \in BOOLEAN
  /\ power \in BOOLEAN /\ manager \in BOOLEAN /\ presenter \in BOOLEAN
  /\ video \in BOOLEAN /\ imu \in BOOLEAN
  /\ locks \subseteq Locks /\ queue \in BOOLEAN

TaskType ==
  /\ sampling \in BOOLEAN /\ task \in [Samplers -> BOOLEAN]
  /\ done \in [Samplers -> BOOLEAN]
  /\ spc \in [Samplers -> {"none", "test", "read", "push", "give"}]

GameType ==
  /\ audio \in {"off", "on", "joined"}
  /\ memory \in BOOLEAN /\ assets \in BOOLEAN
  /\ provider \in BOOLEAN /\ attached \in BOOLEAN

\* Every variable keeps its type; a cleanup is retried at most once.
TypeOK == LauncherType /\ BoardType /\ TaskType /\ GameType

\* A sampling task finds its device, the queue and every semaphore until it has
\* said its last word; the strip backend its presenter; presenter and codec the
\* drivers below them: whichever call failed or timed out, nothing is released
\* under its users.
DevicesOutliveUsers ==
  /\ \A s \in Samplers : spc[s] # "none" =>
       manager /\ queue /\ locks = Locks /\ (s = "imu" => imu)
  /\ video => presenter
  /\ presenter => manager
  /\ audio # "off" => manager

\* raylib_lite_native_services.h: the provider's borrowed interfaces remain
\* valid until detach succeeds.
BorrowedUntilDetached == attached => video /\ queue

\* native_module_main.c: codec writes finish before the game's assets and its
\* memory are released, and all are kept on a timeout.
AssetsOutliveAudio == audio = "on" => memory /\ assets

\* What is lent outlives the borrower, in both directions: the board's backend
\* and queue the provider, the game's memory and assets the audio worker.
LendersOutliveBorrowers == BorrowedUntilDetached /\ AssetsOutliveAudio

\* README of the board: a successful destroy permits creating a new board. One
\* that is no longer claimed has left nothing behind, rails and tasks included.
ReleasedWhole ==
  ~claimed =>
    /\ ~power /\ ~manager /\ ~presenter /\ ~video /\ ~imu
    /\ locks = {} /\ ~queue
    /\ ~sampling /\ task = Nobody
    /\ \A s \in Samplers : spc[s] = "none"
    /\ audio = "off" /\ ~memory /\ ~assets /\ ~attached

\* What the proofs add.  The board is whole while anything runs on it.
Up ==
  /\ manager /\ presenter /\ video
  /\ queue /\ locks = Locks
  /\ enabled => imu

\* A sampling task exists until it has given its semaphore, and its handle
\* until the semaphore is taken.
Handshake ==
  \A s \in Samplers :
    /\ task[s] <=> spc[s] # "none" \/ done[s]
    /\ spc[s] # "none" => ~done[s]
    /\ task[s] => Up /\ (s = "imu" => enabled)

Building == {"manager", "presenter", "sensor", "open", "locks"}
Starting == Building \cup {"attach", "start"}
InGame   == {"attach", "start", "first", "input", "touch", "imu", "ready",
             "play", "stop"}
Ending   == {"halt", "join", "video", "panel", "deinit", "release", "finish"}

\* How far the launcher has come, and what is gone by then.
Stages ==
  /\ pc # "returned" => claimed
  /\ pc \in Starting => audio = "off" /\ ~memory /\ ~assets
  /\ pc \in Starting \ {"start"} => ~attached
  /\ pc \in Starting \cup {"first", "input", "touch"} => task = Nobody
  /\ pc \in Starting \cup {"first", "input"} => ~sampling
  /\ pc = "manager" => ~presenter
  /\ pc \in {"manager", "presenter", "sensor", "open"} => ~video
  /\ pc \in Building \ {"manager"} => manager
  /\ pc \in {"sensor", "open", "locks"} => presenter
  /\ pc \in {"open", "locks"} => (enabled => imu)
  /\ pc = "locks" => video
  /\ pc \in InGame => Up
  /\ pc = "imu" => ~task["imu"] /\ enabled
  /\ pc \in {"first", "input", "touch", "imu", "ready", "play"} =>
       memory /\ assets
  /\ memory => assets
  /\ audio # "off" \/ assets \/ attached => Up
  /\ pc = "free" => audio # "on"
  /\ pc \in Ending \cup {"detach", "hush", "audio"} => ~memory /\ ~assets
  /\ pc \in Ending \cup {"hush", "audio"} => ~attached
  /\ pc \in Ending => audio = "off"
  /\ pc \in Ending \ {"halt"} => ~sampling
  /\ pc \in Ending \ {"halt", "join"} => task = Nobody
  /\ pc \in Ending \ {"halt", "join", "video"} => ~video
  /\ pc \in {"deinit", "release", "finish"} => ~presenter
  /\ pc \in {"release", "finish"} => ~manager /\ ~imu
  /\ pc = "finish" => ~power

Inductive ==
  /\ TypeOK
  /\ Stages
  /\ Handshake
  /\ DevicesOutliveUsers
  /\ BorrowedUntilDetached
  /\ AssetsOutliveAudio
  /\ ReleasedWhole

\* README of the board: a failed cleanup retains the board for a retry. However
\* far one got, retries bring it to its end: no step waits for what an earlier
\* attempt has consumed.
CleanupConverges == pc = "returned" /\ claimed ~> ~claimed

==============================================================================
