----------------------------- MODULE AudioService -----------------------------
(***************************************************************************)
(* Life of the native audio device: raylib_lite_game_audio_init and        *)
(* _shutdown (examples_audio/game_audio.c), the service and its worker     *)
(* task (platform_esp_audio.c), the short-write loop                       *)
(* (platform_audio_write_all.c) and the ESP-Mosaico codec                  *)
(* (mosaico_audio_codec.c).  The game thread starts and stops the device,  *)
(* and may do both again; the worker pulls chunks from the mixer and       *)
(* writes them to the codec.                                               *)
(***************************************************************************)
EXTENDS Integers

CONSTANTS Chunk,          \* AUDIO_CHUNK_FRAMES
          MaxNoProgress,  \* max_no_progress, 2 in the code
          MayTimeOut      \* the waits for READY and for DONE can time out

ASSUME ServiceAssumption ==
  /\ Chunk \in Nat \ {0}
  /\ MaxNoProgress \in Nat
  /\ MayTimeOut \in BOOLEAN

VARIABLES
  service, mixer,               \* s_service and s_mixer are not NULL
  task, cleanup,                \* service->task, backend_cleanup_pending
  stopping, ready,              \* service->stopping, service->ready
  readyBit, doneBit,            \* the event group
  dacInit, dac, codecOpen,      \* s_dac_initialized, s_dac, s_codec_open
  gpc, down,                    \* game thread; what the last shutdown answered
  wpc, written, stalled,        \* worker; *out_written, no_progress
  lost                          \* a suffix of a chunk was never written

facade == <<service, mixer>>
handle == <<task, cleanup>>
events == <<readyBit, doneBit>>
codec  == <<dacInit, dac, codecOpen>>
write  == <<written, stalled, lost>>
vars   == <<facade, handle, stopping, ready, events, codec, gpc, down, wpc,
            write>>

Init ==
  /\ service = FALSE /\ mixer = FALSE
  /\ task = FALSE /\ cleanup = FALSE
  /\ stopping = FALSE /\ ready = FALSE
  /\ readyBit = FALSE /\ doneBit = FALSE
  /\ dacInit = FALSE /\ dac = FALSE /\ codecOpen = FALSE
  /\ gpc = "idle" /\ down = "OK"
  /\ wpc = "none" /\ written = Chunk /\ stalled = 0 /\ lost = FALSE

------------------------------------------------------------------------------
(* The game thread.                                                        *)

\* raylib_lite_game_audio_init up to platform_esp_audio_service_create.
InitDevice ==
  /\ gpc = "idle" /\ ~service
  /\ service' = TRUE
  /\ gpc' = "mixer"
  /\ down' = "none"
  /\ UNCHANGED <<mixer, handle, stopping, ready, events, codec, wpc, write>>

\* raylib_lite_audio_mixer_create; without a mixer the device shuts down again.
CreateMixer ==
  /\ gpc = "mixer"
  /\ \/ mixer' = TRUE /\ gpc' = "launch"
     \/ mixer' = FALSE /\ gpc' = "stop"
  /\ UNCHANGED <<service, handle, stopping, ready, events, codec, down, wpc,
                 write>>

ClearBits == readyBit' = FALSE /\ doneBit' = FALSE

\* platform_esp_audio_service_start up to xTaskCreate, which may fail.
Launch ==
  /\ gpc = "launch"
  /\ UNCHANGED <<facade, codec, down, lost>>
  /\ \/ /\ task \/ cleanup
        /\ gpc' = "stop"
        /\ UNCHANGED <<handle, stopping, ready, events, wpc, written, stalled>>
     \/ /\ ~task /\ ~cleanup
        /\ stopping' = FALSE /\ ready' = FALSE
        /\ ClearBits
        /\ \/ /\ task' = TRUE /\ cleanup' = TRUE
              /\ wpc' = "start" /\ written' = Chunk /\ stalled' = 0
              /\ gpc' = "await"
           \/ /\ gpc' = "stop"
              /\ UNCHANGED <<handle, wpc, written, stalled>>

\* The wait for READY or DONE; anything but READY alone shuts down again.
AwaitStart ==
  /\ gpc = "await"
  /\ \/ doneBit /\ gpc' = "stop"
     \/ ~doneBit /\ readyBit /\ gpc' = "idle"
     \/ ~doneBit /\ ~readyBit /\ MayTimeOut /\ gpc' = "stop"
  /\ UNCHANGED <<facade, handle, stopping, ready, events, codec, down, wpc,
                 write>>

\* raylib_lite_game_audio_shutdown: CloseAudioDevice, or the launcher.
Shutdown ==
  /\ gpc = "idle"
  /\ \/ ~service /\ down' = "OK" /\ UNCHANGED gpc
     \/ service /\ gpc' = "stop" /\ UNCHANGED down
  /\ UNCHANGED <<facade, handle, stopping, ready, events, codec, wpc, write>>

\* Slip: the worker is not asked to stop.
StopUnasked ==
  /\ gpc = "stop"
  /\ gpc' = IF task THEN "join" ELSE "release"
  /\ UNCHANGED <<facade, handle, stopping, ready, events, codec, down, wpc,
                 write>>

\* platform_esp_audio_service_stop asks the worker, if there is one.
StopAsk ==
  /\ gpc = "stop"
  /\ stopping' = (stopping \/ task)
  /\ gpc' = IF task THEN "join" ELSE "release"
  /\ UNCHANGED <<facade, handle, ready, events, codec, down, wpc, write>>

\* Slip: the task is deleted without its DONE bit.
JoinAnyway ==
  /\ gpc = "join"
  /\ task' = FALSE
  /\ gpc' = "release"
  /\ UNCHANGED <<facade, cleanup, stopping, ready, events, codec, down, wpc,
                 write>>

\* The wait for DONE, then vTaskDelete.
Join ==
  /\ gpc = "join" /\ doneBit
  /\ task' = FALSE
  /\ wpc' = "none"
  /\ gpc' = "release"
  /\ UNCHANGED <<facade, cleanup, stopping, ready, events, codec, down, write>>

JoinTimeout ==
  /\ gpc = "join" /\ ~doneBit /\ MayTimeOut
  /\ gpc' = "idle"
  /\ down' = "TIMEOUT"
  /\ UNCHANGED <<facade, handle, stopping, ready, events, codec, wpc, write>>

\* release_dac: close the codec, drop the handle, deinitialise the device; the
\* last two only when the close went well.
ReleaseDac(ok) ==
  \/ /\ codecOpen /\ ~ok                              \* the close failed
     /\ UNCHANGED codec
  \/ /\ ~codecOpen \/ dac
     /\ codecOpen' = FALSE
     /\ dac' = FALSE
     /\ \/ ok /\ dacInit' = FALSE
        \/ ~ok /\ dacInit /\ UNCHANGED dacInit        \* the deinit failed

\* Slip: a failed release is taken for a successful one.
SettleAnyway(ok) == cleanup' = FALSE /\ gpc' = "destroy"

\* What a stop of the backend leaves to do.
Settle(ok) ==
  /\ cleanup' = (cleanup /\ ~ok)
  /\ gpc' = IF ok THEN "destroy" ELSE "idle"

\* backend.stop, on the game thread, when the worker may have started it.
Release ==
  /\ gpc = "release"
  /\ \E ok \in BOOLEAN :
       /\ \/ cleanup /\ ReleaseDac(ok)
          \/ ~cleanup /\ ok /\ UNCHANGED codec
       /\ Settle(ok)
       /\ down' = IF ok THEN down ELSE "PLATFORM_ERROR"
  /\ UNCHANGED <<facade, task, stopping, ready, events, wpc, write>>

\* The mixer and its tickets, then the service: its stop finds nothing left.
Destroy ==
  /\ gpc = "destroy"
  /\ mixer' = FALSE
  /\ service' = FALSE
  /\ gpc' = "idle"
  /\ down' = "OK"
  /\ UNCHANGED <<handle, stopping, ready, events, codec, wpc, write>>

------------------------------------------------------------------------------
(* The worker (audio_worker).                                              *)

WorkerSame == UNCHANGED <<facade, handle, stopping, gpc, down>>

\* backend.start: codec_start succeeds, or fails at one of its steps and
\* leaves what it did to backend.stop.
WorkerStart ==
  /\ wpc = "start"
  /\ \/ /\ dac \/ dacInit                             \* INVALID_STATE
        /\ wpc' = "end" /\ UNCHANGED codec
     \/ /\ ~dac /\ ~dacInit
        /\ \/ wpc' = "end" /\ UNCHANGED codec         \* no device
           \/ /\ dacInit' = TRUE /\ wpc' = "end"      \* no handle, or no codec
              /\ dac' \in BOOLEAN /\ UNCHANGED codecOpen
           \/ /\ dacInit' = TRUE /\ dac' = TRUE /\ codecOpen' = TRUE
              /\ wpc' \in {"announce", "end"}         \* open or volume failed
  /\ UNCHANGED <<ready, events, write>>
  /\ WorkerSame

WorkerAnnounce ==
  /\ wpc = "announce"
  /\ ready' = TRUE
  /\ wpc' = "raise"
  /\ UNCHANGED <<events, codec, write>>
  /\ WorkerSame

WorkerRaise ==
  /\ wpc = "raise"
  /\ readyBit' = TRUE
  /\ wpc' = "loop"
  /\ UNCHANGED <<doneBit, ready, codec, write>>
  /\ WorkerSame

\* while (!stopping)
WorkerLoop ==
  /\ wpc = "loop"
  /\ wpc' = IF stopping THEN "end" ELSE "pull"
  /\ UNCHANGED <<ready, events, codec, write>>
  /\ WorkerSame

\* pull fills the next chunk, whatever is left of the last one.
WorkerPull ==
  /\ wpc = "pull"
  /\ lost' = (lost \/ written < Chunk)
  /\ written' = 0 /\ stalled' = 0
  /\ wpc' = "check"
  /\ UNCHANGED <<ready, events, codec>>
  /\ WorkerSame

\* The loop test and should_stop of platform_audio_write_all.
WorkerCheck ==
  /\ wpc = "check"
  /\ wpc' = IF written = Chunk THEN "loop"
            ELSE IF stopping THEN "end" ELSE "write"
  /\ UNCHANGED <<ready, events, codec, write>>
  /\ WorkerSame

Patient == stalled < MaxNoProgress

\* backend.write returns: some progress, none, none too often, or an error.
WorkerWrite ==
  /\ wpc = "write"
  /\ UNCHANGED <<ready, events, codec, lost>>
  /\ WorkerSame
  /\ \/ \E n \in 1 .. Chunk - written :
          /\ written' = written + n
          /\ stalled' = 0
          /\ wpc' \in {"check", "end"}
     \/ /\ stalled' = stalled + 1
        /\ Patient
        /\ wpc' \in {"check", "end"}
        /\ UNCHANGED written
     \/ /\ ~Patient
        /\ wpc' \in {"backoff", "end"}                \* OK, BUSY or TIMEOUT
        /\ UNCHANGED <<written, stalled>>

\* An underrun: wait for a notification or 2 ms, then go on.
WorkerBackoff ==
  /\ wpc = "backoff"
  /\ wpc' = "loop"
  /\ UNCHANGED <<ready, events, codec, write>>
  /\ WorkerSame

WorkerEnd ==
  /\ wpc = "end"
  /\ ready' = FALSE
  /\ wpc' = "done"
  /\ UNCHANGED <<events, codec, write>>
  /\ WorkerSame

\* DONE is set, then the task suspends itself until it is deleted.
WorkerDone ==
  /\ wpc = "done"
  /\ doneBit' = TRUE
  /\ wpc' = "suspended"
  /\ UNCHANGED <<readyBit, ready, codec, write>>
  /\ WorkerSame

------------------------------------------------------------------------------
(* The specification.                                                      *)

GameStep ==
  CreateMixer \/ Launch \/ AwaitStart \/ StopAsk \/ Join \/ JoinTimeout
    \/ Release \/ Destroy

Worker ==
  WorkerStart \/ WorkerAnnounce \/ WorkerRaise \/ WorkerLoop \/ WorkerPull
    \/ WorkerCheck \/ WorkerWrite \/ WorkerBackoff \/ WorkerEnd \/ WorkerDone

Next == InitDevice \/ Shutdown \/ GameStep \/ Worker

Spec == Init /\ [][Next]_vars

\* The game thread finishes a call it began; codec calls return, so the worker
\* keeps running.
FairSpec == Spec /\ WF_vars(GameStep) /\ WF_vars(Worker)

------------------------------------------------------------------------------
(* Properties.                                                             *)

Playing == {"pull", "check", "write", "backoff"}

TypeOK ==
  /\ service \in BOOLEAN /\ mixer \in BOOLEAN
  /\ task \in BOOLEAN /\ cleanup \in BOOLEAN
  /\ stopping \in BOOLEAN /\ ready \in BOOLEAN
  /\ readyBit \in BOOLEAN /\ doneBit \in BOOLEAN
  /\ dacInit \in BOOLEAN /\ dac \in BOOLEAN /\ codecOpen \in BOOLEAN
  /\ gpc \in {"idle", "mixer", "launch", "await", "stop", "join", "release",
              "destroy"}
  /\ down \in {"none", "OK", "TIMEOUT", "PLATFORM_ERROR"}
  /\ wpc \in Playing \cup {"none", "start", "announce", "raise", "loop",
                           "end", "done", "suspended"}
  /\ written \in 0 .. Chunk /\ stalled \in 0 .. MaxNoProgress
  /\ lost \in BOOLEAN

\* A worker that may still pull finds its mixer, and one that exists at all
\* finds the service's mutex and event group: a shutdown that times out frees
\* neither.
WorkerMemory == wpc # "none" => service /\ mixer /\ task

\* The game thread releases the codec only when no worker can use it.
CodecExclusive == gpc \in {"release", "destroy"} => wpc = "none"

\* DONE means no more PCM access: the task the game thread deletes is one that
\* has suspended itself, not a later worker that found the bit still set.
DoneMeansStopped == task /\ doneBit => wpc = "suspended"

\* Whatever a codec start, complete or not, left behind is still to be
\* released by a service that exists; and no worker ever starts on it.
CodecReleased ==
  /\ dacInit \/ dac \/ codecOpen => service /\ cleanup
  /\ wpc = "start" => ~dacInit /\ ~dac /\ ~codecOpen

\* An open codec has its handle, so that a close that failed can be retried;
\* a deinitialised device leaves no handle to it.
HandleValid ==
  /\ codecOpen => dac
  /\ dac => dacInit

\* IsAudioDeviceReady answers yes only while the codec plays.
ReadyMeansPlaying ==
  ready => codecOpen /\ wpc \in Playing \cup {"raise", "loop", "end"}

\* A shutdown that answers OK leaves nothing behind; one that does not keeps
\* worker, mixer and service together for a retry.
ShutdownComplete ==
  gpc = "idle" =>
    /\ service <=> mixer
    /\ down = "OK" => ~service /\ ~task /\ ~cleanup /\ ~dacInit /\ wpc = "none"

\* No call order leaves a codec that nothing will release: a partial start is
\* released by a later cleanup, and a shutdown is all or nothing.
CleanupIsWhole == CodecReleased /\ ShutdownComplete

\* raylib_lite_audio.h, of a write that made no progress: "The caller retains
\* the input buffer after return and must retry any unwritten suffix."
SuffixRetried == ~lost

\* What the proofs add: who exists at each point of the game thread's calls.
Stages ==
  /\ task <=> wpc # "none"
  /\ task => cleanup
  /\ cleanup => service /\ mixer
  /\ gpc # "idle" => service
  /\ gpc \in {"mixer", "launch", "destroy"} => ~cleanup
  /\ gpc = "mixer" => ~mixer
  /\ gpc = "launch" => mixer
  /\ gpc \in {"await", "join"} => task
  /\ gpc = "release" => ~task
  /\ gpc = "idle" => (service <=> mixer)
  /\ down = "OK" => ~service
  /\ ready \/ wpc \in Playing \cup {"announce", "raise", "loop"} => codecOpen

Inductive ==
  /\ TypeOK
  /\ Stages
  /\ WorkerMemory
  /\ CodecExclusive
  /\ DoneMeansStopped
  /\ CodecReleased
  /\ HandleValid
  /\ ReadyMeansPlaying
  /\ ShutdownComplete

\* A worker that the game thread joins says DONE, whatever the codec answers,
\* even when the join itself has given up.
StopIsSeen == gpc = "join" ~> doneBit \/ ~task

==============================================================================
