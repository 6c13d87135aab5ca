-------------------------- MODULE AudioServiceProofs --------------------------
(***************************************************************************)
(* Proofs about AudioService: the inductive invariant and the properties   *)
(* it implies, for every chunk length and patience.                        *)
(***************************************************************************)
EXTENDS AudioService, TLAPS

USE ServiceAssumption
USE DEF Playing, facade, handle, events, codec, write

\* A device that was never opened satisfies the invariant.
LEMMA InitInductive == Init => Inductive
<1> SUFFICES ASSUME Init PROVE Inductive
  OBVIOUS
<1>1. TypeOK
  <2>1. Chunk \in 0 .. Chunk /\ 0 \in 0 .. MaxNoProgress
    OBVIOUS
  <2> QED
    BY <2>1, Zenon DEF Init, TypeOK
<1>2. Stages
  BY DEF Init, Stages
<1>3. WorkerMemory
  BY DEF Init, WorkerMemory
<1>4. CodecExclusive
  BY DEF Init, CodecExclusive
<1>5. DoneMeansStopped
  BY DEF Init, DoneMeansStopped
<1>6. CodecReleased
  BY DEF Init, CodecReleased
<1>7. HandleValid
  BY DEF Init, HandleValid
<1>8. ReadyMeansPlaying
  BY DEF Init, ReadyMeansPlaying
<1>9. ShutdownComplete
  BY DEF Init, ShutdownComplete
<1> QED
  BY <1>1, <1>2, <1>3, <1>4, <1>5, <1>6, <1>7, <1>8, <1>9 DEF Inductive

\* Step InitDevice: a device is created where there was none.
LEMMA InitDeviceInductive == Inductive /\ InitDevice => Inductive'
<1> SUFFICES ASSUME Inductive, InitDevice PROVE Inductive'
  OBVIOUS
<1> USE DEF Inductive, InitDevice
<1>1. TypeOK'
  BY DEF TypeOK, Stages
<1>2. Stages'
  BY DEF TypeOK, Stages, ReadyMeansPlaying, CodecExclusive, CodecReleased, ShutdownComplete, DoneMeansStopped
<1>3. WorkerMemory'
  BY DEF TypeOK, Stages, WorkerMemory
<1>4. CodecExclusive'
  BY DEF TypeOK, Stages, CodecExclusive
<1>5. DoneMeansStopped'
  BY DEF TypeOK, Stages, DoneMeansStopped
<1>6. CodecReleased'
  BY DEF TypeOK, Stages, CodecReleased
<1>7. HandleValid'
  BY DEF TypeOK, Stages, HandleValid
<1>8. ReadyMeansPlaying'
  BY DEF TypeOK, Stages, ReadyMeansPlaying, CodecExclusive, DoneMeansStopped, CodecReleased
<1>9. ShutdownComplete'
  BY DEF TypeOK, Stages, CodecReleased, ShutdownComplete
<1> QED
  BY <1>1, <1>2, <1>3, <1>4, <1>5, <1>6, <1>7, <1>8, <1>9

\* Step CreateMixer: the mixer exists, or the device is on its way out.
LEMMA CreateMixerInductive == Inductive /\ CreateMixer => Inductive'
<1> SUFFICES ASSUME Inductive, CreateMixer PROVE Inductive'
  OBVIOUS
<1> USE DEF Inductive, CreateMixer
<1>1. TypeOK'
  BY DEF TypeOK, Stages
<1>2. Stages'
  BY DEF TypeOK, Stages, ReadyMeansPlaying, CodecExclusive, CodecReleased, ShutdownComplete, DoneMeansStopped
<1>3. WorkerMemory'
  BY DEF TypeOK, Stages, WorkerMemory
<1>4. CodecExclusive'
  BY DEF TypeOK, Stages, CodecExclusive
<1>5. DoneMeansStopped'
  BY DEF TypeOK, Stages, DoneMeansStopped
<1>6. CodecReleased'
  BY DEF TypeOK, Stages, CodecReleased
<1>7. HandleValid'
  BY DEF TypeOK, Stages, HandleValid
<1>8. ReadyMeansPlaying'
  BY DEF TypeOK, Stages, ReadyMeansPlaying, CodecExclusive, DoneMeansStopped, CodecReleased
<1>9. ShutdownComplete'
  BY DEF TypeOK, Stages, CodecReleased, ShutdownComplete
<1> QED
  BY <1>1, <1>2, <1>3, <1>4, <1>5, <1>6, <1>7, <1>8, <1>9

\* Step Launch: a worker starts on cleared bits and a clean codec.
LEMMA LaunchInductive == Inductive /\ Launch => Inductive'
<1> SUFFICES ASSUME Inductive, Launch PROVE Inductive'
  OBVIOUS
<1> USE DEF Inductive, Launch, ClearBits
<1>1. TypeOK'
  <2>1. Chunk \in 0 .. Chunk /\ 0 \in 0 .. MaxNoProgress
    OBVIOUS
  <2> QED
    BY <2>1 DEF TypeOK, Stages
<1>2. Stages'
  BY DEF TypeOK, Stages, ReadyMeansPlaying, CodecExclusive, CodecReleased, ShutdownComplete, DoneMeansStopped
<1>3. WorkerMemory'
  BY DEF TypeOK, Stages, WorkerMemory
<1>4. CodecExclusive'
  BY DEF TypeOK, Stages, CodecExclusive
<1>5. DoneMeansStopped'
  BY DEF TypeOK, Stages, DoneMeansStopped
<1>6. CodecReleased'
  BY DEF TypeOK, Stages, CodecReleased
<1>7. HandleValid'
  BY DEF TypeOK, Stages, HandleValid
<1>8. ReadyMeansPlaying'
  BY DEF TypeOK, Stages, ReadyMeansPlaying, CodecExclusive, DoneMeansStopped, CodecReleased
<1>9. ShutdownComplete'
  BY DEF TypeOK, Stages, CodecReleased, ShutdownComplete
<1> QED
  BY <1>1, <1>2, <1>3, <1>4, <1>5, <1>6, <1>7, <1>8, <1>9

\* Step AwaitStart: only READY alone lets the call return.
LEMMA AwaitStartInductive == Inductive /\ AwaitStart => Inductive'
<1> SUFFICES ASSUME Inductive, AwaitStart PROVE Inductive'
  OBVIOUS
<1> USE DEF Inductive, AwaitStart
<1>1. TypeOK'
  BY DEF TypeOK, Stages
<1>2. Stages'
  BY DEF TypeOK, Stages, ReadyMeansPlaying, CodecExclusive, CodecReleased, ShutdownComplete, DoneMeansStopped
<1>3. WorkerMemory'
  BY DEF TypeOK, Stages, WorkerMemory
<1>4. CodecExclusive'
  BY DEF TypeOK, Stages, CodecExclusive
<1>5. DoneMeansStopped'
  BY DEF TypeOK, Stages, DoneMeansStopped
<1>6. CodecReleased'
  BY DEF TypeOK, Stages, CodecReleased
<1>7. HandleValid'
  BY DEF TypeOK, Stages, HandleValid
<1>8. ReadyMeansPlaying'
  BY DEF TypeOK, Stages, ReadyMeansPlaying, CodecExclusive, DoneMeansStopped, CodecReleased
<1>9. ShutdownComplete'
  BY DEF TypeOK, Stages, CodecReleased, ShutdownComplete
<1> QED
  BY <1>1, <1>2, <1>3, <1>4, <1>5, <1>6, <1>7, <1>8, <1>9

\* Step Shutdown: a shutdown begins, or finds nothing to do.
LEMMA ShutdownInductive == Inductive /\ Shutdown => Inductive'
<1> SUFFICES ASSUME Inductive, Shutdown PROVE Inductive'
  OBVIOUS
<1> USE DEF Inductive, Shutdown
<1>1. TypeOK'
  BY DEF TypeOK, Stages
<1>2. Stages'
  BY DEF TypeOK, Stages, ReadyMeansPlaying, CodecExclusive, CodecReleased, ShutdownComplete, DoneMeansStopped
<1>3. WorkerMemory'
  BY DEF TypeOK, Stages, WorkerMemory
<1>4. CodecExclusive'
  BY DEF TypeOK, Stages, CodecExclusive
<1>5. DoneMeansStopped'
  BY DEF TypeOK, Stages, DoneMeansStopped
<1>6. CodecReleased'
  BY DEF TypeOK, Stages, CodecReleased
<1>7. HandleValid'
  BY DEF TypeOK, Stages, HandleValid
<1>8. ReadyMeansPlaying'
  BY DEF TypeOK, Stages, ReadyMeansPlaying, CodecExclusive, DoneMeansStopped, CodecReleased
<1>9. ShutdownComplete'
  BY DEF TypeOK, Stages, CodecReleased, ShutdownComplete
<1> QED
  BY <1>1, <1>2, <1>3, <1>4, <1>5, <1>6, <1>7, <1>8, <1>9

\* Step StopAsk: without a worker the codec is released at once.
LEMMA StopAskInductive == Inductive /\ StopAsk => Inductive'
<1> SUFFICES ASSUME Inductive, StopAsk PROVE Inductive'
  OBVIOUS
<1> USE DEF Inductive, StopAsk
<1>1. TypeOK'
  BY DEF TypeOK, Stages
<1>2. Stages'
  BY DEF TypeOK, Stages, ReadyMeansPlaying, CodecExclusive, CodecReleased, ShutdownComplete, DoneMeansStopped
<1>3. WorkerMemory'
  BY DEF TypeOK, Stages, WorkerMemory
<1>4. CodecExclusive'
  BY DEF TypeOK, Stages, CodecExclusive
<1>5. DoneMeansStopped'
  BY DEF TypeOK, Stages, DoneMeansStopped
<1>6. CodecReleased'
  BY DEF TypeOK, Stages, CodecReleased
<1>7. HandleValid'
  BY DEF TypeOK, Stages, HandleValid
<1>8. ReadyMeansPlaying'
  BY DEF TypeOK, Stages, ReadyMeansPlaying, CodecExclusive, DoneMeansStopped, CodecReleased
<1>9. ShutdownComplete'
  BY DEF TypeOK, Stages, CodecReleased, ShutdownComplete
<1> QED
  BY <1>1, <1>2, <1>3, <1>4, <1>5, <1>6, <1>7, <1>8, <1>9

\* Step Join: the worker deleted has suspended itself.
LEMMA JoinInductive == Inductive /\ Join => Inductive'
<1> SUFFICES ASSUME Inductive, Join PROVE Inductive'
  OBVIOUS
<1> USE DEF Inductive, Join
<1>1. TypeOK'
  BY DEF TypeOK, Stages
<1>2. Stages'
  BY DEF TypeOK, Stages, ReadyMeansPlaying, CodecExclusive, CodecReleased, ShutdownComplete, DoneMeansStopped
<1>3. WorkerMemory'
  BY DEF TypeOK, Stages, WorkerMemory
<1>4. CodecExclusive'
  BY DEF TypeOK, Stages, CodecExclusive
<1>5. DoneMeansStopped'
  BY DEF TypeOK, Stages, DoneMeansStopped
<1>6. CodecReleased'
  BY DEF TypeOK, Stages, CodecReleased
<1>7. HandleValid'
  BY DEF TypeOK, Stages, HandleValid
<1>8. ReadyMeansPlaying'
  BY DEF TypeOK, Stages, ReadyMeansPlaying, CodecExclusive, DoneMeansStopped, CodecReleased
<1>9. ShutdownComplete'
  BY DEF TypeOK, Stages, CodecReleased, ShutdownComplete
<1> QED
  BY <1>1, <1>2, <1>3, <1>4, <1>5, <1>6, <1>7, <1>8, <1>9

\* Step JoinTimeout: a join that gives up keeps everything.
LEMMA JoinTimeoutInductive == Inductive /\ JoinTimeout => Inductive'
<1> SUFFICES ASSUME Inductive, JoinTimeout PROVE Inductive'
  OBVIOUS
<1> USE DEF Inductive, JoinTimeout
<1>1. TypeOK'
  BY DEF TypeOK, Stages
<1>2. Stages'
  BY DEF TypeOK, Stages, ReadyMeansPlaying, CodecExclusive, CodecReleased, ShutdownComplete, DoneMeansStopped
<1>3. WorkerMemory'
  BY DEF TypeOK, Stages, WorkerMemory
<1>4. CodecExclusive'
  BY DEF TypeOK, Stages, CodecExclusive
<1>5. DoneMeansStopped'
  BY DEF TypeOK, Stages, DoneMeansStopped
<1>6. CodecReleased'
  BY DEF TypeOK, Stages, CodecReleased
<1>7. HandleValid'
  BY DEF TypeOK, Stages, HandleValid
<1>8. ReadyMeansPlaying'
  BY DEF TypeOK, Stages, ReadyMeansPlaying, CodecExclusive, DoneMeansStopped, CodecReleased
<1>9. ShutdownComplete'
  BY DEF TypeOK, Stages, CodecReleased, ShutdownComplete
<1> QED
  BY <1>1, <1>2, <1>3, <1>4, <1>5, <1>6, <1>7, <1>8, <1>9

\* Step Release: the codec is released while no worker exists.
LEMMA ReleaseInductive == Inductive /\ Release => Inductive'
<1> SUFFICES ASSUME Inductive, Release PROVE Inductive'
  OBVIOUS
<1> USE DEF Inductive, Release, ReleaseDac, Settle
<1>1. TypeOK'
  <2>1. dacInit' \in BOOLEAN /\ dac' \in BOOLEAN /\ codecOpen' \in BOOLEAN
    BY Zenon DEF TypeOK
  <2>2. gpc' \in {"idle", "destroy"} /\ down' \in {down, "PLATFORM_ERROR"}
        /\ cleanup' \in BOOLEAN
    BY Zenon DEF TypeOK
  <2>3. UNCHANGED <<facade, task, stopping, ready, events, wpc, write>>
    OBVIOUS
  <2> QED
    BY <2>1, <2>2, <2>3 DEF TypeOK
<1>2. Stages'
  BY DEF TypeOK, Stages, ReadyMeansPlaying, CodecExclusive, CodecReleased, ShutdownComplete, DoneMeansStopped
<1>3. WorkerMemory'
  BY DEF TypeOK, Stages, WorkerMemory
<1>4. CodecExclusive'
  BY DEF TypeOK, Stages, CodecExclusive
<1>5. DoneMeansStopped'
  BY DEF TypeOK, Stages, DoneMeansStopped
<1>6. CodecReleased'
  BY DEF TypeOK, Stages, CodecReleased
<1>7. HandleValid'
  BY DEF TypeOK, Stages, HandleValid
<1>8. ReadyMeansPlaying'
  BY DEF TypeOK, Stages, ReadyMeansPlaying, CodecExclusive, DoneMeansStopped, CodecReleased
<1>9. ShutdownComplete'
  BY DEF TypeOK, Stages, CodecReleased, ShutdownComplete
<1> QED
  BY <1>1, <1>2, <1>3, <1>4, <1>5, <1>6, <1>7, <1>8, <1>9

\* Step Destroy: the mixer and the service go last.
LEMMA DestroyInductive == Inductive /\ Destroy => Inductive'
<1> SUFFICES ASSUME Inductive, Destroy PROVE Inductive'
  OBVIOUS
<1> USE DEF Inductive, Destroy
<1>1. TypeOK'
  BY DEF TypeOK, Stages
<1>2. Stages'
  BY DEF TypeOK, Stages, ReadyMeansPlaying, CodecExclusive, CodecReleased, ShutdownComplete, DoneMeansStopped
<1>3. WorkerMemory'
  BY DEF TypeOK, Stages, WorkerMemory
<1>4. CodecExclusive'
  BY DEF TypeOK, Stages, CodecExclusive
<1>5. DoneMeansStopped'
  BY DEF TypeOK, Stages, DoneMeansStopped
<1>6. CodecReleased'
  BY DEF TypeOK, Stages, CodecReleased
<1>7. HandleValid'
  BY DEF TypeOK, Stages, HandleValid
<1>8. ReadyMeansPlaying'
  BY DEF TypeOK, Stages, ReadyMeansPlaying, CodecExclusive, DoneMeansStopped, CodecReleased
<1>9. ShutdownComplete'
  BY DEF TypeOK, Stages, CodecReleased, ShutdownComplete
<1> QED
  BY <1>1, <1>2, <1>3, <1>4, <1>5, <1>6, <1>7, <1>8, <1>9

\* Step WorkerStart: every outcome of codec_start is covered by the cleanup flag.
LEMMA WorkerStartInductive == Inductive /\ WorkerStart => Inductive'
<1> SUFFICES ASSUME Inductive, WorkerStart PROVE Inductive'
  OBVIOUS
<1> USE DEF Inductive, WorkerStart, WorkerSame
<1>1. TypeOK'
  <2>1. dacInit' \in BOOLEAN /\ dac' \in BOOLEAN /\ codecOpen' \in BOOLEAN
    BY Zenon DEF TypeOK
  <2>2. wpc' \in {"announce", "end"}
    BY Zenon DEF TypeOK
  <2>3. UNCHANGED <<facade, handle, stopping, ready, events, gpc, down, write>>
    OBVIOUS
  <2> QED
    BY <2>1, <2>2, <2>3 DEF TypeOK
<1>2. Stages'
  BY DEF TypeOK, Stages, ReadyMeansPlaying, CodecExclusive, CodecReleased, ShutdownComplete, DoneMeansStopped
<1>3. WorkerMemory'
  BY DEF TypeOK, Stages, WorkerMemory
<1>4. CodecExclusive'
  BY DEF TypeOK, Stages, CodecExclusive
<1>5. DoneMeansStopped'
  BY DEF TypeOK, Stages, DoneMeansStopped
<1>6. CodecReleased'
  BY DEF TypeOK, Stages, CodecReleased
<1>7. HandleValid'
  BY DEF TypeOK, Stages, HandleValid
<1>8. ReadyMeansPlaying'
  BY DEF TypeOK, Stages, ReadyMeansPlaying, CodecExclusive, DoneMeansStopped, CodecReleased
<1>9. ShutdownComplete'
  BY DEF TypeOK, Stages, CodecReleased, ShutdownComplete
<1> QED
  BY <1>1, <1>2, <1>3, <1>4, <1>5, <1>6, <1>7, <1>8, <1>9

\* Step WorkerAnnounce: the codec is open when the worker says it is ready.
LEMMA WorkerAnnounceInductive == Inductive /\ WorkerAnnounce => Inductive'
<1> SUFFICES ASSUME Inductive, WorkerAnnounce PROVE Inductive'
  OBVIOUS
<1> USE DEF Inductive, WorkerAnnounce, WorkerSame
<1>1. TypeOK'
  BY DEF TypeOK, Stages
<1>2. Stages'
  BY DEF TypeOK, Stages, ReadyMeansPlaying, CodecExclusive, CodecReleased, ShutdownComplete, DoneMeansStopped
<1>3. WorkerMemory'
  BY DEF TypeOK, Stages, WorkerMemory
<1>4. CodecExclusive'
  BY DEF TypeOK, Stages, CodecExclusive
<1>5. DoneMeansStopped'
  BY DEF TypeOK, Stages, DoneMeansStopped
<1>6. CodecReleased'
  BY DEF TypeOK, Stages, CodecReleased
<1>7. HandleValid'
  BY DEF TypeOK, Stages, HandleValid
<1>8. ReadyMeansPlaying'
  BY DEF TypeOK, Stages, ReadyMeansPlaying, CodecExclusive, DoneMeansStopped, CodecReleased
<1>9. ShutdownComplete'
  BY DEF TypeOK, Stages, CodecReleased, ShutdownComplete
<1> QED
  BY <1>1, <1>2, <1>3, <1>4, <1>5, <1>6, <1>7, <1>8, <1>9

\* Step WorkerRaise: READY follows.
LEMMA WorkerRaiseInductive == Inductive /\ WorkerRaise => Inductive'
<1> SUFFICES ASSUME Inductive, WorkerRaise PROVE Inductive'
  OBVIOUS
<1> USE DEF Inductive, WorkerRaise, WorkerSame
<1>1. TypeOK'
  BY DEF TypeOK, Stages
<1>2. Stages'
  BY DEF TypeOK, Stages, ReadyMeansPlaying, CodecExclusive, CodecReleased, ShutdownComplete, DoneMeansStopped
<1>3. WorkerMemory'
  BY DEF TypeOK, Stages, WorkerMemory
<1>4. CodecExclusive'
  BY DEF TypeOK, Stages, CodecExclusive
<1>5. DoneMeansStopped'
  BY DEF TypeOK, Stages, DoneMeansStopped
<1>6. CodecReleased'
  BY DEF TypeOK, Stages, CodecReleased
<1>7. HandleValid'
  BY DEF TypeOK, Stages, HandleValid
<1>8. ReadyMeansPlaying'
  BY DEF TypeOK, Stages, ReadyMeansPlaying, CodecExclusive, DoneMeansStopped, CodecReleased
<1>9. ShutdownComplete'
  BY DEF TypeOK, Stages, CodecReleased, ShutdownComplete
<1> QED
  BY <1>1, <1>2, <1>3, <1>4, <1>5, <1>6, <1>7, <1>8, <1>9

\* Step WorkerLoop: the worker goes on, or ends.
LEMMA WorkerLoopInductive == Inductive /\ WorkerLoop => Inductive'
<1> SUFFICES ASSUME Inductive, WorkerLoop PROVE Inductive'
  OBVIOUS
<1> USE DEF Inductive, WorkerLoop, WorkerSame
<1>1. TypeOK'
  BY DEF TypeOK, Stages
<1>2. Stages'
  BY DEF TypeOK, Stages, ReadyMeansPlaying, CodecExclusive, CodecReleased, ShutdownComplete, DoneMeansStopped
<1>3. WorkerMemory'
  BY DEF TypeOK, Stages, WorkerMemory
<1>4. CodecExclusive'
  BY DEF TypeOK, Stages, CodecExclusive
<1>5. DoneMeansStopped'
  BY DEF TypeOK, Stages, DoneMeansStopped
<1>6. CodecReleased'
  BY DEF TypeOK, Stages, CodecReleased
<1>7. HandleValid'
  BY DEF TypeOK, Stages, HandleValid
<1>8. ReadyMeansPlaying'
  BY DEF TypeOK, Stages, ReadyMeansPlaying, CodecExclusive, DoneMeansStopped, CodecReleased
<1>9. ShutdownComplete'
  BY DEF TypeOK, Stages, CodecReleased, ShutdownComplete
<1> QED
  BY <1>1, <1>2, <1>3, <1>4, <1>5, <1>6, <1>7, <1>8, <1>9

\* Step WorkerPull: a new chunk.
LEMMA WorkerPullInductive == Inductive /\ WorkerPull => Inductive'
<1> SUFFICES ASSUME Inductive, WorkerPull PROVE Inductive'
  OBVIOUS
<1> USE DEF Inductive, WorkerPull, WorkerSame
<1>1. TypeOK'
  BY DEF TypeOK, Stages
<1>2. Stages'
  BY DEF TypeOK, Stages, ReadyMeansPlaying, CodecExclusive, CodecReleased, ShutdownComplete, DoneMeansStopped
<1>3. WorkerMemory'
  BY DEF TypeOK, Stages, WorkerMemory
<1>4. CodecExclusive'
  BY DEF TypeOK, Stages, CodecExclusive
<1>5. DoneMeansStopped'
  BY DEF TypeOK, Stages, DoneMeansStopped
<1>6. CodecReleased'
  BY DEF TypeOK, Stages, CodecReleased
<1>7. HandleValid'
  BY DEF TypeOK, Stages, HandleValid
<1>8. ReadyMeansPlaying'
  BY DEF TypeOK, Stages, ReadyMeansPlaying, CodecExclusive, DoneMeansStopped, CodecReleased
<1>9. ShutdownComplete'
  BY DEF TypeOK, Stages, CodecReleased, ShutdownComplete
<1> QED
  BY <1>1, <1>2, <1>3, <1>4, <1>5, <1>6, <1>7, <1>8, <1>9

\* Step WorkerCheck: the loop test of the short-write loop.
LEMMA WorkerCheckInductive == Inductive /\ WorkerCheck => Inductive'
<1> SUFFICES ASSUME Inductive, WorkerCheck PROVE Inductive'
  OBVIOUS
<1> USE DEF Inductive, WorkerCheck, WorkerSame
<1>1. TypeOK'
  BY DEF TypeOK, Stages
<1>2. Stages'
  BY DEF TypeOK, Stages, ReadyMeansPlaying, CodecExclusive, CodecReleased, ShutdownComplete, DoneMeansStopped
<1>3. WorkerMemory'
  BY DEF TypeOK, Stages, WorkerMemory
<1>4. CodecExclusive'
  BY DEF TypeOK, Stages, CodecExclusive
<1>5. DoneMeansStopped'
  BY DEF TypeOK, Stages, DoneMeansStopped
<1>6. CodecReleased'
  BY DEF TypeOK, Stages, CodecReleased
<1>7. HandleValid'
  BY DEF TypeOK, Stages, HandleValid
<1>8. ReadyMeansPlaying'
  BY DEF TypeOK, Stages, ReadyMeansPlaying, CodecExclusive, DoneMeansStopped, CodecReleased
<1>9. ShutdownComplete'
  BY DEF TypeOK, Stages, CodecReleased, ShutdownComplete
<1> QED
  BY <1>1, <1>2, <1>3, <1>4, <1>5, <1>6, <1>7, <1>8, <1>9

\* Step WorkerWrite: progress never passes the end of the chunk.
LEMMA WorkerWriteInductive == Inductive /\ WorkerWrite => Inductive'
<1> SUFFICES ASSUME Inductive, WorkerWrite PROVE Inductive'
  OBVIOUS
<1> USE DEF Inductive, WorkerWrite, Patient, WorkerSame
<1>1. TypeOK'
  BY DEF TypeOK, Stages
<1>2. Stages'
  BY DEF TypeOK, Stages, ReadyMeansPlaying, CodecExclusive, CodecReleased, ShutdownComplete, DoneMeansStopped
<1>3. WorkerMemory'
  BY DEF TypeOK, Stages, WorkerMemory
<1>4. CodecExclusive'
  BY DEF TypeOK, Stages, CodecExclusive
<1>5. DoneMeansStopped'
  BY DEF TypeOK, Stages, DoneMeansStopped
<1>6. CodecReleased'
  BY DEF TypeOK, Stages, CodecReleased
<1>7. HandleValid'
  BY DEF TypeOK, Stages, HandleValid
<1>8. ReadyMeansPlaying'
  BY DEF TypeOK, Stages, ReadyMeansPlaying, CodecExclusive, DoneMeansStopped, CodecReleased
<1>9. ShutdownComplete'
  BY DEF TypeOK, Stages, CodecReleased, ShutdownComplete
<1> QED
  BY <1>1, <1>2, <1>3, <1>4, <1>5, <1>6, <1>7, <1>8, <1>9

\* Step WorkerBackoff: the worker waits after an underrun.
LEMMA WorkerBackoffInductive == Inductive /\ WorkerBackoff => Inductive'
<1> SUFFICES ASSUME Inductive, WorkerBackoff PROVE Inductive'
  OBVIOUS
<1> USE DEF Inductive, WorkerBackoff, WorkerSame
<1>1. TypeOK'
  BY DEF TypeOK, Stages
<1>2. Stages'
  BY DEF TypeOK, Stages, ReadyMeansPlaying, CodecExclusive, CodecReleased, ShutdownComplete, DoneMeansStopped
<1>3. WorkerMemory'
  BY DEF TypeOK, Stages, WorkerMemory
<1>4. CodecExclusive'
  BY DEF TypeOK, Stages, CodecExclusive
<1>5. DoneMeansStopped'
  BY DEF TypeOK, Stages, DoneMeansStopped
<1>6. CodecReleased'
  BY DEF TypeOK, Stages, CodecReleased
<1>7. HandleValid'
  BY DEF TypeOK, Stages, HandleValid
<1>8. ReadyMeansPlaying'
  BY DEF TypeOK, Stages, ReadyMeansPlaying, CodecExclusive, DoneMeansStopped, CodecReleased
<1>9. ShutdownComplete'
  BY DEF TypeOK, Stages, CodecReleased, ShutdownComplete
<1> QED
  BY <1>1, <1>2, <1>3, <1>4, <1>5, <1>6, <1>7, <1>8, <1>9

\* Step WorkerEnd: the device is no longer ready.
LEMMA WorkerEndInductive == Inductive /\ WorkerEnd => Inductive'
<1> SUFFICES ASSUME Inductive, WorkerEnd PROVE Inductive'
  OBVIOUS
<1> USE DEF Inductive, WorkerEnd, WorkerSame
<1>1. TypeOK'
  BY DEF TypeOK, Stages
<1>2. Stages'
  BY DEF TypeOK, Stages, ReadyMeansPlaying, CodecExclusive, CodecReleased, ShutdownComplete, DoneMeansStopped
<1>3. WorkerMemory'
  BY DEF TypeOK, Stages, WorkerMemory
<1>4. CodecExclusive'
  BY DEF TypeOK, Stages, CodecExclusive
<1>5. DoneMeansStopped'
  BY DEF TypeOK, Stages, DoneMeansStopped
<1>6. CodecReleased'
  BY DEF TypeOK, Stages, CodecReleased
<1>7. HandleValid'
  BY DEF TypeOK, Stages, HandleValid
<1>8. ReadyMeansPlaying'
  BY DEF TypeOK, Stages, ReadyMeansPlaying, CodecExclusive, DoneMeansStopped, CodecReleased
<1>9. ShutdownComplete'
  BY DEF TypeOK, Stages, CodecReleased, ShutdownComplete
<1> QED
  BY <1>1, <1>2, <1>3, <1>4, <1>5, <1>6, <1>7, <1>8, <1>9

\* Step WorkerDone: DONE comes after the last use of the codec.
LEMMA WorkerDoneInductive == Inductive /\ WorkerDone => Inductive'
<1> SUFFICES ASSUME Inductive, WorkerDone PROVE Inductive'
  OBVIOUS
<1> USE DEF Inductive, WorkerDone, WorkerSame
<1>1. TypeOK'
  BY DEF TypeOK, Stages
<1>2. Stages'
  BY DEF TypeOK, Stages, ReadyMeansPlaying, CodecExclusive, CodecReleased, ShutdownComplete, DoneMeansStopped
<1>3. WorkerMemory'
  BY DEF TypeOK, Stages, WorkerMemory
<1>4. CodecExclusive'
  BY DEF TypeOK, Stages, CodecExclusive
<1>5. DoneMeansStopped'
  BY DEF TypeOK, Stages, DoneMeansStopped
<1>6. CodecReleased'
  BY DEF TypeOK, Stages, CodecReleased
<1>7. HandleValid'
  BY DEF TypeOK, Stages, HandleValid
<1>8. ReadyMeansPlaying'
  BY DEF TypeOK, Stages, ReadyMeansPlaying, CodecExclusive, DoneMeansStopped, CodecReleased
<1>9. ShutdownComplete'
  BY DEF TypeOK, Stages, CodecReleased, ShutdownComplete
<1> QED
  BY <1>1, <1>2, <1>3, <1>4, <1>5, <1>6, <1>7, <1>8, <1>9

\* Every step keeps the invariant.
LEMMA NextInductive == Inductive /\ [Next]_vars => Inductive'
<1> SUFFICES ASSUME Inductive, [Next]_vars PROVE Inductive'
  OBVIOUS
<1>1. CASE UNCHANGED vars
  BY <1>1 DEF vars, Inductive, TypeOK, Stages, WorkerMemory, CodecExclusive,
              DoneMeansStopped, CodecReleased, HandleValid, ReadyMeansPlaying,
              ShutdownComplete
<1>2. CASE Next
  BY <1>2, InitDeviceInductive,
     CreateMixerInductive,
     LaunchInductive,
     AwaitStartInductive,
     ShutdownInductive,
     StopAskInductive,
     JoinInductive,
     JoinTimeoutInductive,
     ReleaseInductive,
     DestroyInductive,
     WorkerStartInductive,
     WorkerAnnounceInductive,
     WorkerRaiseInductive,
     WorkerLoopInductive,
     WorkerPullInductive,
     WorkerCheckInductive,
     WorkerWriteInductive,
     WorkerBackoffInductive,
     WorkerEndInductive,
     WorkerDoneInductive
     DEF Next, GameStep, Worker
<1> QED
  BY <1>1, <1>2

\* The invariant holds in every state of every behaviour.
THEOREM InductiveHolds == Spec => []Inductive
BY InitInductive, NextInductive, PTL DEF Spec

\* Every variable keeps its type.
THEOREM TypeCorrect == Spec => []TypeOK
<1>1. Inductive => TypeOK
  BY DEF Inductive
<1> QED
  BY <1>1, InductiveHolds, PTL

\* No shutdown, however it ends, frees what the worker still uses.
THEOREM WorkerHasMemory == Spec => []WorkerMemory
<1>1. Inductive => WorkerMemory
  BY DEF Inductive
<1> QED
  BY <1>1, InductiveHolds, PTL

\* The game thread and the worker never use the codec at the same time.
THEOREM CodecIsExclusive == Spec => []CodecExclusive
<1>1. Inductive => CodecExclusive
  BY DEF Inductive
<1> QED
  BY <1>1, InductiveHolds, PTL

\* A task is deleted only after it has suspended itself.
THEOREM DoneIsFinal == Spec => []DoneMeansStopped
<1>1. Inductive => DoneMeansStopped
  BY DEF Inductive
<1> QED
  BY <1>1, InductiveHolds, PTL

\* A codec start is always released before the next one.
THEOREM CodecNeverLeaks == Spec => []CodecReleased
<1>1. Inductive => CodecReleased
  BY DEF Inductive
<1> QED
  BY <1>1, InductiveHolds, PTL

\* A codec that is open can be closed.
THEOREM HandleIsValid == Spec => []HandleValid
<1>1. Inductive => HandleValid
  BY DEF Inductive
<1> QED
  BY <1>1, InductiveHolds, PTL

\* A device that says it is ready plays.
THEOREM ReadyIsPlaying == Spec => []ReadyMeansPlaying
<1>1. Inductive => ReadyMeansPlaying
  BY DEF Inductive
<1> QED
  BY <1>1, InductiveHolds, PTL

\* A shutdown ends with everything released or everything kept.
THEOREM ShutdownIsComplete == Spec => []ShutdownComplete
<1>1. Inductive => ShutdownComplete
  BY DEF Inductive
<1> QED
  BY <1>1, InductiveHolds, PTL

\* Codec, worker, mixer and service are released, or kept for a retry, together.
THEOREM CleanupHolds == Spec => []CleanupIsWhole
<1>1. CodecReleased /\ ShutdownComplete => CleanupIsWhole
  BY DEF CleanupIsWhole
<1> QED
  BY <1>1, CodecNeverLeaks, ShutdownIsComplete, PTL
==============================================================================
