------------------------- MODULE BoardLifecycleProofs -------------------------
(***************************************************************************)
(* Proofs about BoardLifecycle: the inductive invariant and the properties *)
(* it implies, for any number of boards created one after the other.       *)
(***************************************************************************)
EXTENDS BoardLifecycle, TLAPS

USE BoardAssumption
USE DEF control, config, devices, input, tasks, game, At, To, Samplers, Locks,
        Nobody, Starting, Building, InGame, Ending

\* Before the first board there is nothing to release.
LEMMA InitInductive == Init => Inductive
<1> SUFFICES ASSUME Init PROVE Inductive
  OBVIOUS
<1>1. TypeOK
  <2>1. LauncherType
    BY DEF Init, LauncherType, Places
  <2>2. BoardType
    BY DEF Init, BoardType
  <2>3. TaskType
    BY DEF Init, TaskType
  <2>4. GameType
    BY DEF Init, GameType
  <2> QED
    BY <2>1, <2>2, <2>3, <2>4 DEF TypeOK
<1>2. Stages
  BY DEF Init, Stages
<1>3. Handshake
  BY DEF Init, Handshake
<1>4. DevicesOutliveUsers
  BY DEF Init, DevicesOutliveUsers
<1>5. BorrowedUntilDetached
  BY DEF Init, BorrowedUntilDetached
<1>6. AssetsOutliveAudio
  BY DEF Init, AssetsOutliveAudio
<1>7. ReleasedWhole
  BY DEF Init, ReleasedWhole
<1> QED
  BY <1>1, <1>2, <1>3, <1>4, <1>5, <1>6, <1>7 DEF Inductive

\* Step Create: a board is claimed where nothing was left.
LEMMA CreateInductive == Inductive /\ Create => Inductive'
<1> SUFFICES ASSUME Inductive, Create PROVE Inductive'
  OBVIOUS
<1> USE DEF Inductive, Create, Free
<1>1. TypeOK'
  <2>1. LauncherType'
    <3>1. 0 \in 0 .. 1 /\ 1 \in 0 .. 1
      OBVIOUS
    <3>2. runs' \in 0 .. MaxRuns
      BY DEF TypeOK, LauncherType
    <3> QED
      BY <3>1, <3>2, Zenon DEF TypeOK, LauncherType, Places
  <2>2. BoardType'
    BY DEF TypeOK, BoardType
  <2>3. TaskType'
    BY DEF TypeOK, TaskType
  <2>4. GameType'
    BY DEF TypeOK, GameType
  <2> QED
    BY <2>1, <2>2, <2>3, <2>4 DEF TypeOK
<1>2. Stages'
  BY DEF Stages, ReleasedWhole
<1>3. Handshake'
  BY DEF Handshake, ReleasedWhole
<1>4. DevicesOutliveUsers'
  BY DEF DevicesOutliveUsers, ReleasedWhole
<1>5. BorrowedUntilDetached'
  BY DEF BorrowedUntilDetached, ReleasedWhole
<1>6. AssetsOutliveAudio'
  BY DEF AssetsOutliveAudio
<1>7. ReleasedWhole'
  BY DEF ReleasedWhole
<1> QED
  BY <1>1, <1>2, <1>3, <1>4, <1>5, <1>6, <1>7

\* Step InitManager: the drivers come up, or power stays on without them.
LEMMA InitManagerInductive == Inductive /\ InitManager => Inductive'
<1> SUFFICES ASSUME Inductive, InitManager PROVE Inductive'
  OBVIOUS
<1> USE DEF Inductive, InitManager
<1>1. TypeOK'
  <2>1. LauncherType'
    BY DEF TypeOK, LauncherType, Places
  <2>2. BoardType'
    BY DEF TypeOK, BoardType
  <2>3. TaskType'
    BY DEF TypeOK, TaskType
  <2>4. GameType'
    BY DEF TypeOK, GameType
  <2> QED
    BY <2>1, <2>2, <2>3, <2>4 DEF TypeOK
<1>2. Stages'
  BY DEF Stages
<1>3. Handshake'
  BY DEF Handshake, Stages
<1>4. DevicesOutliveUsers'
  BY DEF DevicesOutliveUsers, Stages, Handshake
<1>5. BorrowedUntilDetached'
  BY DEF BorrowedUntilDetached
<1>6. AssetsOutliveAudio'
  BY DEF AssetsOutliveAudio
<1>7. ReleasedWhole'
  BY DEF ReleasedWhole, Stages
<1> QED
  BY <1>1, <1>2, <1>3, <1>4, <1>5, <1>6, <1>7

\* Step CreatePresenter: the presenter is created on the drivers.
LEMMA CreatePresenterInductive == Inductive /\ CreatePresenter => Inductive'
<1> SUFFICES ASSUME Inductive, CreatePresenter PROVE Inductive'
  OBVIOUS
<1> USE DEF Inductive, CreatePresenter
<1>1. TypeOK'
  <2>1. LauncherType'
    BY DEF TypeOK, LauncherType, Places
  <2>2. BoardType'
    BY DEF TypeOK, BoardType
  <2>3. TaskType'
    BY DEF TypeOK, TaskType
  <2>4. GameType'
    BY DEF TypeOK, GameType
  <2> QED
    BY <2>1, <2>2, <2>3, <2>4 DEF TypeOK
<1>2. Stages'
  BY DEF Stages
<1>3. Handshake'
  BY DEF Handshake, Stages
<1>4. DevicesOutliveUsers'
  BY DEF DevicesOutliveUsers, Stages
<1>5. BorrowedUntilDetached'
  BY DEF BorrowedUntilDetached
<1>6. AssetsOutliveAudio'
  BY DEF AssetsOutliveAudio
<1>7. ReleasedWhole'
  BY DEF ReleasedWhole, Stages
<1> QED
  BY <1>1, <1>2, <1>3, <1>4, <1>5, <1>6, <1>7

\* Step InitImu: the optional sensor.
LEMMA InitImuInductive == Inductive /\ InitImu => Inductive'
<1> SUFFICES ASSUME Inductive, InitImu PROVE Inductive'
  OBVIOUS
<1> USE DEF Inductive, InitImu
<1>1. TypeOK'
  <2>1. LauncherType'
    BY DEF TypeOK, LauncherType, Places
  <2>2. BoardType'
    BY DEF TypeOK, BoardType
  <2>3. TaskType'
    BY DEF TypeOK, TaskType
  <2>4. GameType'
    BY DEF TypeOK, GameType
  <2> QED
    BY <2>1, <2>2, <2>3, <2>4 DEF TypeOK
<1>2. Stages'
  BY DEF Stages
<1>3. Handshake'
  BY DEF Handshake, Stages
<1>4. DevicesOutliveUsers'
  BY DEF DevicesOutliveUsers, Stages, Handshake
<1>5. BorrowedUntilDetached'
  BY DEF BorrowedUntilDetached
<1>6. AssetsOutliveAudio'
  BY DEF AssetsOutliveAudio
<1>7. ReleasedWhole'
  BY DEF ReleasedWhole, Stages
<1> QED
  BY <1>1, <1>2, <1>3, <1>4, <1>5, <1>6, <1>7

\* Step OpenVideo: the strip backend is opened on its presenter.
LEMMA OpenVideoInductive == Inductive /\ OpenVideo => Inductive'
<1> SUFFICES ASSUME Inductive, OpenVideo PROVE Inductive'
  OBVIOUS
<1> USE DEF Inductive, OpenVideo
<1>1. TypeOK'
  <2>1. LauncherType'
    BY DEF TypeOK, LauncherType, Places
  <2>2. BoardType'
    BY DEF TypeOK, BoardType
  <2>3. TaskType'
    BY DEF TypeOK, TaskType
  <2>4. GameType'
    BY DEF TypeOK, GameType
  <2> QED
    BY <2>1, <2>2, <2>3, <2>4 DEF TypeOK
<1>2. Stages'
  BY DEF Stages
<1>3. Handshake'
  BY DEF Handshake, Stages
<1>4. DevicesOutliveUsers'
  BY DEF DevicesOutliveUsers, Stages
<1>5. BorrowedUntilDetached'
  BY DEF BorrowedUntilDetached, Stages
<1>6. AssetsOutliveAudio'
  BY DEF AssetsOutliveAudio
<1>7. ReleasedWhole'
  BY DEF ReleasedWhole, Stages
<1> QED
  BY <1>1, <1>2, <1>3, <1>4, <1>5, <1>6, <1>7

\* Step CreateLocks: some or all of the semaphores are created.
LEMMA CreateLocksInductive == Inductive /\ CreateLocks => Inductive'
<1> SUFFICES ASSUME Inductive, CreateLocks PROVE Inductive'
  OBVIOUS
<1> USE DEF Inductive, CreateLocks
<1>1. TypeOK'
  <2>1. LauncherType'
    BY DEF TypeOK, LauncherType, Places
  <2>2. BoardType'
    BY DEF TypeOK, BoardType
  <2>3. TaskType'
    BY DEF TypeOK, TaskType
  <2>4. GameType'
    BY DEF TypeOK, GameType
  <2> QED
    BY <2>1, <2>2, <2>3, <2>4 DEF TypeOK
<1>2. Stages'
  BY DEF Stages, Up
<1>3. Handshake'
  BY DEF Handshake, Stages
<1>4. DevicesOutliveUsers'
  BY DEF DevicesOutliveUsers, Stages, Handshake
<1>5. BorrowedUntilDetached'
  BY DEF BorrowedUntilDetached, Stages
<1>6. AssetsOutliveAudio'
  BY DEF AssetsOutliveAudio
<1>7. ReleasedWhole'
  BY DEF ReleasedWhole, Stages
<1> QED
  BY <1>1, <1>2, <1>3, <1>4, <1>5, <1>6, <1>7

\* Step Attach: a provider may borrow the interfaces.
LEMMA AttachInductive == Inductive /\ Attach => Inductive'
<1> SUFFICES ASSUME Inductive, Attach PROVE Inductive'
  OBVIOUS
<1> USE DEF Inductive, Attach
<1>1. TypeOK'
  <2>1. LauncherType'
    BY DEF TypeOK, LauncherType, Places
  <2>2. BoardType'
    BY DEF TypeOK, BoardType
  <2>3. TaskType'
    BY DEF TypeOK, TaskType
  <2>4. GameType'
    BY DEF TypeOK, GameType
  <2> QED
    BY <2>1, <2>2, <2>3, <2>4 DEF TypeOK
<1>2. Stages'
  BY DEF Stages, Up
<1>3. Handshake'
  BY DEF Handshake, Stages
<1>4. DevicesOutliveUsers'
  BY DEF DevicesOutliveUsers
<1>5. BorrowedUntilDetached'
  BY DEF BorrowedUntilDetached, Stages, Up
<1>6. AssetsOutliveAudio'
  BY DEF AssetsOutliveAudio
<1>7. ReleasedWhole'
  BY DEF ReleasedWhole, Stages
<1> QED
  BY <1>1, <1>2, <1>3, <1>4, <1>5, <1>6, <1>7

\* Step GameStart: the game starts, or not.
LEMMA GameStartInductive == Inductive /\ GameStart => Inductive'
<1> SUFFICES ASSUME Inductive, GameStart PROVE Inductive'
  OBVIOUS
<1> USE DEF Inductive, GameStart, OpenAudio
<1>1. TypeOK'
  <2>1. LauncherType'
    BY DEF TypeOK, LauncherType, Places
  <2>2. BoardType'
    BY DEF TypeOK, BoardType
  <2>3. TaskType'
    BY DEF TypeOK, TaskType
  <2>4. GameType'
    BY DEF TypeOK, GameType
  <2> QED
    BY <2>1, <2>2, <2>3, <2>4 DEF TypeOK
<1>2. Stages'
  BY DEF Stages, Up
<1>3. Handshake'
  BY DEF Handshake, Stages
<1>4. DevicesOutliveUsers'
  BY DEF DevicesOutliveUsers, Stages, Up
<1>5. BorrowedUntilDetached'
  BY DEF BorrowedUntilDetached
<1>6. AssetsOutliveAudio'
  BY DEF AssetsOutliveAudio, Stages
<1>7. ReleasedWhole'
  BY DEF ReleasedWhole, Stages
<1> QED
  BY <1>1, <1>2, <1>3, <1>4, <1>5, <1>6, <1>7

\* Step FirstFrame: the first frame.
LEMMA FirstFrameInductive == Inductive /\ FirstFrame => Inductive'
<1> SUFFICES ASSUME Inductive, FirstFrame PROVE Inductive'
  OBVIOUS
<1> USE DEF Inductive, FirstFrame
<1>1. TypeOK'
  <2>1. LauncherType'
    BY DEF TypeOK, LauncherType, Places
  <2>2. BoardType'
    BY DEF TypeOK, BoardType
  <2>3. TaskType'
    BY DEF TypeOK, TaskType
  <2>4. GameType'
    BY DEF TypeOK, GameType
  <2> QED
    BY <2>1, <2>2, <2>3, <2>4 DEF TypeOK
<1>2. Stages'
  BY DEF Stages, Up
<1>3. Handshake'
  BY DEF Handshake, Stages
<1>4. DevicesOutliveUsers'
  BY DEF DevicesOutliveUsers
<1>5. BorrowedUntilDetached'
  BY DEF BorrowedUntilDetached
<1>6. AssetsOutliveAudio'
  BY DEF AssetsOutliveAudio
<1>7. ReleasedWhole'
  BY DEF ReleasedWhole
<1> QED
  BY <1>1, <1>2, <1>3, <1>4, <1>5, <1>6, <1>7

\* Step StartInput: sampling is switched on.
LEMMA StartInputInductive == Inductive /\ StartInput => Inductive'
<1> SUFFICES ASSUME Inductive, StartInput PROVE Inductive'
  OBVIOUS
<1> USE DEF Inductive, StartInput
<1>1. TypeOK'
  <2>1. LauncherType'
    BY DEF TypeOK, LauncherType, Places
  <2>2. BoardType'
    BY DEF TypeOK, BoardType
  <2>3. TaskType'
    BY DEF TypeOK, TaskType
  <2>4. GameType'
    BY DEF TypeOK, GameType
  <2> QED
    BY <2>1, <2>2, <2>3, <2>4 DEF TypeOK
<1>2. Stages'
  BY DEF Stages, Up
<1>3. Handshake'
  BY DEF Handshake, Stages
<1>4. DevicesOutliveUsers'
  BY DEF DevicesOutliveUsers
<1>5. BorrowedUntilDetached'
  BY DEF BorrowedUntilDetached
<1>6. AssetsOutliveAudio'
  BY DEF AssetsOutliveAudio
<1>7. ReleasedWhole'
  BY DEF ReleasedWhole
<1> QED
  BY <1>1, <1>2, <1>3, <1>4, <1>5, <1>6, <1>7

\* Step Spawn: a sampling task is created, or not.
LEMMA SpawnInductive ==
  ASSUME Inductive, NEW s \in Samplers, Spawn(s)
  PROVE  Inductive'
<1> USE DEF Inductive, Spawn
<1>1. TypeOK'
  <2>1. LauncherType'
    BY DEF TypeOK, LauncherType, Places
  <2>2. BoardType'
    BY DEF TypeOK, BoardType
  <2>3. TaskType'
    BY DEF TypeOK, TaskType
  <2>4. GameType'
    BY DEF TypeOK, GameType
  <2> QED
    BY <2>1, <2>2, <2>3, <2>4 DEF TypeOK
<1>2. Stages'
  BY DEF Stages, Up
<1>3. Handshake'
  BY DEF Handshake, TypeOK, LauncherType, BoardType, TaskType, GameType,
     Stages, Up
<1>4. DevicesOutliveUsers'
  BY DEF DevicesOutliveUsers, TypeOK, LauncherType, BoardType, TaskType,
     GameType, Stages, Handshake, Up
<1>5. BorrowedUntilDetached'
  BY DEF BorrowedUntilDetached
<1>6. AssetsOutliveAudio'
  BY DEF AssetsOutliveAudio
<1>7. ReleasedWhole'
  BY DEF ReleasedWhole, Stages
<1> QED
  BY <1>1, <1>2, <1>3, <1>4, <1>5, <1>6, <1>7

\* Step Ready: the provider is told.
LEMMA ReadyInductive == Inductive /\ Ready => Inductive'
<1> SUFFICES ASSUME Inductive, Ready PROVE Inductive'
  OBVIOUS
<1> USE DEF Inductive, Ready
<1>1. TypeOK'
  <2>1. LauncherType'
    BY DEF TypeOK, LauncherType, Places
  <2>2. BoardType'
    BY DEF TypeOK, BoardType
  <2>3. TaskType'
    BY DEF TypeOK, TaskType
  <2>4. GameType'
    BY DEF TypeOK, GameType
  <2> QED
    BY <2>1, <2>2, <2>3, <2>4 DEF TypeOK
<1>2. Stages'
  BY DEF Stages, Up
<1>3. Handshake'
  BY DEF Handshake, Stages, Up
<1>4. DevicesOutliveUsers'
  BY DEF DevicesOutliveUsers
<1>5. BorrowedUntilDetached'
  BY DEF BorrowedUntilDetached
<1>6. AssetsOutliveAudio'
  BY DEF AssetsOutliveAudio
<1>7. ReleasedWhole'
  BY DEF ReleasedWhole
<1> QED
  BY <1>1, <1>2, <1>3, <1>4, <1>5, <1>6, <1>7

\* Step Play: the game uses its audio device.
LEMMA PlayInductive == Inductive /\ Play => Inductive'
<1> SUFFICES ASSUME Inductive, Play PROVE Inductive'
  OBVIOUS
<1> USE DEF Inductive, Play, OpenAudio, ShutAudio, AudioAnswers
<1>1. TypeOK'
  <2>1. LauncherType'
    BY DEF TypeOK, LauncherType, Places
  <2>2. BoardType'
    BY DEF TypeOK, BoardType
  <2>3. TaskType'
    BY DEF TypeOK, TaskType
  <2>4. GameType'
    BY DEF TypeOK, GameType
  <2> QED
    BY <2>1, <2>2, <2>3, <2>4 DEF TypeOK
<1>2. Stages'
  BY DEF Stages, Up
<1>3. Handshake'
  BY DEF Handshake, Stages, Up
<1>4. DevicesOutliveUsers'
  BY DEF DevicesOutliveUsers, Stages, Up
<1>5. BorrowedUntilDetached'
  BY DEF BorrowedUntilDetached
<1>6. AssetsOutliveAudio'
  BY DEF AssetsOutliveAudio, Stages
<1>7. ReleasedWhole'
  BY DEF ReleasedWhole, Stages
<1> QED
  BY <1>1, <1>2, <1>3, <1>4, <1>5, <1>6, <1>7

\* Step GameStop: the game ends.
LEMMA GameStopInductive == Inductive /\ GameStop => Inductive'
<1> SUFFICES ASSUME Inductive, GameStop PROVE Inductive'
  OBVIOUS
<1> USE DEF Inductive, GameStop, ShutAudio, AudioAnswers
<1>1. TypeOK'
  <2>1. LauncherType'
    BY DEF TypeOK, LauncherType, Places
  <2>2. BoardType'
    BY DEF TypeOK, BoardType
  <2>3. TaskType'
    BY DEF TypeOK, TaskType
  <2>4. GameType'
    BY DEF TypeOK, GameType
  <2> QED
    BY <2>1, <2>2, <2>3, <2>4 DEF TypeOK
<1>2. Stages'
  BY DEF Stages, Up
<1>3. Handshake'
  BY DEF Handshake, Stages, Up
<1>4. DevicesOutliveUsers'
  BY DEF DevicesOutliveUsers
<1>5. BorrowedUntilDetached'
  BY DEF BorrowedUntilDetached
<1>6. AssetsOutliveAudio'
  BY DEF AssetsOutliveAudio
<1>7. ReleasedWhole'
  BY DEF ReleasedWhole
<1> QED
  BY <1>1, <1>2, <1>3, <1>4, <1>5, <1>6, <1>7

\* Step Silence: the launcher shuts the audio down.
LEMMA SilenceInductive == Inductive /\ Silence => Inductive'
<1> SUFFICES ASSUME Inductive, Silence PROVE Inductive'
  OBVIOUS
<1> USE DEF Inductive, Silence, ShutAudio, AudioAnswers, Silent
<1>1. TypeOK'
  <2>1. LauncherType'
    BY DEF TypeOK, LauncherType, Places
  <2>2. BoardType'
    BY DEF TypeOK, BoardType
  <2>3. TaskType'
    BY DEF TypeOK, TaskType
  <2>4. GameType'
    BY DEF TypeOK, GameType
  <2> QED
    BY <2>1, <2>2, <2>3, <2>4 DEF TypeOK
<1>2. Stages'
  BY DEF Stages, Up
<1>3. Handshake'
  BY DEF Handshake, Stages, Up
<1>4. DevicesOutliveUsers'
  BY DEF DevicesOutliveUsers
<1>5. BorrowedUntilDetached'
  BY DEF BorrowedUntilDetached
<1>6. AssetsOutliveAudio'
  BY DEF AssetsOutliveAudio
<1>7. ReleasedWhole'
  BY DEF ReleasedWhole
<1> QED
  BY <1>1, <1>2, <1>3, <1>4, <1>5, <1>6, <1>7

\* Step SilenceAgain: ... and once more.
LEMMA SilenceAgainInductive == Inductive /\ SilenceAgain => Inductive'
<1> SUFFICES ASSUME Inductive, SilenceAgain PROVE Inductive'
  OBVIOUS
<1> USE DEF Inductive, SilenceAgain, ShutAudio, AudioAnswers, Silent
<1>1. TypeOK'
  <2>1. LauncherType'
    BY DEF TypeOK, LauncherType, Places
  <2>2. BoardType'
    BY DEF TypeOK, BoardType
  <2>3. TaskType'
    BY DEF TypeOK, TaskType
  <2>4. GameType'
    BY DEF TypeOK, GameType
  <2> QED
    BY <2>1, <2>2, <2>3, <2>4 DEF TypeOK
<1>2. Stages'
  BY DEF Stages, Up
<1>3. Handshake'
  BY DEF Handshake, Stages, Up
<1>4. DevicesOutliveUsers'
  BY DEF DevicesOutliveUsers
<1>5. BorrowedUntilDetached'
  BY DEF BorrowedUntilDetached
<1>6. AssetsOutliveAudio'
  BY DEF AssetsOutliveAudio
<1>7. ReleasedWhole'
  BY DEF ReleasedWhole
<1> QED
  BY <1>1, <1>2, <1>3, <1>4, <1>5, <1>6, <1>7

\* Step FreeGame: memory and assets are released.
LEMMA FreeGameInductive == Inductive /\ FreeGame => Inductive'
<1> SUFFICES ASSUME Inductive, FreeGame PROVE Inductive'
  OBVIOUS
<1> USE DEF Inductive, FreeGame
<1>1. TypeOK'
  <2>1. LauncherType'
    BY DEF TypeOK, LauncherType, Places
  <2>2. BoardType'
    BY DEF TypeOK, BoardType
  <2>3. TaskType'
    BY DEF TypeOK, TaskType
  <2>4. GameType'
    BY DEF TypeOK, GameType
  <2> QED
    BY <2>1, <2>2, <2>3, <2>4 DEF TypeOK
<1>2. Stages'
  BY DEF Stages, Up
<1>3. Handshake'
  BY DEF Handshake, Stages, Up
<1>4. DevicesOutliveUsers'
  BY DEF DevicesOutliveUsers
<1>5. BorrowedUntilDetached'
  BY DEF BorrowedUntilDetached
<1>6. AssetsOutliveAudio'
  BY DEF AssetsOutliveAudio, Stages
<1>7. ReleasedWhole'
  BY DEF ReleasedWhole
<1> QED
  BY <1>1, <1>2, <1>3, <1>4, <1>5, <1>6, <1>7

\* Step Detach: the provider lets go, or not.
LEMMA DetachInductive ==
  ASSUME Inductive, NEW ok \in BOOLEAN, Detach(ok)
  PROVE  Inductive'
<1> USE DEF Inductive, Detach, Detached
<1>1. TypeOK'
  <2>1. LauncherType'
    BY DEF TypeOK, LauncherType, Places
  <2>2. BoardType'
    BY DEF TypeOK, BoardType
  <2>3. TaskType'
    BY DEF TypeOK, TaskType
  <2>4. GameType'
    BY DEF TypeOK, GameType
  <2> QED
    BY <2>1, <2>2, <2>3, <2>4 DEF TypeOK
<1>2. Stages'
  BY DEF Stages, Up
<1>3. Handshake'
  BY DEF Handshake, Stages, Up
<1>4. DevicesOutliveUsers'
  BY DEF DevicesOutliveUsers
<1>5. BorrowedUntilDetached'
  BY DEF BorrowedUntilDetached
<1>6. AssetsOutliveAudio'
  BY DEF AssetsOutliveAudio
<1>7. ReleasedWhole'
  BY DEF ReleasedWhole
<1> QED
  BY <1>1, <1>2, <1>3, <1>4, <1>5, <1>6, <1>7

\* Step Hush: the audio once more.
LEMMA HushInductive == Inductive /\ Hush => Inductive'
<1> SUFFICES ASSUME Inductive, Hush PROVE Inductive'
  OBVIOUS
<1> USE DEF Inductive, Hush, ShutAudio, AudioAnswers
<1>1. TypeOK'
  <2>1. LauncherType'
    BY DEF TypeOK, LauncherType, Places
  <2>2. BoardType'
    BY DEF TypeOK, BoardType
  <2>3. TaskType'
    BY DEF TypeOK, TaskType
  <2>4. GameType'
    BY DEF TypeOK, GameType
  <2> QED
    BY <2>1, <2>2, <2>3, <2>4 DEF TypeOK
<1>2. Stages'
  BY DEF Stages, Up
<1>3. Handshake'
  BY DEF Handshake, Stages, Up
<1>4. DevicesOutliveUsers'
  BY DEF DevicesOutliveUsers
<1>5. BorrowedUntilDetached'
  BY DEF BorrowedUntilDetached
<1>6. AssetsOutliveAudio'
  BY DEF AssetsOutliveAudio
<1>7. ReleasedWhole'
  BY DEF ReleasedWhole
<1> QED
  BY <1>1, <1>2, <1>3, <1>4, <1>5, <1>6, <1>7

\* Step ShutAudioDown: a cleanup starts with the audio.
LEMMA ShutAudioDownInductive ==
  ASSUME Inductive, NEW ok \in BOOLEAN, ShutAudioDown(ok)
  PROVE  Inductive'
<1> USE DEF Inductive, ShutAudioDown, ShutAudio, AudioAnswers, Refused
<1>1. TypeOK'
  <2>1. LauncherType'
    <3>1. 0 \in 0 .. 1 /\ 1 \in 0 .. 1
      OBVIOUS
    <3> QED
      BY <3>1, Zenon DEF TypeOK, LauncherType, Places
  <2>2. BoardType'
    BY DEF TypeOK, BoardType
  <2>3. TaskType'
    BY DEF TypeOK, TaskType
  <2>4. GameType'
    BY DEF TypeOK, GameType
  <2> QED
    BY <2>1, <2>2, <2>3, <2>4 DEF TypeOK
<1>2. Stages'
  BY DEF Stages, Up
<1>3. Handshake'
  BY DEF Handshake, Stages, Up
<1>4. DevicesOutliveUsers'
  BY DEF DevicesOutliveUsers
<1>5. BorrowedUntilDetached'
  BY DEF BorrowedUntilDetached
<1>6. AssetsOutliveAudio'
  BY DEF AssetsOutliveAudio
<1>7. ReleasedWhole'
  BY DEF ReleasedWhole
<1> QED
  BY <1>1, <1>2, <1>3, <1>4, <1>5, <1>6, <1>7

\* Step Halt: the tasks are asked to stop.
LEMMA HaltInductive == Inductive /\ Halt => Inductive'
<1> SUFFICES ASSUME Inductive, Halt PROVE Inductive'
  OBVIOUS
<1> USE DEF Inductive, Halt
<1>1. TypeOK'
  <2>1. LauncherType'
    BY DEF TypeOK, LauncherType, Places
  <2>2. BoardType'
    BY DEF TypeOK, BoardType
  <2>3. TaskType'
    BY DEF TypeOK, TaskType
  <2>4. GameType'
    BY DEF TypeOK, GameType
  <2> QED
    BY <2>1, <2>2, <2>3, <2>4 DEF TypeOK
<1>2. Stages'
  BY DEF Stages
<1>3. Handshake'
  BY DEF Handshake, Stages, Up
<1>4. DevicesOutliveUsers'
  BY DEF DevicesOutliveUsers
<1>5. BorrowedUntilDetached'
  BY DEF BorrowedUntilDetached
<1>6. AssetsOutliveAudio'
  BY DEF AssetsOutliveAudio
<1>7. ReleasedWhole'
  BY DEF ReleasedWhole
<1> QED
  BY <1>1, <1>2, <1>3, <1>4, <1>5, <1>6, <1>7

\* Step Join: a task's semaphore is taken.
LEMMA JoinInductive ==
  ASSUME Inductive, NEW s \in Samplers, Join(s)
  PROVE  Inductive'
<1> USE DEF Inductive, Join, DropHandle, Turn
<1>1. TypeOK'
  <2>1. LauncherType'
    BY DEF TypeOK, LauncherType, Places
  <2>2. BoardType'
    BY DEF TypeOK, BoardType
  <2>3. TaskType'
    BY DEF TypeOK, TaskType
  <2>4. GameType'
    BY DEF TypeOK, GameType
  <2> QED
    BY <2>1, <2>2, <2>3, <2>4 DEF TypeOK
<1>2. Stages'
  BY DEF Stages
<1>3. Handshake'
  BY DEF Handshake, TypeOK, LauncherType, BoardType, TaskType, GameType,
     Stages, Up
<1>4. DevicesOutliveUsers'
  BY DEF DevicesOutliveUsers
<1>5. BorrowedUntilDetached'
  BY DEF BorrowedUntilDetached
<1>6. AssetsOutliveAudio'
  BY DEF AssetsOutliveAudio
<1>7. ReleasedWhole'
  BY DEF ReleasedWhole
<1> QED
  BY <1>1, <1>2, <1>3, <1>4, <1>5, <1>6, <1>7

\* Step JoinTimeout: a task is slow.
LEMMA JoinTimeoutInductive == Inductive /\ JoinTimeout => Inductive'
<1> SUFFICES ASSUME Inductive, JoinTimeout PROVE Inductive'
  OBVIOUS
<1> USE DEF Inductive, JoinTimeout, GiveUp, Refused, Turn
<1>1. TypeOK'
  <2>1. LauncherType'
    <3>1. 0 \in 0 .. 1 /\ 1 \in 0 .. 1
      OBVIOUS
    <3> QED
      BY <3>1, Zenon DEF TypeOK, LauncherType, Places
  <2>2. BoardType'
    BY DEF TypeOK, BoardType
  <2>3. TaskType'
    BY DEF TypeOK, TaskType
  <2>4. GameType'
    BY DEF TypeOK, GameType
  <2> QED
    BY <2>1, <2>2, <2>3, <2>4 DEF TypeOK
<1>2. Stages'
  BY DEF Stages
<1>3. Handshake'
  BY DEF Handshake, Stages, Up
<1>4. DevicesOutliveUsers'
  BY DEF DevicesOutliveUsers
<1>5. BorrowedUntilDetached'
  BY DEF BorrowedUntilDetached
<1>6. AssetsOutliveAudio'
  BY DEF AssetsOutliveAudio
<1>7. ReleasedWhole'
  BY DEF ReleasedWhole
<1> QED
  BY <1>1, <1>2, <1>3, <1>4, <1>5, <1>6, <1>7

\* Step Joined: no task is left.
LEMMA JoinedInductive == Inductive /\ Joined => Inductive'
<1> SUFFICES ASSUME Inductive, Joined PROVE Inductive'
  OBVIOUS
<1> USE DEF Inductive, Joined
<1>1. TypeOK'
  <2>1. LauncherType'
    BY DEF TypeOK, LauncherType, Places
  <2>2. BoardType'
    BY DEF TypeOK, BoardType
  <2>3. TaskType'
    BY DEF TypeOK, TaskType
  <2>4. GameType'
    BY DEF TypeOK, GameType
  <2> QED
    BY <2>1, <2>2, <2>3, <2>4 DEF TypeOK
<1>2. Stages'
  BY DEF Stages, TypeOK, LauncherType, BoardType, TaskType, GameType,
     Handshake, Up
<1>3. Handshake'
  BY DEF Handshake
<1>4. DevicesOutliveUsers'
  BY DEF DevicesOutliveUsers
<1>5. BorrowedUntilDetached'
  BY DEF BorrowedUntilDetached
<1>6. AssetsOutliveAudio'
  BY DEF AssetsOutliveAudio
<1>7. ReleasedWhole'
  BY DEF ReleasedWhole
<1> QED
  BY <1>1, <1>2, <1>3, <1>4, <1>5, <1>6, <1>7

\* Step CloseVideo: the strip backend is closed, or not.
LEMMA CloseVideoInductive ==
  ASSUME Inductive, NEW ok \in BOOLEAN, CloseVideo(ok)
  PROVE  Inductive'
<1> USE DEF Inductive, CloseVideo, Outcome, Refused
<1>1. TypeOK'
  <2>1. LauncherType'
    <3>1. 0 \in 0 .. 1 /\ 1 \in 0 .. 1
      OBVIOUS
    <3> QED
      BY <3>1, Zenon DEF TypeOK, LauncherType, Places
  <2>2. BoardType'
    BY DEF TypeOK, BoardType
  <2>3. TaskType'
    BY DEF TypeOK, TaskType
  <2>4. GameType'
    BY DEF TypeOK, GameType
  <2> QED
    BY <2>1, <2>2, <2>3, <2>4 DEF TypeOK
<1>2. Stages'
  BY DEF Stages
<1>3. Handshake'
  BY DEF Handshake, Stages
<1>4. DevicesOutliveUsers'
  BY DEF DevicesOutliveUsers
<1>5. BorrowedUntilDetached'
  BY DEF BorrowedUntilDetached, Stages
<1>6. AssetsOutliveAudio'
  BY DEF AssetsOutliveAudio
<1>7. ReleasedWhole'
  BY DEF ReleasedWhole
<1> QED
  BY <1>1, <1>2, <1>3, <1>4, <1>5, <1>6, <1>7

\* Step DeletePresenter: the presenter is deleted, or not.
LEMMA DeletePresenterInductive ==
  ASSUME Inductive, NEW ok \in BOOLEAN, DeletePresenter(ok)
  PROVE  Inductive'
<1> USE DEF Inductive, DeletePresenter, Outcome, Refused
<1>1. TypeOK'
  <2>1. LauncherType'
    <3>1. 0 \in 0 .. 1 /\ 1 \in 0 .. 1
      OBVIOUS
    <3> QED
      BY <3>1, Zenon DEF TypeOK, LauncherType, Places
  <2>2. BoardType'
    BY DEF TypeOK, BoardType
  <2>3. TaskType'
    BY DEF TypeOK, TaskType
  <2>4. GameType'
    BY DEF TypeOK, GameType
  <2> QED
    BY <2>1, <2>2, <2>3, <2>4 DEF TypeOK
<1>2. Stages'
  BY DEF Stages
<1>3. Handshake'
  BY DEF Handshake, Stages
<1>4. DevicesOutliveUsers'
  BY DEF DevicesOutliveUsers, Stages
<1>5. BorrowedUntilDetached'
  BY DEF BorrowedUntilDetached
<1>6. AssetsOutliveAudio'
  BY DEF AssetsOutliveAudio
<1>7. ReleasedWhole'
  BY DEF ReleasedWhole
<1> QED
  BY <1>1, <1>2, <1>3, <1>4, <1>5, <1>6, <1>7

\* Step DeinitManager: the drivers go, or some of them.
LEMMA DeinitManagerInductive ==
  ASSUME Inductive, NEW ok \in BOOLEAN, DeinitManager(ok)
  PROVE  Inductive'
<1> USE DEF Inductive, DeinitManager, Outcome, Refused
<1>1. TypeOK'
  <2>1. LauncherType'
    <3>1. 0 \in 0 .. 1 /\ 1 \in 0 .. 1
      OBVIOUS
    <3> QED
      BY <3>1, Zenon DEF TypeOK, LauncherType, Places
  <2>2. BoardType'
    BY DEF TypeOK, BoardType
  <2>3. TaskType'
    BY DEF TypeOK, TaskType
  <2>4. GameType'
    BY DEF TypeOK, GameType
  <2> QED
    BY <2>1, <2>2, <2>3, <2>4 DEF TypeOK
<1>2. Stages'
  BY DEF Stages
<1>3. Handshake'
  BY DEF Handshake, Stages
<1>4. DevicesOutliveUsers'
  BY DEF DevicesOutliveUsers, Stages, Handshake
<1>5. BorrowedUntilDetached'
  BY DEF BorrowedUntilDetached
<1>6. AssetsOutliveAudio'
  BY DEF AssetsOutliveAudio
<1>7. ReleasedWhole'
  BY DEF ReleasedWhole
<1> QED
  BY <1>1, <1>2, <1>3, <1>4, <1>5, <1>6, <1>7

\* Step ReleasePower: the rails are released, or not.
LEMMA ReleasePowerInductive ==
  ASSUME Inductive, NEW ok \in BOOLEAN, ReleasePower(ok)
  PROVE  Inductive'
<1> USE DEF Inductive, ReleasePower, Released, Outcome, Refused
<1>1. TypeOK'
  <2>1. LauncherType'
    <3>1. 0 \in 0 .. 1 /\ 1 \in 0 .. 1
      OBVIOUS
    <3> QED
      BY <3>1, Zenon DEF TypeOK, LauncherType, Places
  <2>2. BoardType'
    BY DEF TypeOK, BoardType
  <2>3. TaskType'
    BY DEF TypeOK, TaskType
  <2>4. GameType'
    BY DEF TypeOK, GameType
  <2> QED
    BY <2>1, <2>2, <2>3, <2>4 DEF TypeOK
<1>2. Stages'
  BY DEF Stages
<1>3. Handshake'
  BY DEF Handshake, Stages
<1>4. DevicesOutliveUsers'
  BY DEF DevicesOutliveUsers
<1>5. BorrowedUntilDetached'
  BY DEF BorrowedUntilDetached
<1>6. AssetsOutliveAudio'
  BY DEF AssetsOutliveAudio
<1>7. ReleasedWhole'
  BY DEF ReleasedWhole
<1> QED
  BY <1>1, <1>2, <1>3, <1>4, <1>5, <1>6, <1>7

\* Step Finish: the claim is dropped.
LEMMA FinishInductive == Inductive /\ Finish => Inductive'
<1> SUFFICES ASSUME Inductive, Finish PROVE Inductive'
  OBVIOUS
<1> USE DEF Inductive, Finish
<1>1. TypeOK'
  <2>1. LauncherType'
    BY DEF TypeOK, LauncherType, Places
  <2>2. BoardType'
    BY DEF TypeOK, BoardType
  <2>3. TaskType'
    BY DEF TypeOK, TaskType
  <2>4. GameType'
    BY DEF TypeOK, GameType
  <2> QED
    BY <2>1, <2>2, <2>3, <2>4 DEF TypeOK
<1>2. Stages'
  BY DEF Stages
<1>3. Handshake'
  BY DEF Handshake, Stages
<1>4. DevicesOutliveUsers'
  BY DEF DevicesOutliveUsers, Stages
<1>5. BorrowedUntilDetached'
  BY DEF BorrowedUntilDetached, Stages
<1>6. AssetsOutliveAudio'
  BY DEF AssetsOutliveAudio
<1>7. ReleasedWhole'
  BY DEF ReleasedWhole, Stages, Handshake
<1> QED
  BY <1>1, <1>2, <1>3, <1>4, <1>5, <1>6, <1>7

\* Step Retry: the owner goes on.
LEMMA RetryInductive == Inductive /\ Retry => Inductive'
<1> SUFFICES ASSUME Inductive, Retry PROVE Inductive'
  OBVIOUS
<1> USE DEF Inductive, Retry
<1>1. TypeOK'
  <2>1. LauncherType'
    BY DEF TypeOK, LauncherType, Places
  <2>2. BoardType'
    BY DEF TypeOK, BoardType
  <2>3. TaskType'
    BY DEF TypeOK, TaskType
  <2>4. GameType'
    BY DEF TypeOK, GameType
  <2> QED
    BY <2>1, <2>2, <2>3, <2>4 DEF TypeOK
<1>2. Stages'
  BY DEF Stages, Up
<1>3. Handshake'
  BY DEF Handshake, Stages, Up
<1>4. DevicesOutliveUsers'
  BY DEF DevicesOutliveUsers
<1>5. BorrowedUntilDetached'
  BY DEF BorrowedUntilDetached
<1>6. AssetsOutliveAudio'
  BY DEF AssetsOutliveAudio
<1>7. ReleasedWhole'
  BY DEF ReleasedWhole
<1> QED
  BY <1>1, <1>2, <1>3, <1>4, <1>5, <1>6, <1>7

\* Step Test: a task looks at the flag.
LEMMA TestInductive ==
  ASSUME Inductive, NEW s \in Samplers, Test(s)
  PROVE  Inductive'
<1> USE DEF Inductive, Test, SamplerSame
<1>1. TypeOK'
  <2>1. LauncherType'
    BY DEF TypeOK, LauncherType, Places
  <2>2. BoardType'
    BY DEF TypeOK, BoardType
  <2>3. TaskType'
    BY DEF TypeOK, TaskType
  <2>4. GameType'
    BY DEF TypeOK, GameType
  <2> QED
    BY <2>1, <2>2, <2>3, <2>4 DEF TypeOK
<1>2. Stages'
  BY DEF Stages, Up
<1>3. Handshake'
  BY DEF Handshake, Stages, Up
<1>4. DevicesOutliveUsers'
  BY DEF DevicesOutliveUsers
<1>5. BorrowedUntilDetached'
  BY DEF BorrowedUntilDetached
<1>6. AssetsOutliveAudio'
  BY DEF AssetsOutliveAudio
<1>7. ReleasedWhole'
  BY DEF ReleasedWhole
<1> QED
  BY <1>1, <1>2, <1>3, <1>4, <1>5, <1>6, <1>7

\* Step Read: a task reads its device.
LEMMA ReadInductive ==
  ASSUME Inductive, NEW s \in Samplers, Read(s)
  PROVE  Inductive'
<1> USE DEF Inductive, Read, SamplerSame
<1>1. TypeOK'
  <2>1. LauncherType'
    BY DEF TypeOK, LauncherType, Places
  <2>2. BoardType'
    BY DEF TypeOK, BoardType
  <2>3. TaskType'
    BY DEF TypeOK, TaskType
  <2>4. GameType'
    BY DEF TypeOK, GameType
  <2> QED
    BY <2>1, <2>2, <2>3, <2>4 DEF TypeOK
<1>2. Stages'
  BY DEF Stages, Up
<1>3. Handshake'
  BY DEF Handshake, Stages, Up
<1>4. DevicesOutliveUsers'
  BY DEF DevicesOutliveUsers
<1>5. BorrowedUntilDetached'
  BY DEF BorrowedUntilDetached
<1>6. AssetsOutliveAudio'
  BY DEF AssetsOutliveAudio
<1>7. ReleasedWhole'
  BY DEF ReleasedWhole
<1> QED
  BY <1>1, <1>2, <1>3, <1>4, <1>5, <1>6, <1>7

\* Step Push: a task pushes an event.
LEMMA PushInductive ==
  ASSUME Inductive, NEW s \in Samplers, Push(s)
  PROVE  Inductive'
<1> USE DEF Inductive, Push, SamplerSame
<1>1. TypeOK'
  <2>1. LauncherType'
    BY DEF TypeOK, LauncherType, Places
  <2>2. BoardType'
    BY DEF TypeOK, BoardType
  <2>3. TaskType'
    BY DEF TypeOK, TaskType
  <2>4. GameType'
    BY DEF TypeOK, GameType
  <2> QED
    BY <2>1, <2>2, <2>3, <2>4 DEF TypeOK
<1>2. Stages'
  BY DEF Stages, Up
<1>3. Handshake'
  BY DEF Handshake, Stages, Up
<1>4. DevicesOutliveUsers'
  BY DEF DevicesOutliveUsers
<1>5. BorrowedUntilDetached'
  BY DEF BorrowedUntilDetached
<1>6. AssetsOutliveAudio'
  BY DEF AssetsOutliveAudio
<1>7. ReleasedWhole'
  BY DEF ReleasedWhole
<1> QED
  BY <1>1, <1>2, <1>3, <1>4, <1>5, <1>6, <1>7

\* Step Give: a task gives its semaphore.
LEMMA GiveInductive ==
  ASSUME Inductive, NEW s \in Samplers, Give(s)
  PROVE  Inductive'
<1> USE DEF Inductive, Give, SamplerSame
<1>1. TypeOK'
  <2>1. LauncherType'
    BY DEF TypeOK, LauncherType, Places
  <2>2. BoardType'
    BY DEF TypeOK, BoardType
  <2>3. TaskType'
    BY DEF TypeOK, TaskType
  <2>4. GameType'
    BY DEF TypeOK, GameType
  <2> QED
    BY <2>1, <2>2, <2>3, <2>4 DEF TypeOK
<1>2. Stages'
  BY DEF Stages, Up
<1>3. Handshake'
  BY DEF Handshake, TypeOK, LauncherType, BoardType, TaskType, GameType,
     Stages, Up
<1>4. DevicesOutliveUsers'
  BY DEF DevicesOutliveUsers
<1>5. BorrowedUntilDetached'
  BY DEF BorrowedUntilDetached
<1>6. AssetsOutliveAudio'
  BY DEF AssetsOutliveAudio
<1>7. ReleasedWhole'
  BY DEF ReleasedWhole
<1> QED
  BY <1>1, <1>2, <1>3, <1>4, <1>5, <1>6, <1>7

\* No step leaves the invariant.
LEMMA NextInductive == Inductive /\ [Next]_vars => Inductive'
<1> SUFFICES ASSUME Inductive, [Next]_vars PROVE Inductive'
  OBVIOUS
<1>1. CASE Startup
  BY <1>1, CreateInductive, InitManagerInductive, CreatePresenterInductive,
     InitImuInductive, OpenVideoInductive, CreateLocksInductive,
     AttachInductive DEF Startup
<1>2. CASE Running
  BY <1>2, GameStartInductive, FirstFrameInductive, StartInputInductive,
     SpawnInductive, ReadyInductive, PlayInductive, GameStopInductive DEF
     Running
<1>3. CASE Goodbye
  BY <1>3, SilenceInductive, SilenceAgainInductive, FreeGameInductive,
     DetachInductive, HushInductive DEF Goodbye
<1>4. CASE Cleanup
  BY <1>4, ShutAudioDownInductive, HaltInductive, JoinInductive,
     JoinTimeoutInductive, JoinedInductive, CloseVideoInductive,
     DeletePresenterInductive, DeinitManagerInductive, ReleasePowerInductive,
     FinishInductive DEF Cleanup, Step, Stopping
<1>5. CASE Retry
  BY <1>5, RetryInductive
<1>6. CASE \E s \in Samplers : Sampler(s)
  BY <1>6, TestInductive, ReadInductive, PushInductive, GiveInductive DEF
     Sampler
<1>7. CASE UNCHANGED vars
  BY <1>7 DEF vars, Inductive, TypeOK, LauncherType, BoardType,
     TaskType, GameType, Stages, Handshake, DevicesOutliveUsers,
     BorrowedUntilDetached, AssetsOutliveAudio, ReleasedWhole, Up
<1> QED
  BY <1>1, <1>2, <1>3, <1>4, <1>5, <1>6, <1>7 DEF Next

\* The invariant holds in every state.
THEOREM InductiveHolds == Spec => []Inductive
<1>1. Init => Inductive
  BY InitInductive
<1>2. Inductive /\ [Next]_vars => Inductive'
  BY NextInductive
<1> QED
  BY <1>1, <1>2, PTL DEF Spec

\* Every variable keeps its type.
THEOREM TypeCorrect == Spec => []TypeOK
<1>1. Inductive => TypeOK
  BY DEF Inductive
<1> QED
  BY <1>1, InductiveHolds, PTL

\* No failure and no timeout releases a device, a queue or a semaphore under
\* the task that uses it.
THEOREM UsersOutlived == Spec => []DevicesOutliveUsers
<1>1. Inductive => DevicesOutliveUsers
  BY DEF Inductive
<1> QED
  BY <1>1, InductiveHolds, PTL

\* A provider's borrowed interfaces stay valid until it has let go.
THEOREM ProviderIsSafe == Spec => []BorrowedUntilDetached
<1>1. Inductive => BorrowedUntilDetached
  BY DEF Inductive
<1> QED
  BY <1>1, InductiveHolds, PTL

\* The game's memory and assets outlive the audio worker.
THEOREM GameOutlivesAudio == Spec => []AssetsOutliveAudio
<1>1. Inductive => AssetsOutliveAudio
  BY DEF Inductive
<1> QED
  BY <1>1, InductiveHolds, PTL

\* Whatever timed out, what is lent outlives its borrower.
THEOREM LoansAreSafe == Spec => []LendersOutliveBorrowers
<1>1. BorrowedUntilDetached /\ AssetsOutliveAudio => LendersOutliveBorrowers
  BY DEF LendersOutliveBorrowers
<1> QED
  BY <1>1, ProviderIsSafe, GameOutlivesAudio, PTL

\* A board that is not claimed has left nothing behind.
THEOREM NothingLeaks == Spec => []ReleasedWhole
<1>1. Inductive => ReleasedWhole
  BY DEF Inductive
<1> QED
  BY <1>1, InductiveHolds, PTL

==============================================================================
