-------------------------------- MODULE Games --------------------------------
(***************************************************************************)
(* The rules, records and controls of games and the interface they are     *)
(* built with, side by side as the components of Library are: "title" says *)
(* at the start whose behaviour is looked at, and it never changes.  What  *)
(* is said here of a game is what GamesProofs proves for all values of the *)
(* constants.                                                              *)
(***************************************************************************)
EXTENDS Integers, Sequences, FiniteSets

CONSTANTS
  Nil,
  Courses, Times, Faults, TargetLaps,                    \* RallyRecords
  TrackLength, Gates, LapsToGo, MaxStep, Rivals,         \* RallyRace
  CountdownTicks, OfftrackTicks, FullIntegrity, Cooldown, MissCooldown, MissGaps,
  Ramp, Rearm, LaunchStep, JumpSpeed, Gravity, Tank, Drain, Recharge,
  Payout, MaxRisk, ComboTimeout, MaxCombo, RideControls, Word,
  Enemies, Hp(_), Barrels, Ammo, Health, Supplies,       \* LastZone
  AlertTicks, SearchTicks, AimTicks, Lock,
  Thumbs, TrackIds, Matching,                            \* LastZoneInput
  Scenes, FirstScene, Parts, Musical,                    \* WorldSession
  Levels, Lives, HopSlots, Fingers, NoFinger,            \* SkyHop
  TowerPads, TowerFoes, TowerShots, TowerPath, Savings,   \* TowerDefense
  TowerBase, FoeHp(_), WaveSize(_), LastWave,
  Nodes, UiTracks, UiCells, Directions, UiPointers,      \* Interface
  StackScenes, Depth

VARIABLES
  title,
  slot, flash, phase, flags, laps, last, course, best, driven, misread,
  racePhase, countdown, progress, raceLaps, gate, missed, offtrack, integrity, rival, position, bike, log,
  missionPhase, turn, enemies, barrels, ammo, health, supplies, aimLock, kills, watched, fair,
  stickPhase, ready, warmup, blocked, mask, capture, stickFinger,
  worldOpen, scene, background, volumes, worldHeld, tracks, attempted, playing, touch, effects, stuck,
  hopPhase, level, lives, held, pointer, finger,
  towerPhase, tapping, towerType, towers, credits, base, foes, volley, wave, spawned, fallen, through,
  visible, lit, focused, uiPointer, glass, clicks, turned, stack, life

Rally == INSTANCE RallyRecords
Race == INSTANCE RallyRace WITH
  Length <- TrackLength, TargetLaps <- LapsToGo, Whole <- FullIntegrity, Controls <- RideControls,
  phase <- racePhase, laps <- raceLaps
Mission == INSTANCE LastZone WITH phase <- missionPhase, lock <- aimLock
Stick == INSTANCE LastZoneInput WITH
  None <- Nil, Fingers <- Thumbs, Tracks <- TrackIds, phase <- stickPhase, finger <- stickFinger
Worlds == INSTANCE WorldSession WITH
  None <- Nil, First <- FirstScene, Tracks <- Musical, open <- worldOpen, held <- worldHeld
Hop == INSTANCE SkyHop WITH Slots <- HopSlots, Nobody <- NoFinger, phase <- hopPhase
Tower == INSTANCE TowerDefense WITH
  Pads <- TowerPads, Enemies <- TowerFoes, Shots <- TowerShots, Path <- TowerPath, Start <- Savings,
  Base <- TowerBase, Hp <- FoeHp, Total <- WaveSize, MaxWaves <- LastWave,
  phase <- towerPhase, down <- tapping, selected <- towerType, enemies <- foes, shots <- volley,
  killed <- fallen
Ui == INSTANCE Interface WITH
  None <- Nil, Tracks <- UiTracks, Cells <- UiCells, Pointers <- UiPointers, Scenes <- StackScenes,
  pointer <- uiPointer

Titles == {"records", "race", "zone", "stick", "worlds", "skyhop", "tower", "ui"}

\* The variables of each.
RallyVars == <<slot, flash, phase, flags, laps, last, course, best, driven,
  misread>>
RaceVars == <<racePhase, countdown, progress, raceLaps, gate, missed,
  offtrack, integrity, rival, position, bike, log>>
MissionVars == <<missionPhase, turn, enemies, barrels, ammo, health, supplies,
  aimLock, kills, watched, fair>>
StickVars == <<stickPhase, ready, warmup, blocked, mask, capture, stickFinger>>
WorldsVars == <<worldOpen, scene, background, volumes, worldHeld, tracks,
  attempted, playing, touch, effects, stuck>>
HopVars == <<hopPhase, level, lives, held, pointer, finger>>
TowerVars == <<towerPhase, tapping, towerType, towers, credits, base, foes,
  volley, wave, spawned, fallen, through>>
UiVars == <<visible, lit, focused, uiPointer, glass, clicks, turned, stack, life>>
games == <<title, RallyVars, RaceVars, MissionVars, StickVars, WorldsVars, HopVars, TowerVars, UiVars>>

\* A game that is not looked at.
RallyRests ==
  /\ slot = Nil /\ flash = Nil /\ phase = Nil /\ flags = Nil /\ laps = Nil /\ last = Nil
  /\ course = Nil /\ best = Nil /\ driven = Nil /\ misread = Nil
RaceRests ==
  /\ racePhase = Nil /\ countdown = Nil /\ progress = Nil /\ raceLaps = Nil /\ gate = Nil
  /\ missed = Nil /\ offtrack = Nil /\ integrity = Nil /\ rival = Nil /\ position = Nil
  /\ bike = Nil /\ log = Nil
MissionRests ==
  /\ missionPhase = Nil /\ turn = Nil /\ enemies = Nil /\ barrels = Nil /\ ammo = Nil
  /\ health = Nil /\ supplies = Nil /\ aimLock = Nil /\ kills = Nil /\ watched = Nil
  /\ fair = Nil
StickRests ==
  /\ stickPhase = Nil /\ ready = Nil /\ warmup = Nil /\ blocked = Nil /\ mask = Nil
  /\ capture = Nil /\ stickFinger = Nil
WorldsRests ==
  /\ worldOpen = Nil /\ scene = Nil /\ background = Nil /\ volumes = Nil /\ worldHeld = Nil
  /\ tracks = Nil /\ attempted = Nil /\ playing = Nil /\ touch = Nil /\ effects = Nil
  /\ stuck = Nil
HopRests ==
  /\ hopPhase = Nil /\ level = Nil /\ lives = Nil /\ held = Nil /\ pointer = Nil
  /\ finger = Nil
TowerRests ==
  /\ towerPhase = Nil /\ tapping = Nil /\ towerType = Nil /\ towers = Nil /\ credits = Nil
  /\ base = Nil /\ foes = Nil /\ volley = Nil /\ wave = Nil /\ spawned = Nil
  /\ fallen = Nil /\ through = Nil
UiRests ==
  /\ visible = Nil /\ lit = Nil /\ focused = Nil /\ uiPointer = Nil /\ glass = Nil
  /\ clicks = Nil /\ turned = Nil /\ stack = Nil /\ life = Nil

\* The one at work starts as it does by itself.
GamesStart ==
  /\ IF title = "records" THEN Rally!Init ELSE RallyRests
  /\ IF title = "race" THEN Race!Init ELSE RaceRests
  /\ IF title = "zone" THEN Mission!Init ELSE MissionRests
  /\ IF title = "stick" THEN Stick!Init ELSE StickRests
  /\ IF title = "worlds" THEN Worlds!Init ELSE WorldsRests
  /\ IF title = "skyhop" THEN Hop!Init ELSE HopRests
  /\ IF title = "tower" THEN Tower!Init ELSE TowerRests
  /\ IF title = "ui" THEN Ui!Init ELSE UiRests

Play ==
  /\ UNCHANGED title
  /\ IF title = "records" THEN Rally!Next ELSE UNCHANGED RallyVars
  /\ IF title = "race" THEN Race!Next ELSE UNCHANGED RaceVars
  /\ IF title = "zone" THEN Mission!Next ELSE UNCHANGED MissionVars
  /\ IF title = "stick" THEN Stick!Next ELSE UNCHANGED StickVars
  /\ IF title = "worlds" THEN Worlds!Next ELSE UNCHANGED WorldsVars
  /\ IF title = "skyhop" THEN Hop!Next ELSE UNCHANGED HopVars
  /\ IF title = "tower" THEN Tower!Next ELSE UNCHANGED TowerVars
  /\ IF title = "ui" THEN Ui!Next ELSE UNCHANGED UiVars

GamesInit == title \in Titles /\ GamesStart
GamesSpec == GamesInit /\ [][Play]_games
-----------------------------------------------------------------------------
(* What the theorems ask of the constants: that amounts are numbers, that  *)
(* Nil stands for nothing else, and what the tables of the games are built *)
(* to.                                                                     *)
RallyConstants ==
  Courses \in Nat \ {0} /\ Times \subseteq Nat \ {0} /\ TargetLaps \in Nat \ {0} /\ Faults \in BOOLEAN

\* Hostiles and the player are alive when a mission begins.
ZoneConstants ==
  /\ Enemies \in Nat /\ \A i \in 1 .. Enemies : Hp(i) \in Nat \ {0}
  /\ Health \in Nat \ {0} /\ {AimTicks, AlertTicks, SearchTicks, Barrels, Ammo, Lock} \subseteq Nat

StickConstants == Matching /\ Nil \notin TrackIds /\ TrackIds \subseteq Nat

WorldConstants == FirstScene \in Scenes /\ Nil \notin Scenes /\ Musical \subseteq Scenes

OnGlass == [track : Fingers, area : Hop!Areas]

HopConstants == Lives \in Nat \ {0} /\ Levels \in Nat \ {0} /\ NoFinger \notin OnGlass /\ NoFinger \notin Hop!Areas

\* An enemy of either kind stands when it is sent, and the base when the game
\* begins.
TowerConstants ==
  /\ {TowerPads, TowerFoes, TowerShots, Savings} \subseteq Nat
  /\ TowerPath \in Nat \ {0} /\ TowerBase \in Nat \ {0} /\ LastWave \in Nat \ {0}
  /\ \A kind \in Tower!Kinds : FoeHp(kind) \in Nat \ {0}

\* Nil is no finger, no place and no slot.
UiConstants ==
  /\ Nodes \in Seq([button : BOOLEAN, at : SUBSET UiCells])
  /\ UiPointers \in Nat /\ Nil \notin 1 .. UiPointers
  /\ Nil \notin UiTracks /\ Nil \notin UiCells

\* The gates lie on the track, in increasing order; nobody drives more than a
\* lap in a tick; the rivals start ahead of the player.
RaceConstants ==
  /\ TrackLength \in Nat \ {0} /\ LapsToGo \in Nat \ {0}
  /\ MaxStep \in Nat /\ MaxStep <= TrackLength
  /\ Gates \in Seq(1 .. TrackLength - 1)
  /\ \A g, h \in 1 .. Len(Gates) : g < h => Gates[g] < Gates[h]
  /\ \E n \in 0 .. TrackLength - 1 : Rivals = 1 .. n
  /\ CountdownTicks \in Nat \ {0} /\ OfftrackTicks \in Nat \ {0} /\ FullIntegrity \in Nat \ {0}
  /\ Cooldown \in Nat /\ MissCooldown \in Nat

\* The ramp lies before the place where the jump is armed again, an empty tank
\* does not fill with a tick for longer than a tick of flame, and the serial
\* tells one update from the next.
RideConstants ==
  /\ RaceConstants
  /\ Rearm \in Nat /\ Ramp \subseteq 0 .. Rearm - 1
  /\ Tank \in Nat /\ Drain \in Nat /\ Recharge \in Nat /\ Recharge <= Drain
  /\ Payout \in Nat \ {0} /\ MaxRisk \in Nat /\ ComboTimeout \in Nat /\ MaxCombo \in Nat
  /\ JumpSpeed \in Int /\ Gravity \in Int
  /\ Word \in Nat /\ Word > 1
-----------------------------------------------------------------------------
(* What is stored of a course was driven on it, and a clean slot has kept  *)
(* what was requested.                                                     *)
RecordsAreTrue == title = "records" => Rally!TypeOK /\ Rally!StoredWasDriven /\ Rally!CleanMeansKept

(* A step never makes a stored record worse, once the flash was read right. *)
RecordsOnlyImprove == [][title = "records" => Rally!RecordsImprove]_games

(* The living world on show is whole, or the one that was there stays; on  *)
(* a stack of scenes the top one runs, those below wait, none else is in.  *)
SceneIsWhole ==
  /\ title = "worlds" => Worlds!TypeOK /\ Worlds!SceneIsWhole
  /\ title = "ui" => Ui!TypeOK /\ Ui!ScenesTakeTurns

(* A control on the screen of Sky Hop and Last Zone is held only by a      *)
(* finger that is on it; a button is lit and called for one that is.       *)
NothingIsStuck ==
  /\ title = "skyhop" => Hop!TypeOK /\ Hop!NothingIsStuck
  /\ title = "stick" => Stick!TypeOK /\ Stick!CapturesAreTouched
  /\ title = "ui" => Ui!ButtonsFollowFingers

(* Games keep their rules: no lap without its gates, ranks that follow the *)
(* distance, a ride that pays what was driven; no shot without the aim it  *)
(* takes, and no mission won with a hostile up; every enemy of a wave was  *)
(* shot once, got through once or still walks.                             *)
RulesAreKept ==
  /\ title = "race" => Race!TypeOK /\ Race!RaceIsFair /\ Race!RideIsFair
  /\ title = "zone" => Mission!TypeOK /\ Mission!FairWarning /\ Mission!MissionAccounted
  /\ title = "tower" => Tower!TypeOK /\ Tower!EnemiesAccounted
=============================================================================
