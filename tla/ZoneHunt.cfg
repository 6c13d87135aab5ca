SPECIFICATION HuntSpec
CONSTANTS
  None = None
  Nil = Nil
  CreditOne = 6
  MaxLogic = 3
  CreditMax = 40
  LogicHz = 2
  Rates = {2, 5}
  Steps = {0, 1, 9, 25}
  MaxClock = 30
  PanelRows = 3
  Buffers = 2
  MaxFrames = 3
  Sizes <- GameSizes
  Lcd <- LcdSize
  Targets = {"p", "q"}
  Strides = {4, 5}
  MaxDrawn = 4
  PointerTracks = {1, 2}
  PointerSlots = 1
  Actions = {}
  Handlers = {"h", "k"}
  Builds = 2
  MaxCounted = 4
  ClockWord = 16
  ClockSecond = 5
  PauseGap = 2
  ClockBegins = {0, 13, 14, 15}
  ClockWaits = {1, 2, 3, 6}
  ClockEnd = 32
  AssetNames = {"a", "b", "c"}
  Packs <- ThreePacks
  Addr = {"h1", "h2", "h3"}
  Views = {"u", "v"}
  AssetSize <- SizeOf
  AssetId <- Hash
  MaxFiles = 2
  Capacity = 1
  AtlasFrames <- FrameIds
  Maps <- Tilesets
  Walls = {"walls", "bent"}
  Malformed = {"torn", "bent"}
  Line <- LineOf
  MaxTextures = 2
  MaxMaps = 1
  MaxWalls = 2
  Lights = {128}
  Courses = 2
  Times = {1, 2}
  Faults = TRUE
  TargetLaps = 1
  TrackLength = 6
  Gates <- ThreeGates
  LapsToGo = 2
  MaxStep = 2
  Rivals = {1}
  CountdownTicks = 1
  OfftrackTicks = 2
  FullIntegrity = 2
  Cooldown = 1
  MissCooldown = 1
  MissGaps = {}
  Ramp = {}
  Rearm = 5
  LaunchStep = 1
  JumpSpeed = 1
  Gravity = 1
  Tank = 1
  Drain = 1
  Recharge = 1
  Payout = 1
  MaxRisk = 1
  ComboTimeout = 1
  MaxCombo = 1
  RideControls <- NoControls
  Word = 3
  Enemies = 2
  Hp <- HitPoints
  Barrels = 1
  Ammo = 1
  Health = 2
  Supplies = {"health"}
  AlertTicks = 1
  SearchTicks = 1
  AimTicks = 2
  Lock = 1
  Thumbs = {"f", "g"}
  TrackIds = {0, 1, 9}
  Matching = TRUE
  Scenes = {"ocean", "aurora", "jungle"}
  FirstScene = "ocean"
  Parts <- SceneParts
  Musical = {"ocean", "jungle"}
  Levels = 2
  Lives = 2
  HopSlots = {1}
  Fingers = {"f", "g"}
  NoFinger = Nil
  TowerPads = 1
  TowerFoes = 2
  TowerShots = 2
  TowerPath = 2
  Savings = 100
  TowerBase = 2
  FoeHp <- Strength
  WaveSize <- TwoThenOne
  LastWave = 2
  Nodes <- Overlapping
  UiTracks = {"f", "g", "h"}
  UiCells = {1, 2}
  Directions = {}
  UiPointers = 2
  StackScenes = {"title"}
  Depth = 1
PROPERTY
  LastHostileComes
CHECK_DEADLOCK FALSE
