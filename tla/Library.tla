------------------------------- MODULE Library -------------------------------
(***************************************************************************)
(* The components a game stands on, as far as they share nothing with each *)
(* other, side by side: the video and the board of the ESP32-S3-BOX-3, the *)
(* video and the server of the preview host, the runtime statistics, the   *)
(* asset store and the textures on top of it.  "which" says at the start   *)
(* whose behaviour is looked at, and it never changes; the others rest.    *)
(* What is said here of a component is what LibraryProofs proves for all   *)
(* values of the constants.                                                *)
(***************************************************************************)
EXTENDS Integers, Sequences, FiniteSets

CONSTANTS
  None,
  PanelRows, Buffers, MaxFrames, Sizes, Lcd,             \* Box3Video
  Targets, Strides, MaxDrawn,                            \* HostVideo
  PointerTracks, PointerSlots, Actions, Handlers, Builds, \* Preview
  MaxCounted,                                            \* RuntimeStats
  ClockWord, ClockSecond, PauseGap, ClockBegins,         \* RateWindow
  ClockWaits, ClockEnd,
  AssetNames, Packs, Addr, Views, AssetSize, AssetId(_), \* Assets
  MaxFiles, Capacity,
  AtlasFrames, Maps, Walls, Malformed, Line(_),          \* Textures
  MaxTextures, MaxMaps, MaxWalls, Lights

VARIABLES
  which,
  size, open, acquired, panelFailed, panelPc, row, wire, landed, panel, issued, accepted, answer,
  retries, claimed, manager, video, locks, queue, sampling, task, worker, audio, codec, boardPc,
  target, stride, token, generation, initialized, port, pixels, rendering, drawing, hostAlive,
  paused, wanted, reported, lock, loop, handler, game, alive, changed, window, before, mixed,
  statDrawing, pending, working, failed, todo, read, loaded, count, gauge, peak, shown, most,
  rateClock, rateOf, rateStart, rateEvents, rateLast, rateTold, rateOpened, rateFirst, rateSeen,
  mmap, backing, toc, heap, bytes, heapPeak, registered, view, stream,
  lease, texture, map, wall, shaded, found

Panel == INSTANCE Box3Video WITH Rows <- PanelRows, failed <- panelFailed, pc <- panelPc
Board == INSTANCE Box3Board WITH pc <- boardPc
Host == INSTANCE HostVideo WITH MaxFrames <- MaxDrawn, alive <- hostAlive
Server == INSTANCE Preview WITH
  Tracks <- PointerTracks, Slots <- PointerSlots, shown <- reported
Stats == INSTANCE RuntimeStats WITH MaxFrames <- MaxCounted, drawing <- statDrawing
Rate == INSTANCE RateWindow WITH
  Word <- ClockWord, Second <- ClockSecond, Gap <- PauseGap, Begins <- ClockBegins,
  Waits <- ClockWaits, MaxClock <- ClockEnd,
  clock <- rateClock, counts <- rateOf, started <- rateStart, events <- rateEvents,
  last <- rateLast, rate <- rateTold, opened <- rateOpened, first <- rateFirst, n <- rateSeen
Store == INSTANCE Assets WITH
  Names <- AssetNames, Size <- AssetSize, Id <- AssetId, peak <- heapPeak
Atlas == INSTANCE Textures WITH Frames <- AtlasFrames

Components == {"box3", "board", "host", "preview", "stats", "rate", "assets", "textures"}

\* The variables of each component.
PanelVars == <<size, open, acquired, panelFailed, panelPc, row, wire, landed,
  panel, issued, accepted, answer>>
BoardVars == <<retries, claimed, manager, video, locks, queue, sampling, task,
  worker, audio, codec, boardPc>>
HostVars == <<target, stride, token, generation, initialized, port, pixels,
  rendering, drawing, hostAlive>>
ServerVars == <<paused, wanted, reported, lock, loop, handler, game, alive,
  changed, window, before, mixed>>
StatsVars == <<statDrawing, pending, working, failed, todo, read, loaded,
  count, gauge, peak, shown, most>>
RateVars == <<rateClock, rateOf, rateStart, rateEvents, rateLast, rateTold,
  rateOpened, rateFirst, rateSeen>>
StoreVars == <<mmap, backing, toc, heap, bytes, heapPeak, registered, view,
  stream>>
AtlasVars == <<lease, texture, map, wall, shaded, found>>
components == <<which, PanelVars, BoardVars, HostVars, ServerVars, StatsVars, RateVars, StoreVars,
  AtlasVars>>

\* A component that is not looked at.
PanelRests ==
  /\ size = None /\ open = None /\ acquired = None /\ panelFailed = None /\ panelPc = None
  /\ row = None /\ wire = None /\ landed = None /\ panel = None /\ issued = None
  /\ accepted = None /\ answer = None
BoardRests ==
  /\ retries = None /\ claimed = None /\ manager = None /\ video = None /\ locks = None
  /\ queue = None /\ sampling = None /\ task = None /\ worker = None /\ audio = None
  /\ codec = None /\ boardPc = None
HostRests ==
  /\ target = None /\ stride = None /\ token = None /\ generation = None /\ initialized = None
  /\ port = None /\ pixels = None /\ rendering = None /\ drawing = None /\ hostAlive = None
ServerRests ==
  /\ paused = None /\ wanted = None /\ reported = None /\ lock = None /\ loop = None
  /\ handler = None /\ game = None /\ alive = None /\ changed = None /\ window = None
  /\ before = None /\ mixed = None
StatsRests ==
  /\ statDrawing = None /\ pending = None /\ working = None /\ failed = None /\ todo = None
  /\ read = None /\ loaded = None /\ count = None /\ gauge = None /\ peak = None /\ shown = None
  /\ most = None
RateRests ==
  /\ rateClock = None /\ rateOf = None /\ rateStart = None /\ rateEvents = None /\ rateLast = None
  /\ rateTold = None /\ rateOpened = None /\ rateFirst = None /\ rateSeen = None
StoreRests ==
  /\ mmap = None /\ backing = None /\ toc = None /\ heap = None /\ bytes = None
  /\ heapPeak = None /\ registered = None /\ view = None /\ stream = None
AtlasRests ==
  /\ lease = None /\ texture = None /\ map = None /\ wall = None /\ shaded = None /\ found = None

\* The component at work starts as it does by itself.
Start ==
  /\ IF which = "box3" THEN Panel!Init ELSE PanelRests
  /\ IF which = "board" THEN Board!Init ELSE BoardRests
  /\ IF which = "host" THEN Host!Init ELSE HostRests
  /\ IF which = "preview" THEN Server!Init ELSE ServerRests
  /\ IF which = "stats" THEN Stats!Init ELSE StatsRests
  /\ IF which = "rate" THEN Rate!Init ELSE RateRests
  /\ IF which = "assets" THEN Store!Init ELSE StoreRests
  /\ IF which = "textures" THEN Atlas!Init ELSE AtlasRests

Move ==
  /\ UNCHANGED which
  /\ IF which = "box3" THEN Panel!Next ELSE UNCHANGED PanelVars
  /\ IF which = "board" THEN Board!Next ELSE UNCHANGED BoardVars
  /\ IF which = "host" THEN Host!Next ELSE UNCHANGED HostVars
  /\ IF which = "preview" THEN Server!Next ELSE UNCHANGED ServerVars
  /\ IF which = "stats" THEN Stats!Next ELSE UNCHANGED StatsVars
  /\ IF which = "rate" THEN Rate!Next ELSE UNCHANGED RateVars
  /\ IF which = "assets" THEN Store!Next ELSE UNCHANGED StoreVars
  /\ IF which = "textures" THEN Atlas!Next ELSE UNCHANGED AtlasVars

LibraryInit == which \in Components /\ Start
LibrarySpec == LibraryInit /\ [][Move]_components
-----------------------------------------------------------------------------
(* What the theorems about a component ask of its constants: that amounts  *)
(* are numbers, that None stands for nothing else, and what the tables of  *)
(* the games are built to.                                                 *)

PanelConstants == PanelRows \in Nat \ {0} /\ Buffers \in Nat /\ MaxFrames \in Nat

HostFrames == [token : Nat, pixels : Targets]

\* None is neither a buffer nor a frame.
HostConstants == MaxDrawn \in Nat /\ None \notin Targets /\ None \notin HostFrames

\* None is no finger and no thread, and the stepping thread serves no request.
PreviewConstants ==
  /\ PointerSlots \in Nat /\ IsFiniteSet(PointerTracks) /\ None \notin PointerTracks
  /\ Actions \subseteq {"left", "right", "jump", "restart"}
  /\ None \notin Handlers /\ "loop" \notin Handlers /\ None # "loop"

\* None is no time and no rate.
RateType == [count : Nat, elapsed : Nat, n : Nat, times : SUBSET Nat]
RateConstants ==
  /\ ClockWord \in Nat \ {0} /\ ClockSecond \in Nat \ {0} /\ PauseGap \in Nat
  /\ ClockBegins \subseteq Nat /\ ClockWaits \subseteq Nat
  /\ None \notin Nat /\ None \notin RateType

Entry == [name : AssetNames, buf : Addr \cup {None}, refs : Nat]
Held == [name : AssetNames, at : Addr \cup {"mmap", "image", "registered"}]

\* Places are no addresses, and None is nothing of what it stands in for.
AssetConstants ==
  /\ IsFiniteSet(Views) /\ AssetSize \in [AssetNames -> Nat]
  /\ \A p \in Packs : p.files \in Seq(AssetNames)
  /\ {"mmap", "image", "registered"} \cap (Addr \cup {None}) = {}
  /\ None \notin Addr /\ None \notin AssetNames /\ None # "toc" /\ None \notin Held

CacheType == [id : Atlas!Id, frame : Nat]
SlotType == [of : Atlas!Atlases \cup {"rgb565"}, line : [Atlas!Lines -> CacheType \cup {None}],
             light : Lights \cup {Atlas!Full}]
MapType == [of : DOMAIN Maps, texture : 1 .. MaxTextures]

\* Each name is that of one asset, and None is no slot, map or cached frame.
TextureConstants ==
  /\ MaxTextures \in Nat /\ MaxMaps \in Nat /\ MaxWalls \in Nat
  /\ Maps \in [DOMAIN Maps -> Atlas!Atlases] /\ \A a \in Atlas!Atlases : AtlasFrames[a] \in Seq(Atlas!Id)
  /\ Atlas!Atlases \cap (DOMAIN Maps \cup Walls) = {} /\ DOMAIN Maps \cap Walls = {}
  /\ "rgb565" \notin Atlas!Asset
  /\ None \notin SlotType /\ None \notin MapType /\ None \notin CacheType

-----------------------------------------------------------------------------
(* The asset store: leases match the views the game holds, the heap holds  *)
(* what is leased, and a stream loses no byte to a failed read.  On top of *)
(* it, atlases, tilemaps and wall atlases hold exactly the leases they     *)
(* took, and a frame that is looked up is the one that was asked for.      *)
StoresAreTrue ==
  /\ which = "assets" => Store!TypeOK /\ Store!LeasesMatchViews /\ Store!HeapAccounted /\ Store!StreamsLoseNothing
  /\ which = "textures" => Atlas!TypeOK /\ Atlas!LeasesAreHeld /\ Atlas!FramesAreRight

(* The BOX-3: its panel shows the last accepted frame whole, and its tasks *)
(* never outlive what they use.                                            *)
PanelIsFaithful ==
  /\ which = "box3" => Panel!TypeOK /\ Panel!PanelShowsAccepted
  /\ which = "board" => Board!UsersHaveTheirBoard

(* The host preview draws into the runner's current target or nowhere; its *)
(* server lets one thread at a time into the game, the edges its window    *)
(* tells of are those of one frame, and it holds the reported fingers.     *)
DrawsIntoTarget ==
  /\ which = "host" => Host!DrawsIntoTarget
  /\ which = "preview" => Server!OneInTheGame /\ Server!EdgesTellChanges /\ Server!FingersAreHeld

(* The statistics count each frame once and lose none, whatever its end;   *)
(* a published rate is that of its window.                                 *)
StatsAreTrue ==
  /\ which = "stats" => Stats!CountsAddUp
  /\ which = "rate" => Rate!RateIsMeasured
=============================================================================
