------------------------------ MODULE MCLibrary ------------------------------
(***************************************************************************)
(* Small instances of the modules that share nothing with each other, each *)
(* checked by itself in one run.  Those of Library and of Games have the   *)
(* values of their constants from the configuration; the others are        *)
(* instances made here, whose variables lie in the slots s1 .. s12 (those  *)
(* that are not needed stay None); Runner is extended and has its own.     *)
(***************************************************************************)
EXTENDS Library, Games, Runner, Sequences, TLC

VARIABLES s1, s2, s3, s4, s5, s6, s7, s8, s9, s10, s11, s12

(* Three assets, two of which have the same hash. *)
ThreePacks == {[files |-> f, defect |-> d] : f \in {<<"a", "b">>, <<"b", "c">>}, d \in {"none", "entry"}}
SizeOf == [a |-> 2, b |-> 1, c |-> 0]
Hash(n) == IF n = "c" THEN "b" ELSE n

(* Frame ids that share a line of the cache, and an atlas that cannot be used. *)
FrameIds == [hero |-> <<1, 3, 1>>, tiles |-> <<3, 2>>, torn |-> <<1>>]
Tilesets == [level |-> "tiles", lost |-> "torn"]
LineOf(id) == id % 2

(* A smaller, a wider and a taller game than the panel. *)
GameSizes == {<<2, 2>>, <<9, 4>>, <<3, 11>>}
LcdSize == <<8, 6>>

ThreeGates == <<2, 3, 5>>
SceneParts == [ocean |-> 2, aurora |-> 1, jungle |-> 1]
HitPoints(i) == i
NoControls == {{}}

\* A column of a wall, at a quarter of a texel of its piece.
Col(dst, src, step) == [dst |-> dst, src |-> src, phase |-> 1, step |-> step]

(* Shapes on, across and off a screen of 5 by 4; blocks of two columns. *)
C == INSTANCE Canvas WITH
  Width <- 5, Height <- 4, Texture <- <<6, 3>>, One <- 4,
  Boxes <- {<<x, y, w, h>> : x \in {-1, 2}, y \in {-2, 1}, w \in {0, 3, 7}, h \in {1, 3}} \cup {<<6, 1, 2, 2>>},
  Lines <- {<<x, y, 2, 1>> : x \in {-1, 2, 6}, y \in -1 .. 4} \cup {<<0, 3, 5, 0>>},
  Triangles <- {<<0, 0, x, y, z, 3>> : x \in {-2, 3, 5}, y \in {-1, 2}, z \in {-1, 2, 6}} \cup {<<3, -2, 6, 6, -2, 3>>},
  Circles <- {<<1, 1, 1>>, <<2, 2, 2>>, <<4, 0, 3>>},
  Pictures <- {<<<<sx, 0, sw, 2>>, <<x, -1, w, 5>>>> : sx \in {1, 4}, sw \in {2, -3}, x \in {-2, 0}, w \in {1, 3, 7}}
              \cup {<<<<0, 1, 6, -2>>, <<1, -1, 3, 4>>>>},
  Walls <- {<<Col(<<x, -1, 3, h>>, <<1, 0, 2, 3>>, 0), Col(<<1, 0, 2, 3>>, <<sx, -1, -1, 3>>, step), Col(<<3, -2, 4, 9>>, <<0, 1, 4, -2>>, 0)>>
              : x \in {-1, 2}, h \in {2, 7}, sx \in {3, 6}, step \in {0, 3}},
  Block <- 2,
  Spans <- {<<1, x, 5, u, v, 3, -2, 3, 2>> : x \in {-2, 0}, u \in {-5, 0}, v \in {0, 3}} \cup {<<2, -1, 4, 1, 1, 4, 0, 4, 3>>},
  Cameras <- {[target |-> <<1, 0>>, offset |-> <<0, 1>>, zoom |-> 2], [target |-> <<0, 0>>, offset |-> <<1, -1>>, zoom |-> 0]},
  Strides <- {5, 7}, Thick <- {<<<<0, 0, 3, 2>>, 2>>, <<<<0, 3, 3, 2>>, 3>>, <<<<2, 2, 2, 2>>, 5>>, <<<<1, -1, 3, 6>>, 7>>},
  Dashes <- {<<<<0, 1, 6, 1>>, 1, 1>>, <<<<3, 4, 3, -2>>, 2, 0>>, <<<<0, 3, 2, 3>>, 3, 1>>},
  Borders <- {<<<<0, 0, 5, 4>>, 1>>, <<<<1, -1, 3, 4>>, 2>>, <<<<2, 1, 1, 2>>, 1>>},
  Rounds <- {<<<<-2, -1, 9, 8>>, 1>>, <<<<2, 1, 5, 5>>, 1>>, <<<<-1, 0, 6, 5>>, 1>>, <<<<1, 1, 3, 3>>, 0>>},
  Convex <- {<<<<0, 0>>, <<0, 3>>, <<4, 3>>, <<3, 0>>>>, <<<<-1, 1>>, <<2, 5>>, <<6, 2>>, <<2, -1>>>>},
  Ellipses <- {<<2, 2, 2, 2>>, <<2, 1, 3, 1>>, <<3, 2, 1, 3>>},
  Font <- [i |-> <<0, 0, 0, 31, 0, 4, 21>>, slash |-> <<1, 2, 2, 4, 8, 8, 16>>],
  Texts <- {<<<<"i", "slash">>, -2, 0, 8>>, <<<<"slash", "space", "i">>, -13, -4, 7>>, <<<<"slash">>, -3, -6, 17>>, <<<<>>, 1, 1, 8>>},
  drawing <- s1, scissor <- s2, clip <- s3, asked <- s4, wrote <- s5, meant <- s6, camera <- s7, lens <- s8

\* A vertex; x and y in halves of a pixel.
At(x, y, u, v) == [x |-> x, y |-> y, u |-> u, v |-> v]

(* Polygons on, across and off the clip, with coordinates in the picture,  *)
(* in one of its mirror images and across two.                             *)
V == INSTANCE Polygons WITH
  Clips <- {<<0, 0, 6, 5>>, <<1, 1, 4, 3>>}, Texture <- <<5, 4>>, One <- 128,
  Triangles <- {<<At(ax, ay, 0, 0), At(bx, by, 4, ub), At(cx, 9, 0, 3)>> :
                  ax \in {0, 3}, ay \in {-2, 1}, bx \in {5, 13}, by \in {0, 3, 9}, cx \in {-1, 4}, ub \in {0, 6}},
  Quads <- {<<At(1, y, u, 0), At(9, z, u + 2, 1), At(0, w, u, 3), At(x, 7, u + 2, 3)>> :
              x \in {7, 10}, y \in {-1, 2}, z \in {0, 3}, w \in {6, 9}, u \in {0, 2, -3}},
  WallRows <- {[left |-> [u |-> a, v |-> 1, q |-> p], right |-> [u |-> b, v |-> 2, q |-> r], width |-> 7, from |-> f, to |-> t] :
                 a \in {0, 3}, b \in {0, 4}, p \in {1, 2, 4}, r \in {1, 3}, f \in {0, 1}, t \in {6, 7}},
  clip <- s1, asked <- s2, wrote <- s3, row <- s4, texels <- s5

(* A room with a block in its middle, two windows, a container and a door, *)
(* a crowd of three, one of them behind the block.                         *)
Block == <<<<1, 1, 1, 1, 1, 1, 1>>, <<1, 0, 0, 2, 0, 0, 1>>, <<1, 0, 0, 0, 0, 0, 3>>,
           <<1, 0, 0, 0, 1, 0, 1>>, <<1, 2, 0, 0, 0, 0, 4>>, <<1, 1, 1, 1, 1, 1, 1>>>>
View == INSTANCE ZoneView WITH
  Map <- Block,
  Poses <- {[x |-> x, y |-> y, dir |-> d, horizon |-> h] :
              x \in {10, 13}, y \in {11, 18}, d \in {<<5, 0>>, <<4, 3>>, <<3, -4>>, <<-4, 3>>}, h \in {7, 10}},
  Crowds <- {<<[x |-> 18, y |-> 10], [x |-> 14, y |-> 14], [x |-> 22, y |-> 18]>>},
  Unit <- 4, Norm <- 5, Plane <- <<4, 7>>, Screen <- 24, Rows <- 20, Column <- 4, Budget <- 12, Tall <- 12, Near <- 2, Texels <- 6,
  pc <- s1, pose <- s2, crowd <- s3, pixels <- s4, rays <- s5, drawn <- s6, strips <- s7

(* A short track that is all about the ride. *)
Ride == INSTANCE RallyRace WITH
  Length <- 4, Gates <- <<1, 2>>, TargetLaps <- 1, MaxStep <- 1, Rivals <- {1},
  CountdownTicks <- 1, OfftrackTicks <- 1, Whole <- 2, Cooldown <- 1, MissCooldown <- 1,
  MissGaps <- {2}, Ramp <- {1, 2}, Rearm <- 3, LaunchStep <- 0, JumpSpeed <- 1, Gravity <- 1,
  Tank <- 2, Drain <- 1, Recharge <- 1, Payout <- 1, MaxRisk <- 1, ComboTimeout <- 1,
  MaxCombo <- 2, Controls <- {{}, {"nitro"}, {"drift"}}, Word <- 2,
  phase <- s1, countdown <- s2, progress <- s3, laps <- s4, gate <- s5, missed <- s6,
  offtrack <- s7, integrity <- s8, rival <- s9, position <- s10, bike <- s11, log <- s12

(* A wave of two and one of one enemy; the second may be of the strong kind. *)
Strength(kind) == 2 + kind
TwoThenOne(n) == 2 - n \div 2

\* Pictures with rows and columns to pad, one of a single colour, one with holes.
Picture(w, h, Colour(_, _)) == [w |-> w, h |-> h, texel |-> [p \in (0 .. w - 1) \X (0 .. h - 1) |-> Colour(p[1], p[2])]]

X == INSTANCE Mtx2 WITH
  Images <- {Picture(6, 5, LAMBDA x, y : (3 * x + y) % 7), Picture(6, 5, LAMBDA x, y : 3),
             Picture(5, 5, LAMBDA x, y : IF (x * y) % 3 = 2 THEN None ELSE (2 * x + y) % 6)},
  Ends <- {<<1, 5>>, <<3, 3>>}, Lights <- {192}, One <- 4, Steps <- {-1, 0, 3, 4}, Chunk <- 1,
  image <- s1, file <- s2, texture <- s3, wrote <- s4, meant <- s5

(* Three fingers for two slots. *)
F == INSTANCE Box3Touch WITH
  Tracks <- {4, 7, 9}, Cells <- {1, 2},
  max <- s1, old <- s2, told <- s3, glass <- s4, refused <- s5

\* Sectors that are flat, and those with a slope.
Flat(f, c) == [solid |-> FALSE, floor |-> <<f, f, f, f>>, ceiling |-> <<c, c, c, c>>]
Slope(floor, ceiling) == [solid |-> FALSE, floor |-> floor, ceiling |-> ceiling]
Rock == [Flat(0, 0) EXCEPT !.solid = TRUE]

(* Two rooms: a hall with a ledge and a shelf that is too high to climb,   *)
(* and beyond a portal a ramp down to a low chamber.                       *)
Tomb == <<[x |-> 0, z |-> 0, sectors |-> <<<<Flat(1, 20), Flat(0, 20), Flat(6, 20)>>>>],
          [x |-> 1, z |-> 1, sectors |-> <<<<Slope(<<0, 0, -4, -4>>, <<16, 16, 16, 16>>), Rock>>, <<Flat(-4, 10), Rock>>>>]>>
Tread == INSTANCE TombWalk WITH
  Rooms <- Tomb, Portals <- {<<<<1, 0>>, <<1, 1>>>>, <<<<1, 1>>, <<1, 0>>>>},
  Moves <- {<<0, 0>>, <<1, 0>>, <<-1, 0>>, <<0, -1>>, <<1, 1>>, <<-1, 1>>}, Fingers <- {},
  Start <- [x |-> 9, y |-> 0, z |-> 3, room |-> 1], Booms <- {<<-3, 50, -4>>},
  Unit <- 6, Radius <- 2, StepUp <- 88, Snap <- 122, Headroom <- 428, Gravity <- 36, JumpSpeed <- 144,
  CameraHeight <- 330, First <- 1, Last <- 4, FloorGap <- 36, CeilingGap <- 25,
  at <- s1, grounded <- s2, speed <- s3, camera <- s4, joystick <- s5, look <- s6, button <- s7,
  deflected <- s8, jump <- s9, paused <- s10, glass <- s11, crossed <- s12

\* The same with an avatar that stands still and two fingers on the glass.
Grips == INSTANCE TombWalk WITH
  Rooms <- Tomb, Portals <- {<<<<1, 0>>, <<1, 1>>>>, <<<<1, 1>>, <<1, 0>>>>},
  Moves <- {<<0, 0>>}, Fingers <- {"f", "g"},
  Start <- [x |-> 9, y |-> 0, z |-> 3, room |-> 1], Booms <- {<<-3, 50, -4>>},
  Unit <- 6, Radius <- 2, StepUp <- 88, Snap <- 122, Headroom <- 428, Gravity <- 36, JumpSpeed <- 144,
  CameraHeight <- 330, First <- 1, Last <- 4, FloorGap <- 36, CeilingGap <- 25,
  at <- s1, grounded <- s2, speed <- s3, camera <- s4, joystick <- s5, look <- s6, button <- s7,
  deflected <- s8, jump <- s9, paused <- s10, glass <- s11, crossed <- s12

(* A hall, a ramp that widens beyond its portal, a second hall with a drop *)
(* at its end, and a niche beside the first, one step up.                  *)
To(side, from, to, room) == [side |-> side, from |-> from, to |-> to, room |-> room]
Down == Slope(<<-2, -2, 0, 0>>, <<4, 4, 6, 6>>)
Halls == <<
  [x |-> 0, z |-> 0, sectors |-> <<<<Flat(0, 6), Flat(1, 6)>>, <<Slope(<<0, 1, 0, 0>>, <<6, 6, 6, 6>>), Flat(0, 6)>>>>,
   portals |-> <<To("north", 0, 0, 2), To("east", 0, 0, 4)>>],
  [x |-> 0, z |-> -2, sectors |-> <<<<Flat(-2, 4), Flat(-2, 4), Flat(-2, 4)>>, <<Down, Down, Down>>>>,
   portals |-> <<To("south", 0, 0, 1), To("north", 1, 2, 3)>>],
  [x |-> 1, z |-> -3, sectors |-> <<<<Flat(-2, 4), Flat(-3, 3)>>>>, portals |-> <<To("south", 0, 1, 2)>>],
  [x |-> 2, z |-> 0, sectors |-> <<<<Flat(1, 5)>>>>, portals |-> <<To("west", 0, 0, 1)>>]>>
Look == INSTANCE TombView WITH
  Levels <- {Halls},
  Poses <- {[room |-> 1, at |-> a, yaw |-> y, pitch |-> t] :
              a \in {<<3, 3, 6>>, <<2, 3, 1>>, <<6, 4, 3>>}, y \in {<<0, -5>>, <<3, -4>>, <<4, -3>>}, t \in {<<0, 5>>, <<-3, 4>>}}
           \cup {[room |-> 3, at |-> <<6, 1, -9>>, yaw |-> y, pitch |-> <<0, 5>>] : y \in {<<0, 5>>, <<-3, 4>>}},
  Unit <- 4, Norm <- 5, Near <- 30, Doorway <- 2, Focal <- 7, Half <- 5, MaxVis <- 8, MaxDepth <- 4,
  level <- s1, mesh <- s2, pose <- s3, queue <- s4, head <- s5, drawn <- s6, picture <- s7

(* A nook with a door, to walk in.  A yard with a closet behind a door,    *)
(* two hostiles and a player who watches; the campaign, as it starts; and  *)
(* a hostile of its first mission that is the last one left, at full       *)
(* scale: 1/500 of a cell.                                                 *)
Nook == <<[map |-> <<<<1, 1, 1, 1, 1>>, <<1, 0, 4, 5, 1>>, <<1, 0, 1, 0, 1>>, <<1, 1, 1, 1, 1>>>>,
           spawn |-> <<1, 2>>, extract |-> <<3, 1>>, hostiles |-> <<>>, things |-> <<<<2, 2>>>>]>>
Yard == <<[map |-> <<<<1, 1, 1, 1, 1>>, <<1, 0, 0, 0, 1>>, <<1, 5, 2, 0, 1>>, <<1, 1, 1, 4, 1>>, <<1, 1, 1, 0, 1>>, <<1, 1, 1, 1, 1>>>>,
           spawn |-> <<1, 1>>, extract |-> <<1, 2>>, hostiles |-> <<<<3, 2>>, <<2, 1>>>>, things |-> <<>>]>>

Stroll == INSTANCE ZoneWalk WITH
  Missions <- Nook, Unit <- 10, Radius <- 1, Slide <- 2, Shift <- 1,
  Moves <- {<<1, 0>>, <<-1, 0>>, <<0, 1>>, <<0, -1>>, <<1, 1>>, <<-1, -1>>}, Facings <- {<<5, 0>>, <<3, -4>>},
  Steps <- {}, Knocks <- {}, Stride <- [search |-> 1, engage |-> 1], Noise <- 70, Modes <- {}, Renew <- 1, Rehold <- 1, Clock <- 1,
  mission <- s1, player <- s2, doors <- s3, explored <- s4, hostiles <- s5, things <- s6, clock <- s7, turn <- s8
Guards == INSTANCE ZoneWalk WITH
  Missions <- Yard, Unit <- 4, Radius <- 1, Slide <- 2, Shift <- 1, Moves <- {<<0, 0>>}, Facings <- {},
  Steps <- {<<2, 0>>, <<0, -2>>}, Knocks <- {<<2, 0>>}, Stride <- [search |-> 2, engage |-> 2], Noise <- 20,
  Modes <- {"search", "engage"}, Renew <- 2, Rehold <- 2, Clock <- 2,
  mission <- s1, player <- s2, doors <- s3, explored <- s4, hostiles <- s5, things <- s6, clock <- s7, turn <- s8
Deployed == INSTANCE ZoneWalk WITH
  Missions <- Stroll!Campaign, Unit <- 50, Radius <- 5, Slide <- 10, Shift <- 5, Moves <- {<<0, 0>>}, Facings <- {},
  Steps <- {}, Knocks <- {}, Stride <- [search |-> 1, engage |-> 1], Noise <- 70, Modes <- {}, Renew <- 8, Rehold <- 12, Clock <- 24,
  mission <- s1, player <- s2, doors <- s3, explored <- s4, hostiles <- s5, things <- s6, clock <- s7, turn <- s8
LastOne == <<[Stroll!Campaign[1] EXCEPT !.hostiles = <<<<15, 13>>>>, !.things = <<>>]>>
Hunt == INSTANCE ZoneWalk WITH
  Missions <- LastOne, Unit <- 500, Radius <- 50, Slide <- 100, Shift <- 50, Moves <- {<<0, 0>>}, Facings <- {},
  Steps <- {}, Knocks <- {}, Stride <- [search |-> 11, engage |-> 14], Noise <- 70, Modes <- {"search"}, Renew <- 8, Rehold <- 12, Clock <- 24,
  mission <- s1, player <- s2, doors <- s3, explored <- s4, hostiles <- s5, things <- s6, clock <- s7, turn <- s8

(* Sheets with four variants that are narrow, wide, wider than the sheet   *)
(* or tall; walls of both layouts; maps with two layers of collisions and  *)
(* paths at and beyond the room there is; waves of extremes, a sound of    *)
(* two channels at every rate; and a manifest with one of each.            *)
Cut(name, cell) == [name |-> name, cell |-> cell]
Variants == {[name |-> "v1", source |-> "hero", w |-> 3, h |-> 5], [name |-> "v2", source |-> "hero", w |-> 6, h |-> 2],
             [name |-> "v3", source |-> "hero", w |-> 11, h |-> 1], [name |-> "v4", source |-> "hero", w |-> 4, h |-> 4]}
Sheet(cut, variants, alpha, soft, block) ==
  [kind |-> "atlas", output |-> "a.atlas", width |-> 9, height |-> 7, columns |-> 2, rows |-> 2, across |-> 2,
   cell |-> 4, frames |-> cut, variants |-> variants, alpha |-> alpha, soft |-> soft, block |-> block]
WallSheet(across, layout) ==
  [kind |-> "wall", output |-> "w.wall", width |-> 8, height |-> 8, columns |-> 2, rows |-> 2, across |-> across,
   cell |-> 2, frames |-> <<Cut("brick", 0), Cut("door", 1), Cut("moss", 3)>>, variants |-> <<>>, layout |-> layout]
Layer(name, data) == [name |-> name, data |-> data]
Level(layers, n) ==
  [kind |-> "map", output |-> "m.map", width |-> 3, height |-> 3, tile |-> 8, tileset |-> "t.atlas", layers |-> layers,
   objects |-> <<[name |-> "start", at |-> 1, path |-> [i \in 1..n |-> i]], [name |-> "goal", at |-> 2, path |-> <<>>]>>]
Ground == Layer("ground", <<1,2,3,1,0,0,2,3,1>>)
Barriers == {Layer("collision", d) : d \in {<<0,0,0,0,0,0,0,0,1>>, <<1,0,0,2,0,0,0,3,0>>, <<1,0,0,4,0,0,0,0,0>>, <<1,2>>}}
Wav(channels, rate, s) == [kind |-> "sound", output |-> "s.sound", width |-> 2, channels |-> channels, rate |-> rate, samples |-> s]
Wave == {-32768, -700, 9, 32767}
Pack == INSTANCE Packer WITH
  Manifests <- {<<m>> : m \in
       {Sheet(<<Cut("hero", 0), Cut("foe", 3), Cut("tree", 1)>>, <<a, b, c, d>>, "smooth", {"soft"}, FALSE) : a, b, c, d \in Variants}
       \cup {Sheet(f, <<>>, a, {}, b) : f \in {<<Cut("hero", 2)>>, <<Cut("hero", 0), Cut("twin", 1)>>, <<Cut("hero", 4)>>},
                a \in {"binary", "opaque", "smooth"}, b \in BOOLEAN}
       \cup {WallSheet(a, l) : a \in 1..4, l \in {"row-major", "column-major"}}
       \cup {Level(l, n) : l \in {<<>>, <<Ground>>} \cup {<<Ground, b, c>> : b, c \in Barriers}, n \in {2, 32, 33}}
       \cup {Wav(1, 4, <<a, b, c, d, 32767>>) : a, b, c, d \in Wave}
       \cup {Wav(2, r, <<-9, 4, 32767, 1, 5, 6>>) : r \in {2, 3, 4, 6, 8}} \cup {Wav(1, r, <<5, -300>>) : r \in {1, 2, 3, 4, 8}}}
     \cup {<<[kind |-> "terrain", output |-> "t.atlas"], Sheet(<<Cut("hero", 2)>>, <<>>, "opaque", {}, FALSE),
             WallSheet(2, "row-major"), Level(<<Ground>>, 2), Wav(1, 4, s), Wav(1, 4, <<5, 6>>)>> : s \in {<<5>>, <<>>}},
  Limits <- {14600, 15700}, Id <- LAMBDA n : IF n = "twin" THEN "hero" ELSE n, TargetRate <- 4,
  left <- s1, limit <- s2, out <- s3, total <- s4, status <- s5, deck <- s6

(* A panel and two buttons that overlap, three fingers for two slots; and  *)
(* a stack with a scene more than it holds, beside buttons for a focus.    *)
Overlapping == <<[button |-> FALSE, at |-> {1, 2}], [button |-> TRUE, at |-> {1, 2}], [button |-> TRUE, at |-> {2}]>>
Stage == INSTANCE Interface WITH
  Nodes <- <<[button |-> TRUE, at |-> {}], [button |-> FALSE, at |-> {}], [button |-> TRUE, at |-> {}], [button |-> TRUE, at |-> {}]>>,
  Tracks <- {}, Cells <- {}, Directions <- {-1, 0, 1}, Pointers <- 0, Scenes <- {"title", "play", "menu", "end"}, Depth <- 3,
  visible <- s1, lit <- s2, focused <- s3, pointer <- s4, glass <- s5, clicks <- s6, turned <- s7, stack <- s8, life <- s9

(* One request at a time, with three fingers for two slots or with buttons. *)
Hands == INSTANCE Preview WITH
  Tracks <- {1, 2, 3}, Slots <- 2, Actions <- {}, Handlers <- {"h"}, Builds <- 1,
  paused <- s1, wanted <- s2, shown <- s3, lock <- s4, loop <- s5, handler <- s6, game <- s7,
  alive <- s8, changed <- s9, window <- s10, before <- s11, mixed <- s12
Buttons == INSTANCE Preview WITH
  Tracks <- {}, Slots <- 1, Actions <- {"left", "restart"}, Handlers <- {"h"}, Builds <- 1,
  paused <- s1, wanted <- s2, shown <- s3, lock <- s4, loop <- s5, handler <- s6, game <- s7,
  alive <- s8, changed <- s9, window <- s10, before <- s11, mixed <- s12

\* The values of the constants are such as the theorems ask for.
ASSUME TheoremsApply ==
  /\ PanelConstants /\ HostConstants /\ PreviewConstants /\ RateConstants /\ AssetConstants /\ TextureConstants
  /\ RallyConstants /\ RideConstants /\ ZoneConstants /\ StickConstants /\ WorldConstants /\ HopConstants
  /\ TowerConstants /\ UiConstants

-----------------------------------------------------------------------------
slots == <<s1, s2, s3, s4, s5, s6, s7, s8, s9, s10, s11, s12>>
After5 == <<s6, s7, s8, s9, s10, s11, s12>>
After6 == <<s7, s8, s9, s10, s11, s12>>
After7 == <<s8, s9, s10, s11, s12>>
After8 == <<s9, s10, s11, s12>>
After9 == <<s10, s11, s12>>
others == <<components, games, vars>>
all == <<others, slots>>

Chosen(name) == which = name /\ UNCHANGED which
Free0 ==
  /\ s1 = None /\ s2 = None /\ s3 = None /\ s4 = None /\ s5 = None /\ s6 = None
  /\ s7 = None /\ s8 = None /\ s9 = None /\ s10 = None /\ s11 = None /\ s12 = None
Free5 == s6 = None /\ s7 = None /\ s8 = None /\ s9 = None /\ s10 = None /\ s11 = None /\ s12 = None
Free6 == s7 = None /\ s8 = None /\ s9 = None /\ s10 = None /\ s11 = None /\ s12 = None
Free7 == s8 = None /\ s9 = None /\ s10 = None /\ s11 = None /\ s12 = None
Free8 == s9 = None /\ s10 = None /\ s11 = None /\ s12 = None
Free9 == s10 = None /\ s11 = None /\ s12 = None

\* What the runner's own variables are while another module is looked at.
RunnerAtRest == Init /\ fps = CHOOSE rate \in Rates : \A r \in Rates : rate <= r

MCInit ==
  /\ \/ which \in Components \cup {"games"} /\ RunnerAtRest /\ Free0
     \/ which = "runner" /\ Init /\ Free0
     \/ which = "canvas" /\ RunnerAtRest /\ C!Init /\ Free8
     \/ which = "polygons" /\ RunnerAtRest /\ V!Init /\ Free5
     \/ which = "view" /\ RunnerAtRest /\ View!Init /\ Free7
     \/ which = "hands" /\ RunnerAtRest /\ Hands!Init
     \/ which = "buttons" /\ RunnerAtRest /\ Buttons!Init
     \/ which = "stage" /\ RunnerAtRest /\ Stage!Init /\ Free9
     \/ which = "ride" /\ RunnerAtRest /\ Ride!Init
     \/ which = "mtx2" /\ RunnerAtRest /\ X!Init /\ Free5
     \/ which = "pack" /\ RunnerAtRest /\ Pack!Init /\ Free6
     \/ which = "glass" /\ RunnerAtRest /\ F!Init /\ Free5
     \/ which = "tomb" /\ RunnerAtRest /\ Tread!Init
     \/ which = "thumbs" /\ RunnerAtRest /\ Grips!Init
     \/ which = "rooms" /\ RunnerAtRest /\ Look!Init /\ Free7
     \/ which = "stroll" /\ RunnerAtRest /\ Stroll!Init /\ Free8
     \/ which = "guards" /\ RunnerAtRest /\ Guards!Init /\ Free8
     \/ which = "missions" /\ RunnerAtRest /\ Deployed!Init /\ Free8
  /\ title \in IF which = "games" THEN Titles ELSE {Nil}
  /\ Start /\ GamesStart

\* A component at work leaves the others alone, and so do these.
MCNext ==
  \/ which \in Components /\ Move /\ UNCHANGED <<games, vars, slots>>
  \/ Chosen("games") /\ Play /\ UNCHANGED <<components, vars, slots>>
  \/ Chosen("runner") /\ Next /\ UNCHANGED <<components, games, slots>>
  \/ Chosen("canvas") /\ C!Next /\ UNCHANGED <<others, After8>>
  \/ Chosen("polygons") /\ V!Next /\ UNCHANGED <<others, After5>>
  \/ Chosen("view") /\ View!Next /\ UNCHANGED <<others, After7>>
  \/ Chosen("hands") /\ Hands!Next /\ UNCHANGED others
  \/ Chosen("buttons") /\ Buttons!Next /\ UNCHANGED others
  \/ Chosen("stage") /\ Stage!Next /\ UNCHANGED <<others, After9>>
  \/ Chosen("ride") /\ Ride!Next /\ UNCHANGED others
  \/ Chosen("mtx2") /\ X!Next /\ UNCHANGED <<others, After5>>
  \/ Chosen("pack") /\ Pack!Next /\ UNCHANGED <<others, After6>>
  \/ Chosen("glass") /\ F!Next /\ UNCHANGED <<others, After5>>
  \/ Chosen("tomb") /\ Tread!Next /\ UNCHANGED others
  \/ Chosen("thumbs") /\ Grips!Next /\ UNCHANGED others
  \/ Chosen("rooms") /\ Look!Next /\ UNCHANGED <<others, After7>>
  \/ Chosen("stroll") /\ Stroll!Next /\ UNCHANGED <<others, After8>>
  \/ Chosen("guards") /\ Guards!Next /\ UNCHANGED <<others, After8>>
  \/ Chosen("missions") /\ Deployed!Next /\ UNCHANGED <<others, After8>>

MCSpec == MCInit /\ [][MCNext]_all

\* The hunt by itself: the ticks of a mission that is not given up.
HuntInit == which = "hunt" /\ RunnerAtRest /\ Hunt!Init /\ Free8 /\ title = Nil /\ Start /\ GamesStart
HuntNext == Chosen("hunt") /\ Hunt!Tick /\ UNCHANGED <<others, After8>>
HuntSpec == HuntInit /\ [][HuntNext]_all /\ WF_s7(Hunt!Passes)
-----------------------------------------------------------------------------
(* Drawing calls write the pixels they mean, inside the scissor and the    *)
(* screen; a polygon shows there what its corners ask for, and a wall in   *)
(* perspective is bent to within a quarter of a texel.  The few rays of    *)
(* Last Zone find every wall's edge, and its frame is whole; so is that of *)
(* Tomb Raycast, where the rooms behind a portal show inside it.  A touch  *)
(* of the BOX-3 means the pixel that is seen there, and the game holds the *)
(* fingers that lie on its picture.                                        *)
DrawsWhatIsMeant ==
  /\ which = "canvas" => C!DrawsWhatIsMeant /\ (s1 \/ C!CollisionsAreSeen)
  /\ which = "polygons" => V!PolygonsCover /\ V!WallsBend
  /\ which = "view" => View!EdgesAreSharp /\ View!FrameIsWhole /\ View!SpritesAreHidden
  /\ which = "rooms" => Look!RoomsShowThrough /\ Look!FrameIsWhole
  /\ which = "box3" => Panel!TouchesMeetPixels
  /\ which = "glass" => F!HoldsWhatIsSeen

(* The games keep their rules: a ride pays what was driven; nobody walks   *)
(* into a wall or is caught in one, hostiles take places they can walk to, *)
(* and every mission of the campaign can be won; the explorer of the tomb  *)
(* stands on a floor, in one room, and finds a way on, and the camera      *)
(* stays inside.  A control, on the screen or of Tomb Raycast, is held     *)
(* only by a finger that is on it, and a focus goes round; a scene on the  *)
(* stack runs, or waits, as it was told; the window of the host preview    *)
(* holds what the page reported.                                           *)
GamesAreFair ==
  /\ which = "ride" => Ride!TypeOK /\ Ride!RaceIsFair /\ Ride!RideIsFair
  /\ which = "tomb" => Tread!WalkIsSound /\ Tread!NeverTrapped /\ Tread!CameraIsInside
  /\ which = "stroll" => Stroll!NobodyInWalls /\ Stroll!NeverWalledIn
  /\ which = "guards" => Guards!NobodyInWalls /\ Guards!HoldsAreReachable
  /\ which = "missions" => Deployed!NobodyInWalls /\ Deployed!MissionsCanBeWon
  /\ which = "thumbs" => Grips!ControlsAreTouched
  /\ which = "stage" => Stage!TypeOK /\ Stage!FocusGoesRound /\ Stage!ScenesTakeTurns
  /\ which = "hands" => Hands!FingersAreHeld /\ Hands!EdgesTellChanges /\ Hands!OneInTheGame
  /\ which = "buttons" => Buttons!EdgesTellChanges /\ Buttons!OneInTheGame

(* The samplers of a block texture return what its encoder settled on, and *)
(* the compiler of the assets puts in what the loaders look for: a wall    *)
(* has the light that is asked for, and a sound all its samples.           *)
SamplesAreTrue ==
  /\ which = "mtx2" => X!SamplesWhatWasEncoded
  /\ which = "pack" => Pack!TypeOK /\ Pack!PicturesArePacked /\ Pack!MapsArePacked /\ Pack!WallsAreLit /\ Pack!SoundsArePacked

(* What no step may do: leave the video contract, make money in the tower  *)
(* defence without earning it, lift the explorer higher than a step,       *)
(* decode a sample far from its source, or lift a finger from a button     *)
(* unheard.                                                                *)
StepKeepsRules ==
  /\ which = "box3" => Panel!KeepsContract
  /\ title = "tower" => Tower!WorthIsEarned
  /\ which = "tomb" => Tread!StepsAreSmall
  /\ which = "pack" => Pack!SoundFollows
  /\ title = "ui" => Ui!ClicksAreHeard
StepsKeepRules == [][StepKeepsRules]_all

(* The last hostile of a mission comes to the extraction. *)
LastHostileComes == Hunt!LastOneComes
=============================================================================
