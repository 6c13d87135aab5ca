------------------------------- MODULE Packer -------------------------------
(***************************************************************************)
(* The asset compiler (tools/pack_game_assets.py) and the readers of what  *)
(* it writes: the loaders of atlases and wall atlases                      *)
(* (raylib_lite_renderer.c), of tilemaps (raylib_lite_tilemap.c) and the   *)
(* decoder of sounds (raylib_lite_audio_decode.c).  The two halves share   *)
(* nothing but the bytes of a file.  A picture is the table of its frames, *)
(* a sound is its samples; the wording of a manifest is left out.          *)
(***************************************************************************)
EXTENDS Integers, Sequences, FiniteSets, FiniteSetsExt, SequencesExt, TLC

CONSTANTS
  Manifests,   \* sequences of items, of one [kind, output, ...] each
  Limits,      \* limit_bytes
  Id(_),       \* asset_id of a name; two names may share one
  TargetRate   \* target_rate, 24000

VARIABLES
  left,    \* items that are not compiled yet
  limit,
  out,     \* name of an output -> its file
  total,   \* bytes of the report
  status,  \* "compiling", "packed" or "refused" (a ValueError)
  deck     \* a sound being decoded: [of, cursor, predictor, index], or [of |-> "none"]

vars == <<left, limit, out, total, status, deck>>

Silent == [of |-> "none"]

Init ==
  /\ left \in Manifests
  /\ limit \in Limits
  /\ out = [n \in {} |-> 0]
  /\ total = 0
  /\ status = "compiling"
  /\ deck = Silent

Distinct(names) == \A i, j \in DOMAIN names : Id(names[i]) = Id(names[j]) => i = j
Frame(name, x, y, w, h) == [id |-> Id(name), x |-> x, y |-> y, w |-> w, h |-> h]
Rows(count, columns) == Max({1, (count + columns - 1) \div columns})

(* The regular grid of both kinds of atlases; a frame names the cell of    *)
(* the source it is cut from.                                              *)
GridFits(m) ==
  /\ m.columns > 0 /\ m.rows > 0
  /\ m.width >= m.columns /\ m.height >= m.rows
  /\ Len(m.frames) <= m.columns * m.rows
  /\ \A i \in DOMAIN m.frames : m.frames[i].cell \in 0 .. m.columns * m.rows - 1
Cells(m) == [i \in DOMAIN m.frames |->
  Frame(m.frames[i].name, ((i - 1) % m.across) * m.cell, ((i - 1) \div m.across) * m.cell,
        m.cell, m.cell)]
Names(m) == [i \in DOMAIN m.frames |-> m.frames[i].name] \o [i \in DOMAIN m.variants |-> m.variants[i].name]

----------------------------------------------------------------------------
(* Variants go below the grid, on shelves from left to right; a variant    *)
(* wider than the sheet makes the sheet wider.                             *)
FirstShelf(m) == [x |-> 0, y |-> Rows(Len(m.frames), m.across) * m.cell, high |-> 0,
                  width |-> m.across * m.cell, placed |-> <<>>]
Shelve(s, v) ==
  LET width == Max({s.width, v.w})
      new == s.x > 0 /\ s.x + v.w > width
      x == IF new THEN 0 ELSE s.x
      y == IF new THEN s.y + s.high ELSE s.y
  IN [x |-> x + v.w, y |-> y, high |-> Max({IF new THEN 0 ELSE s.high, v.h}), width |-> width,
      placed |-> Append(s.placed, Frame(v.name, x, y, v.w, v.h))]
Shelved(m) == FoldLeft(Shelve, FirstShelf(m), m.variants)

(* Which values the alpha channel of the sheet has: sprites keep a border  *)
(* of their cell clear.                                                    *)
Alphas(m) ==
  CASE m.alpha = "opaque" -> {"full"}
    [] m.alpha = "binary" -> {"clear", "full"}
    [] OTHER -> {"clear", "full"} \cup m.soft

AtlasRefused(m) ==
  \/ ~GridFits(m)
  \/ m.across \notin 1 .. m.columns * m.rows
  \/ ~Distinct(Names(m))
  \/ \E i \in DOMAIN m.variants :
       \/ m.variants[i].w <= 0 \/ m.variants[i].h <= 0
       \/ \A j \in DOMAIN m.frames : m.frames[j].name # m.variants[i].source
  \/ m.block /\ "soft" \in Alphas(m)

\* 20 and 16 bytes are sizeof(atlas_header_t) and sizeof(atlas_frame_t).  Blocks
\* (module Mtx2) make the file smaller than what is counted here.
WriteAtlas(m) ==
  LET shelved == Shelved(m)
      height == IF m.variants = <<>> THEN Rows(Len(m.frames), m.across) * m.cell
                ELSE shelved.y + shelved.high
      opaque == Alphas(m) = {"full"}
      rgb == shelved.width * height * 2
      alpha == IF opaque THEN 0 ELSE shelved.width * height
      frames == Cells(m) \o shelved.placed
  IN [kind |-> IF m.block THEN "mtx2" ELSE "msa1", width |-> shelved.width, height |-> height,
      frames |-> frames, binary |-> "soft" \notin Alphas(m), opaque |-> opaque,
      rgb |-> rgb, alpha |-> alpha, bytes |-> 20 + 16 * Len(frames) + rgb + alpha]

(* write_terrain_atlas: three tiles of one size, no alpha channel. *)
Tile == 32
WriteTerrain == [kind |-> "msa1", width |-> 3 * Tile, height |-> Tile,
  frames |-> [i \in 1..3 |-> Frame(<<"tile_grass", "tile_path", "tile_build">>[i], (i - 1) * Tile, 0, Tile, Tile)],
  binary |-> FALSE, opaque |-> FALSE, rgb |-> 6 * Tile * Tile, alpha |-> 0,
  bytes |-> 20 + 3 * 16 + 6 * Tile * Tile]

WallRefused(m) ==
  \/ ~GridFits(m)
  \/ m.cell <= 0
  \/ m.across \notin 1 .. Len(m.frames)
  \/ ~Distinct(Names(m))

(* The pixels of a wall atlas, as the cells of the source, in the order of *)
(* the file; 16 levels of light for each of 256 colours.                   *)
Indices(m, w, h) ==
  LET Texel(x, y) == LET i == (y \div m.cell) * m.across + x \div m.cell + 1
                     IN IF i \in DOMAIN m.frames THEN <<Id(m.frames[i].name), x % m.cell, y % m.cell>>
                        ELSE <<"none", x, y>>
  IN [k \in 0 .. w * h - 1 |->
        IF m.layout = "row-major" THEN Texel(k % w, k \div w) ELSE Texel(k \div h, k % h)]
WriteWalls(m) ==
  LET w == m.across * m.cell
      h == Rows(Len(m.frames), m.across) * m.cell
  IN [kind |-> IF m.layout = "row-major" THEN "msw2" ELSE "msw1", width |-> w, height |-> h,
      frames |-> Cells(m), indices |-> Indices(m, w, h),
      bytes |-> 20 + 16 * Len(m.frames) + 16 * 256 * 2 + w * h]

(* Light level and colour channel of the table: level 15 is full light. *)
LightOf(level) == (level * 256 + 7) \div 15
Lit(value, level) == IF LightOf(level) < 256 THEN (value * LightOf(level)) \div 256 ELSE value

----------------------------------------------------------------------------
(* A map of Tiled: layers of tiles, and objects that may have a path.      *)
MapRefused(m) ==
  \E l \in Range(m.layers) : Len(l.data) # m.width * m.height \/ ~(Range(l.data) \subseteq 0..3)

\* Bits of the collision table, as <<byte, bit>>.
Collision(m) == {<<i \div 8, i % 8>> : i \in {j \in 0 .. m.width * m.height - 1 :
                   \E l \in Range(m.layers) : l.name = "collision" /\ l.data[j + 1] # 0}}
WriteMap(m) ==
  LET points == FlattenSeq([i \in DOMAIN m.objects |-> m.objects[i].path])
      collision == (m.width * m.height + 7) \div 8
  IN [kind |-> "mtm1", width |-> m.width, height |-> m.height, tile |-> m.tile,
      layers |-> [i \in DOMAIN m.layers |-> m.layers[i].data], blocked |-> Collision(m),
      objects |-> [i \in DOMAIN m.objects |-> [id |-> Id(m.objects[i].name), at |-> m.objects[i].at]],
      points |-> points, atlas |-> Id(m.tileset),
      bytes |-> 32 + Len(m.layers) * m.width * m.height * 2 + collision
                + 16 * Len(m.objects) + 4 * Len(points)]

----------------------------------------------------------------------------
IMA_STEP == <<7,8,9,10,11,12,13,14,16,17,19,21,23,25,28,31,34,37,41,45,50,55,
  60,66,73,80,88,97,107,118,130,143,157,173,190,209,230,253,279,307,337,371,408,449,494,544,
  598,658,724,796,876,963,1060,1166,1282,1411,1552,1707,1878,2066,2272,2499,2749,3024,3327,
  3660,4026,4428,4871,5358,5894,6484,7132,7845,8630,9493,10442,11487,12635,13899,15289,16818,
  18500,20350,22385,24623,27086,29794,32767>>
IMA_INDEX == <<-1,-1,-1,-1,2,4,6,8>>
Clip(v, lo, hi) == Max({lo, Min({hi, v})})

(* One channel at the target rate: samples are averaged over the channels, *)
(* and repeated or left out.  Python rounds a half to the even number.     *)
Mono(s) == [i \in 1 .. Len(s.samples) \div s.channels |->
  MapThenSumSet(LAMBDA c : s.samples[(i - 1) * s.channels + c], 1 .. s.channels) \div s.channels]
Rounded(a, b) == LET q == a \div b
                     r == 2 * (a % b)
                 IN IF r > b \/ (r = b /\ q % 2 = 1) THEN q + 1 ELSE q
Resampled(s) ==
  LET mono == Mono(s) IN
  IF s.rate = TargetRate THEN mono
  ELSE [i \in 1 .. Max({1, Rounded(Len(mono) * TargetRate, s.rate)}) |->
          mono[Min({Len(mono), ((i - 1) * s.rate) \div TargetRate + 1})]]

(* The encoder: a sign and three bits of the difference to what the        *)
(* decoder will have reached.                                              *)
Code(delta, step) ==
  LET a == IF delta < 0 THEN -delta ELSE delta
      b == IF a >= step THEN a - step ELSE a
      c == IF b >= step \div 2 THEN b - step \div 2 ELSE b
  IN [neg |-> delta < 0,
      bits |-> (IF a >= step THEN 4 ELSE 0) + (IF b >= step \div 2 THEN 2 ELSE 0)
               + (IF c >= step \div 4 THEN 1 ELSE 0)]
Difference(bits, step) ==
  step \div 8 + (IF bits >= 4 THEN step ELSE 0) + (IF bits % 4 >= 2 THEN step \div 2 ELSE 0)
  + (IF bits % 2 = 1 THEN step \div 4 ELSE 0)
Advance(s, code) ==
  LET d == Difference(code.bits, IMA_STEP[s.index + 1]) IN
  [predictor |-> Clip(s.predictor + (IF code.neg THEN -d ELSE d), -32768, 32767),
   index |-> Clip(s.index + IMA_INDEX[code.bits + 1], 0, 88)]

\* The state after each sample, and the code that led there.
Encoded(mono) ==
  FoldLeft(LAMBDA trace, sample :
             LET s == Last(trace)
                 code == Code(sample - s.predictor, IMA_STEP[s.index + 1])
             IN Append(trace, [code |-> code] @@ Advance(s, code)),
           <<[code |-> 0, predictor |-> mono[1], index |-> 0]>>, Tail(mono))

\* Slip: the earlier code goes to the high half.
PackedHigh(codes) == [i \in 1 .. (Len(codes) + 1) \div 2 |->
     [high |-> codes[2 * i - 1],
      low |-> IF 2 * i <= Len(codes) THEN codes[2 * i] ELSE [neg |-> FALSE, bits |-> 0]]]
\* Two codes to a byte, the earlier one in the low half; the last half may be empty.
Packed(codes) ==
  [i \in 1 .. (Len(codes) + 1) \div 2 |->
     [low |-> codes[2 * i - 1],
      high |-> IF 2 * i <= Len(codes) THEN codes[2 * i] ELSE [neg |-> FALSE, bits |-> 0]]]

SoundRefused(s) ==
  \/ s.width # 2 \/ s.channels < 1
  \/ s.samples = <<>> /\ s.rate # TargetRate     \* an IndexError
WriteSound(s) ==
  LET mono == Resampled(s)
      trace == Encoded(mono)
  IN IF Len(mono) < TargetRate
     THEN [kind |-> "msn1", bits |-> 16, count |-> Len(mono), data |-> mono, bytes |-> 20 + 2 * Len(mono)]
     ELSE [kind |-> "msn1", bits |-> 4, count |-> Len(mono), first |-> mono[1],
           data |-> Packed([i \in 1 .. Len(mono) - 1 |-> trace[i + 1].code]),
           bytes |-> 24 + Len(mono) \div 2]

----------------------------------------------------------------------------
Refused(m) ==
  CASE m.kind = "atlas" -> AtlasRefused(m)
    [] m.kind = "wall" -> WallRefused(m)
    [] m.kind = "map" -> MapRefused(m)
    [] m.kind = "sound" -> SoundRefused(m)
    [] OTHER -> FALSE
Written(m) ==
  CASE m.kind = "atlas" -> WriteAtlas(m)
    [] m.kind = "wall" -> WriteWalls(m)
    [] m.kind = "map" -> WriteMap(m)
    [] m.kind = "sound" -> WriteSound(m)
    [] OTHER -> WriteTerrain

(* compile_assets, an item at a time: atlases, walls, maps, sounds in this *)
(* order.  A later item of the same output replaces the file.  The limit   *)
(* is looked at when all is written.                                       *)
Compile ==
  /\ status = "compiling"
  /\ left # <<>>
  /\ IF Refused(Head(left))
       THEN /\ status' = "refused"
            /\ UNCHANGED <<left, out, total>>
       ELSE \E file \in {Written(Head(left))} :
            /\ out' = (Head(left).output :> [made |-> Head(left), file |-> file]) @@ out
            /\ total' = total + file.bytes
            /\ left' = Tail(left)
            /\ UNCHANGED status
  /\ UNCHANGED <<limit, deck>>

Finish ==
  /\ status = "compiling"
  /\ left = <<>>
  /\ status' = IF total > limit THEN "refused" ELSE "packed"
  /\ UNCHANGED <<left, limit, out, total, deck>>

(* raylib_lite_audio_decode_open and _decoder_reset, by the bytes a clip   *)
(* of that many frames takes.                                              *)
Payload(f) == IF f.bits = 16 THEN 2 * f.count ELSE 4 + f.count \div 2
OpenSound(n) ==
  /\ status = "packed"
  /\ deck = Silent
  /\ out[n].file.kind = "msn1"
  /\ Payload(out[n].file) <= out[n].file.bytes - 20
  /\ deck' = [of |-> n, cursor |-> 0, index |-> 0,
              predictor |-> IF out[n].file.bits = 4 THEN out[n].file.first ELSE 0]
  /\ UNCHANGED <<left, limit, out, total, status>>

(* raylib_lite_audio_decode_next; the predictor is the sample it returns.  *)
CodeAt(data, k) == LET byte == data[k \div 2 + 1] IN IF k % 2 = 1 THEN byte.high ELSE byte.low
DecodeNext ==
  /\ deck # Silent
  /\ \E f \in {out[deck.of].file} :
       /\ deck.cursor < f.count
       /\ \E heard \in {CASE f.bits = 16 -> [predictor |-> f.data[deck.cursor + 1], index |-> 0]
                          [] f.bits = 4 /\ deck.cursor = 0 -> [predictor |-> deck.predictor, index |-> deck.index]
                          [] OTHER -> Advance(deck, CodeAt(f.data, deck.cursor - 1))} :
            deck' = [deck EXCEPT !.cursor = @ + 1, !.predictor = heard.predictor, !.index = heard.index]
  /\ UNCHANGED <<left, limit, out, total, status>>

CloseSound ==
  /\ deck # Silent
  /\ deck' = Silent
  /\ UNCHANGED <<left, limit, out, total, status>>

Next == Compile \/ Finish \/ (\E n \in DOMAIN out : OpenSound(n)) \/ DecodeNext \/ CloseSound

Spec == Init /\ [][Next]_vars

TypeOK ==
  /\ status \in {"compiling", "packed", "refused"}
  /\ deck # Silent => deck.of \in DOMAIN out /\ deck.index \in 0..88 /\ deck.predictor \in -32768 .. 32767

----------------------------------------------------------------------------
(* What the loaders make of a file.                                        *)
FindFrame(f, id) == SelectInSeq(f.frames, LAMBDA e : e.id = id)
\* raylib_lite_renderer_load_texture
LoadsTexture(f) ==
  /\ f.kind = "msa1"
  /\ f.width > 0 /\ f.height > 0
  /\ f.rgb = f.width * f.height * 2
  /\ 20 + 16 * Len(f.frames) + f.rgb + f.alpha <= f.bytes
\* sample_indexed_texel
IndexedTexel(f, x, y) == f.indices[IF f.kind = "msw2" THEN y * f.width + x ELSE x * f.height + y]
\* indexed_light_level
IndexedLevel(light) == (Min({light, 256}) * 15 + 128) \div 256
\* raylib_lite_tilemap_load, without the atlas it names
MaxPoints == 32
LoadsMap(f) ==
  /\ f.width > 0 /\ f.height > 0 /\ f.tile > 0 /\ f.layers # <<>>
  /\ Len(f.points) <= MaxPoints
  /\ 32 + Len(f.layers) * f.width * f.height * 2 + (f.width * f.height + 7) \div 8
       + 16 * Len(f.objects) + 4 * Len(f.points) <= f.bytes
IsBlocked(f, x, y) ==
  \/ x \notin 0 .. f.width - 1 \/ y \notin 0 .. f.height - 1
  \/ LET i == y * f.width + x IN <<i \div 8, i % 8>> \in f.blocked
FindObject(f, id) == f.objects[SelectInSeq(f.objects, LAMBDA o : o.id = id)]

Frames(f) == Range(f.frames)
Meet(a, b) == a.x < b.x + b.w /\ b.x < a.x + a.w /\ a.y < b.y + b.h /\ b.y < a.y + a.h
OnSheet(f) == \A a \in Frames(f) : a.x + a.w <= f.width /\ a.y + a.h <= f.height

(* Whatever the compiler wrote, the game finds in it what was asked for:   *)
(* each frame by the hash of its name, whole, on the sheet and beside the  *)
(* others, though variants are put on shelves that grow; a texture without *)
(* alpha has no clear pixel; each texel of a wall where the layout says.   *)
PicturesArePacked ==
  \A n \in DOMAIN out :
    LET f == out[n].file
        m == out[n].made
    IN /\ m.kind \in {"atlas", "wall"} =>
            /\ OnSheet(f)
            /\ \A i \in DOMAIN Names(m) : FindFrame(f, Id(Names(m)[i])) = i
            /\ \A a, b \in Frames(f) : a # b => ~Meet(a, b)
       /\ m.kind = "atlas" =>
            /\ ~m.block => LoadsTexture(f)
            /\ f.alpha = 0 <=> m.alpha = "opaque"
            /\ \A i \in DOMAIN m.variants :
                 LET a == f.frames[Len(m.frames) + i] IN a.w = m.variants[i].w /\ a.h = m.variants[i].h
       /\ m.kind = "wall" =>
            \A i \in DOMAIN m.frames, dx, dy \in 0 .. m.cell - 1 :
              LET a == f.frames[i] IN
              IndexedTexel(f, a.x + dx, a.y + dy) = <<Id(m.frames[i].name), dx, dy>>

(* The light a wall is drawn with is the one asked for, to within nine     *)
(* parts of 256, and no light makes a colour brighter than a stronger one. *)
WallsAreLit ==
  (\E n \in DOMAIN out : out[n].made.kind = "wall") =>
    /\ \A light \in 0 .. 256 : LightOf(IndexedLevel(light)) - light \in -9 .. 9
    /\ \A level \in 1 .. 15, v \in 0 .. 63 : Lit(v, level - 1) <= Lit(v, level)
    /\ \A v \in 0 .. 63 : Lit(v, 15) = v /\ Lit(v, 0) = 0

(* A map the loader takes is blocked exactly where a layer of collisions   *)
(* has a tile, and round about; the loader takes every map that has layers *)
(* and no more points than it has room for.                                *)
MapsArePacked ==
  \A n \in DOMAIN out : out[n].made.kind = "map" =>
    LET f == out[n].file
        m == out[n].made
    IN /\ LoadsMap(f) <=> m.layers # <<>> /\ Len(f.points) <= MaxPoints
       /\ \A x \in -1 .. m.width, y \in -1 .. m.height :
            IsBlocked(f, x, y) <=>
              x \in 0 .. m.width - 1 /\ y \in 0 .. m.height - 1 =>
                \E l \in Range(m.layers) : l.name = "collision" /\ l.data[y * m.width + x + 1] # 0
       /\ \A o \in Range(m.objects) : FindObject(f, Id(o.name)).at \in {p.at : p \in Range(m.objects)}

(* A sound is taken by the decoder at its full length, and follows its     *)
(* source: short ones are the same, of long ones each sample is within an  *)
(* eighth of the step in use, or nearer to the source than the one before  *)
(* by a step and a half.                                                   *)
SoundsArePacked ==
  \A n \in DOMAIN out : out[n].made.kind = "sound" =>
    LET f == out[n].file IN
    f.count = Len(Resampled(out[n].made)) /\ Payload(f) <= f.bytes - 20
Gap(a, b) == IF a < b THEN b - a ELSE a - b
SoundFollows ==
  deck # Silent /\ deck' # Silent =>
    LET f == out[deck.of].file
        s == Resampled(out[deck.of].made)[deck.cursor + 1]
        step == IMA_STEP[deck.index + 1]
    IN IF f.bits = 16 \/ deck.cursor = 0 THEN deck'.predictor = s
       ELSE Gap(s, deck'.predictor) <= Max({step \div 8 + 2, Gap(s, deck.predictor) - step - step \div 2})
=============================================================================
