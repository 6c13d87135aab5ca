------------------------------ MODULE Textures ------------------------------
(***************************************************************************)
(* Who holds the assets of the pictures: texture slots and wall atlases    *)
(* (raylib_lite_renderer.c) and tilemaps (raylib_lite_tilemap.c), each of  *)
(* which leases assets from the store of module Assets, where opening may  *)
(* fail.  A slot also keeps a cache of frame lookups, and a copy of its    *)
(* pixels at one light.                                                    *)
(*                                                                         *)
(* The game unloads each thing it has loaded once, and uses it until then. *)
(***************************************************************************)
EXTENDS Integers, Sequences, FiniteSets, FiniteSetsExt, SequencesExt

CONSTANTS
  Frames,       \* atlas -> sequence of its frame ids; "rgb565" has none
  Maps,         \* tilemap -> the atlas its header names
  Walls,        \* wall atlases
  Malformed,    \* assets that can be opened but not used
  Line(_),      \* line of the frame cache of an id
  MaxTextures,  \* M2D_MAX_TEXTURES
  MaxMaps,      \* MTM_SLOTS
  MaxWalls,     \* bound: wall atlases a game holds at a time
  Lights,       \* quantized lights below full
  None

VARIABLES
  lease,    \* asset -> leases taken and not released
  texture,  \* s_textures: [of, line, light], None when not used
  map,      \* s_maps: [of, texture], None when not used
  wall,     \* wall atlas -> how many the game holds
  shaded,   \* light caches allocated and not freed
  found     \* of the last lookup of a frame: [want, got]

vars == <<lease, texture, map, wall, shaded, found>>

Atlases == DOMAIN Frames
Asset == Atlases \cup DOMAIN Maps \cup Walls
Id == UNION {Range(Frames[a]) : a \in Atlases}
Lines == {Line(id) : id \in Id}
Full == 256

Fresh(a) == [of |-> a, line |-> [l \in Lines |-> None], light |-> Full]

TypeOK ==
  /\ lease \in [Asset -> Nat]
  /\ \A t \in 1..MaxTextures : texture[t] # None =>
       /\ texture[t].of \in Atlases \cup {"rgb565"}
       /\ texture[t].light \in Lights \cup {Full}
  /\ \A m \in 1..MaxMaps : map[m] # None => map[m] \in [of : DOMAIN Maps, texture : 1..MaxTextures]
  /\ wall \in [Walls -> 0..MaxWalls]
  /\ shaded \in 0..MaxTextures

Init ==
  /\ lease = [a \in Asset |-> 0]
  /\ texture = [t \in 1..MaxTextures |-> None]
  /\ map = [m \in 1..MaxMaps |-> None]
  /\ wall = [w \in Walls |-> 0]
  /\ shaded = 0
  /\ found = [want |-> 0, got |-> 0]

FreeTexture == SelectInSeq(texture, LAMBDA s : s = None)
FreeMap == SelectInSeq(map, LAMBDA s : s = None)

Leased(a) == [lease EXCEPT ![a] = @ + 1]

----------------------------------------------------------------------------
(* raylib_lite_renderer_load_texture *)
LoadTexture(a) ==
  /\ \/ /\ a \notin Malformed /\ FreeTexture # 0
        /\ lease' = Leased(a)
        /\ texture' = [texture EXCEPT ![FreeTexture] = Fresh(a)]
     \/ /\ a \in Malformed \/ FreeTexture = 0
        /\ UNCHANGED <<lease, texture>>
  /\ UNCHANGED <<map, wall, shaded, found>>

RegisterRgb565 ==
  /\ FreeTexture # 0
  /\ texture' = [texture EXCEPT ![FreeTexture] = Fresh("rgb565")]
  /\ UNCHANGED <<lease, map, wall, shaded, found>>

OfMap(t) == \E m \in 1..MaxMaps : map[m] # None /\ map[m].texture = t
OfGame(t) == texture[t] # None /\ ~OfMap(t)

(* texture_slot_release *)
SlotReleased(t) ==
  /\ texture' = [texture EXCEPT ![t] = None]
  /\ shaded' = IF texture[t].light # Full THEN shaded - 1 ELSE shaded

(* The leases left when one of each of these assets is released; pixels    *)
(* that were registered have none.                                         *)
Released(assets) == [a \in Asset |-> IF a \in assets THEN lease[a] - 1 ELSE lease[a]]

UnloadTexture(t) ==
  /\ OfGame(t)
  /\ SlotReleased(t)
  /\ lease' = Released({texture[t].of})
  /\ UNCHANGED <<map, wall, found>>

(* raylib_lite_renderer_cache_texture_light: the copy may not be had. *)
CacheLight(t, light) ==
  /\ OfGame(t)
  /\ texture[t].light # light
  /\ texture' = [texture EXCEPT ![t].light = light]
  /\ shaded' = CASE light = Full -> shaded - 1
                 [] light # Full -> IF texture[t].light = Full THEN shaded + 1 ELSE shaded
  /\ UNCHANGED <<lease, map, wall, found>>

FirstFrame(a, id) == IF a = "rgb565" THEN 0 ELSE SelectInSeq(Frames[a], LAMBDA f : f = id)

Hits(entry, id) == entry # None /\ entry.id = id

(* find_frame, of a slot in use. *)
GetFrame(t, id) ==
  /\ texture[t] # None
  /\ LET entry == texture[t].line[Line(id)]
         first == FirstFrame(texture[t].of, id) IN
     /\ found' = [want |-> first, got |-> IF Hits(entry, id) THEN entry.frame ELSE first]
     /\ texture' = IF Hits(entry, id) \/ first = 0 THEN texture
                   ELSE [texture EXCEPT ![t].line[Line(id)] = [id |-> id, frame |-> first]]
  /\ UNCHANGED <<lease, map, wall, shaded>>

----------------------------------------------------------------------------
LoadWall(w) ==
  /\ wall[w] < MaxWalls
  /\ \/ /\ w \notin Malformed
        /\ lease' = Leased(w)
        /\ wall' = [wall EXCEPT ![w] = @ + 1]
     \/ /\ w \in Malformed
        /\ UNCHANGED <<lease, wall>>
  /\ UNCHANGED <<texture, map, shaded, found>>

(* raylib_lite_wall_atlas_unload: the store finds the lease by the address *)
(* of the descriptor.                                                      *)
UnloadWall(w) ==
  /\ wall[w] > 0
  /\ wall' = [wall EXCEPT ![w] = @ - 1]
  /\ lease' = Released({w})
  /\ UNCHANGED <<texture, map, shaded, found>>

(* raylib_lite_tilemap_load opens the atlas by its hash, to learn its name,*)
(* and once more by name, in the texture; the first of these is given back *)
(* before the map has a slot.  A load that fails gives back what it opened *)
(* and is one step without effect.                                         *)
LoadTilemap(m) ==
  LET a == Maps[m]
      usable == m \notin Malformed /\ a \notin Malformed /\ FreeTexture # 0 /\ FreeMap # 0
  IN
  /\ \/ /\ usable
        /\ texture' = [texture EXCEPT ![FreeTexture] = Fresh(a)]
        /\ map' = [map EXCEPT ![FreeMap] = [of |-> m, texture |-> FreeTexture]]
        /\ lease' = [Leased(m) EXCEPT ![a] = @ + 1]
     \/ /\ ~usable
        /\ UNCHANGED <<lease, texture, map>>
  /\ UNCHANGED <<wall, shaded, found>>

UnloadTilemap(i) ==
  /\ map[i] # None
  /\ SlotReleased(map[i].texture)
  /\ lease' = Released({Maps[map[i].of], map[i].of})
  /\ map' = [map EXCEPT ![i] = None]
  /\ UNCHANGED <<wall, found>>

Next ==
  \/ \E a \in Atlases : LoadTexture(a)
  \/ RegisterRgb565
  \/ \E t \in 1..MaxTextures : UnloadTexture(t)
  \/ \E t \in 1..MaxTextures, light \in Lights \cup {Full} : CacheLight(t, light)
  \/ \E t \in 1..MaxTextures, id \in Id : GetFrame(t, id)
  \/ \E w \in Walls : LoadWall(w) \/ UnloadWall(w)
  \/ \E m \in DOMAIN Maps : LoadTilemap(m)
  \/ \E i \in 1..MaxMaps : UnloadTilemap(i)

Spec == Init /\ [][Next]_vars

----------------------------------------------------------------------------
(* The store's leases are those of the slots, maps and wall atlases in     *)
(* use, each once, and the shaded copies those of the slots: every path of *)
(* a load that gives up, and every unload, gives back what it opened, so   *)
(* that a game that has unloaded all holds nothing.                        *)
LeasesAreHeld ==
  /\ \A a \in Asset :
       lease[a] = Cardinality({t \in 1..MaxTextures : texture[t] # None /\ texture[t].of = a})
                + Cardinality({m \in 1..MaxMaps : map[m] # None /\ map[m].of = a})
                + (IF a \in Walls THEN wall[a] ELSE 0)
  /\ shaded = Cardinality({t \in 1..MaxTextures : texture[t] # None /\ texture[t].light # Full})

(* A frame that is found is the first of its atlas with the id that was    *)
(* asked for, whatever the cache has seen and whose slot it was before.    *)
FramesAreRight == found.got = found.want
=============================================================================
