------------------------------ MODULE ZoneView ------------------------------
(***************************************************************************)
(* How Last Zone (last_zone_view.c) draws a frame without clearing it: one *)
(* ray per column of pixels, the pixels between filled in and the edges    *)
(* between walls searched for, sky, floor and walls, and on top of them    *)
(* the sprites that the walls do not hide.                                 *)
(*                                                                         *)
(* Positions are in 1 / Unit of a cell, floats are exact.  The depth of a  *)
(* wall is that of its plane, so 1 / depth (q) and the texture coordinate  *)
(* times q are kept, as the code does.  Light, colours and the display on  *)
(* the glass are left out.                                                 *)
(***************************************************************************)
EXTENDS Integers, Sequences, FiniteSets, SequencesExt

CONSTANTS
  Map,            \* rows of cells: 0 open, 1 wall, 2 window, 3 container, 4 closed door
  Poses,          \* [x, y, dir, horizon]: dir is <<dx, dy>> of length Norm
  Crowds,         \* sequences of sprites [x, y], in cells / Unit
  Unit, Norm,
  Plane,          \* <<p, q>>: half of the field of view is p / q
  Screen, Rows,   \* pixels
  Column,         \* pixels per ray: LAST_ZONE_COLUMN_WIDTH
  Budget,         \* LAST_ZONE_EDGE_RAY_BUDGET
  Tall,           \* the height of a wall at distance 1
  Near,           \* LAST_ZONE_NEAR_WALL, in cells
  Texels          \* columns of a wall's picture

VARIABLES
  pc,             \* what of the frame is drawn next
  pose,           \* where the player is
  crowd,          \* the sprites
  pixels,         \* s_pixels
  rays,           \* rays spent on edges
  drawn,          \* pixels drawn in this frame, <<x, y>>
  strips          \* history: <<sprite, left, from, to>> in the order they were drawn

vars == <<pc, pose, crowd, pixels, rays, drawn, strips>>

Columns == Screen \div Column
Scale == Norm * Screen * Plane[2]
Abs(n) == IF n < 0 THEN -n ELSE n
Least(a, b) == IF a < b THEN a ELSE b
Most(a, b) == IF a > b THEN a ELSE b
Cell(x, y) == IF y + 1 \in DOMAIN Map /\ x + 1 \in DOMAIN Map[1] THEN Map[y + 1][x + 1] ELSE 1

Init ==
  /\ pc = "cast"
  /\ pose \in Poses
  /\ crowd \in Crowds
  /\ pixels = <<>> /\ rays = 0 /\ drawn = {} /\ strips = <<>>

----------------------------------------------------------------------------
(* cast_wall_sample: from border to border of the cells until one blocks.  *)
(* q is <<a, b>>: 1 / depth = Unit * a / (Scale * b); u = u / (Unit * a).  *)
Ray(p, sx) ==
  LET k == Plane[1] * (2 * sx + 1 - Screen)
      s == Screen * Plane[2]
  IN  <<p.dir[1] * s - p.dir[2] * k, p.dir[2] * s + p.dir[1] * k>>

\* What a ray r of the player has met.
Met(p, r, hit) ==
  LET a == Abs(IF hit.side THEN r[2] ELSE r[1])
      n == (IF hit.side THEN hit.ny ELSE hit.nx) - Unit
      along == IF hit.side THEN p.x * a + n * r[1] ELSE p.y * a + n * r[2]
  IN  [q |-> <<a, n>>, u |-> along % (Unit * a), cell |-> <<hit.x, hit.y>>, side |-> hit.side, wall |-> hit.wall]

Cast(p, sx) ==
  LET r == Ray(p, sx)
      Step(v) == IF v < 0 THEN -1 ELSE 1
      ToBorder(at, v) == IF v < 0 THEN at % Unit ELSE Unit - (at % Unit)
      walk[n \in 0..Len(Map) + Len(Map[1])] ==
        IF n = 0 THEN [x |-> p.x \div Unit, y |-> p.y \div Unit, nx |-> ToBorder(p.x, r[1]), ny |-> ToBorder(p.y, r[2]),
                       side |-> FALSE, wall |-> 0]
        ELSE LET b == walk[n - 1]
                 xFirst == b.nx * Abs(r[2]) < b.ny * Abs(r[1])
                 to == IF xFirst THEN <<b.x + Step(r[1]), b.y>> ELSE <<b.x, b.y + Step(r[2])>>
             IN  IF b.wall # 0 THEN b
                 ELSE [x |-> to[1], y |-> to[2], nx |-> IF xFirst THEN b.nx + Unit ELSE b.nx,
                       ny |-> IF xFirst THEN b.ny ELSE b.ny + Unit, side |-> ~xFirst, wall |-> Cell(to[1], to[2])]
  IN  Met(p, r, walk[Len(Map) + Len(Map[1])])

(* project_wall *)
Height(s) == Most((Tall * Unit * s.q[1]) \div (Scale * s.q[2]), 1)
Top(s) == pose.horizon - Height(s) \div 2
Bottom(s) == Most(Least(Top(s) + Height(s), Rows), Most(pose.horizon, 0))
Farther(s, cells) == Scale * s.q[2] >= cells * Unit * s.q[1]

(* wall_boundary *)
Boundary(s, t) == s.wall # t.wall \/ s.side # t.side \/ s.cell # t.cell

(* interp_wall and fill_interp_span: between two samples of one wall q and *)
(* the coordinate times q are straight.                                    *)
Between(s, t, k, span) ==
  LET l == t.q[2] * (span - k)
      r == s.q[2] * k
  IN  [s EXCEPT !.q = <<s.q[1] * l + t.q[1] * r, s.q[2] * t.q[2] * span>>, !.u = s.u * l + t.u * r]
Filled(old, s, t, x0, x1) ==
  [x \in DOMAIN old |->
     IF x \notin x0..x1 THEN old[x] ELSE IF x1 = x0 THEN s ELSE Between(s, t, x - x0, x1 - x0)]

(* bisect_edge: where does the left wall end?                              *)
Halved(b, mid, s) ==
  IF b.hi - b.lo <= 1 \/ b.used >= Budget THEN b
  ELSE IF Boundary(b.left, s) THEN [b EXCEPT !.hi = mid, !.right = s, !.used = @ + 1]
  ELSE [b EXCEPT !.lo = mid, !.left = s, !.used = @ + 1]
Edge(p, gap, used) ==
  LET search[n \in 0..Column] ==
        IF n = 0 THEN [lo |-> gap.x0, hi |-> gap.x1, left |-> gap.left, right |-> gap.right, used |-> used]
        ELSE LET b == search[n - 1]
                 mid == (b.lo + b.hi) \div 2
             IN  Halved(b, mid, Cast(p, mid))
  IN  search[Column]

(* fill_gap *)
GapFilled(p, state, gap) ==
  LET UpTo(e) == Filled(state.pixels, gap.left, e.left, gap.x0, Most(e.hi - 1, gap.x0))
      Beyond(e) == [pixels |-> Filled(UpTo(e), e.right, gap.right, e.hi, gap.x1), used |-> e.used]
  IN  Beyond(Edge(p, gap, state.used))

(* raycast_world: what lies on one wall at both ends is filled in at once, *)
(* the other gaps are refined, the nearest first (wall_gap_cmp).           *)
Gap(p, c) ==
  LET x1 == IF c + 1 < Columns THEN (c + 1) * Column ELSE Screen - 1
  IN  [x0 |-> c * Column, x1 |-> x1, left |-> Cast(p, c * Column), right |-> Cast(p, x1)]
NearEnd(g) == IF g.left.q[2] * g.right.q[1] < g.right.q[2] * g.left.q[1] THEN g.left.q ELSE g.right.q
Sooner(g, h) ==
  LET a == NearEnd(g)  b == NearEnd(h)
  IN  a[2] * b[1] < b[2] * a[1] \/ (a[2] * b[1] = b[2] * a[1] /\ g.x0 < h.x0)

Raycast(p) ==
  LET gaps == [c \in 1..Columns |-> Gap(p, c - 1)]
      plain == SelectSeq(gaps, LAMBDA g : ~Boundary(g.left, g.right))
      edges == SortSeq(SelectSeq(gaps, LAMBDA g : Boundary(g.left, g.right)), Sooner)
      straight == FoldLeft(LAMBDA px, g : Filled(px, g.left, g.right, g.x0, g.x1), [x \in 0..Screen - 1 |-> <<>>], plain)
  IN  FoldLeft(LAMBDA s, g : GapFilled(p, s, g), [pixels |-> straight, used |-> 1], edges)

CastWorld ==
  /\ pc = "cast" /\ pc' = "sky"
  /\ \E frame \in {Raycast(pose)} : pixels' = frame.pixels /\ rays' = frame.used
  /\ UNCHANGED <<pose, crowd, drawn, strips>>

----------------------------------------------------------------------------
\* The pixels of a column of the floor's grid (s_wall_bottom, s_wall_top, s_wall_type).
InColumn(c) == {pixels[x] : x \in c * Column..c * Column + Column - 1}
Box(x0, x1, y0, y1) == (Most(x0, 0)..Least(x1, Screen) - 1) \X (Most(y0, 0)..Least(y1, Rows) - 1)

(* panorama_height and draw_panorama *)
Panorama ==
  LET tops == {Top(pixels[x]) : x \in DOMAIN pixels}
      highest == CHOOSE t \in tops : \A other \in tops : other <= t
  IN  IF \E x \in DOMAIN pixels : pixels[x].wall = 2 THEN pose.horizon ELSE Least(Most(highest, 0), pose.horizon)

DrawSky ==
  /\ pc = "sky" /\ pc' = "floor"
  /\ drawn' = Box(0, Screen, 0, Panorama)
  /\ UNCHANGED <<pose, crowd, pixels, rays, strips>>

(* draw_floor: two rows at a time below the horizon, each where the column *)
(* has no wall any more.                                                   *)
WallBottom(c) == CHOOSE b \in {Bottom(s) : s \in InColumn(c)} : \A s \in InColumn(c) : b <= Bottom(s)
DrawFloor ==
  /\ pc = "floor" /\ pc' = "walls"
  /\ drawn' = drawn \cup UNION {Box(c * Column, (c + 1) * Column, Most(pose.horizon + 1, WallBottom(c)), Rows) : c \in 0..Columns - 1}
  /\ UNCHANGED <<pose, crowd, pixels, rays, strips>>

(* wall_run_match, wall_u_texel, wall_dest_width: a wall that is far away, *)
(* or shows the same column of its picture, is drawn several pixels wide.  *)
Match(x, y) == y < Screen /\ ~Boundary(pixels[x], pixels[y]) /\ Abs(Top(pixels[x]) - Top(pixels[y])) <= 1
Texel(s) ==
  LET shift == (s.cell[1] * 37 + s.cell[2] * 13) % 32
      one == 48 * Unit * s.q[1]
  IN  (((48 * s.u + shift * Unit * s.q[1]) % one) * Texels) \div one
Width(x) ==
  LET s == pixels[x]
  IN  IF s.wall \in {2, 4} \/ ~Match(x, x + 1) THEN 1
      ELSE IF Farther(s, Near) /\ Match(x, x + 2) /\ Match(x, x + 3) THEN 4
      ELSE IF Texel(s) # Texel(pixels[x + 1]) THEN 1 ELSE 2

(* draw_walls: a wall, a container and a door are drawn whole.  A window   *)
(* that is high enough shows the panorama between its bands down to the    *)
(* horizon, and haze below.                                                *)
WallAt(x) ==
  LET s == pixels[x]
      top == Top(s)
      bottom == top + Height(s)
      sixth == Most((Height(s) * 22) \div 100, 6)
      band == IF sixth * 2 > Height(s) THEN Height(s) \div 3 ELSE sixth
      open == <<top + band, bottom - band>>
      Part(y0, y1) == Box(x, x + Width(x), y0, y1)
  IN  IF s.wall = 2 /\ ~(open[2] <= open[1] + 2 \/ open[2] <= pose.horizon)
      THEN Part(top, open[1]) \cup Part(Most(open[1], pose.horizon), open[2]) \cup Part(open[2], bottom)
      ELSE Part(top, bottom)
Starts ==
  LET run[x \in 0..Screen + 4] == IF x >= Screen THEN {} ELSE {x} \cup run[x + Width(x)]
  IN  run[0]

DrawWalls ==
  /\ pc = "walls" /\ pc' = "sprites"
  /\ drawn' = drawn \cup UNION {WallAt(x) : x \in Starts}
  /\ UNCHANGED <<pose, crowd, pixels, rays, strips>>

----------------------------------------------------------------------------
(* project_sprite: <<dot, cross>> with the direction of view; the distance *)
(* is dot / (Norm * Unit).                                                 *)
Seen(sprite) ==
  LET dx == sprite.x - pose.x  dy == sprite.y - pose.y
  IN  <<pose.dir[1] * dx + pose.dir[2] * dy, pose.dir[1] * dy - pose.dir[2] * dx>>
Truncated(n, d) == IF n >= 0 THEN n \div d ELSE -((-n) \div d)
Center(seen) == Truncated(Screen * (seen[1] * Plane[1] + seen[2] * Plane[2]), 2 * Plane[1] * seen[1])
Size(seen) == Least(Most((Tall * Norm * Unit) \div seen[1], 2), Rows)
Ahead(seen) == 10 * seen[1] > Norm * Unit /\ Abs(2 * Center(seen) - Screen) <= 2 * Screen

\* Is it nearer than the wall of sample s, or a tenth of a cell behind?
InFront(seen, s) == 10 * seen[1] * Unit * s.q[1] < Norm * Unit * (10 * Scale * s.q[2] + Unit * s.q[1])

(* column_visible *)
Visible(seen, x) == x \in 0..Screen - 1 /\ \E y \in {x - 1, x, x + 1} \cap DOMAIN pixels : InFront(seen, pixels[y])

(* draw_enemies and the billboards: strips of Column pixels that are seen  *)
(* are drawn together.                                                     *)
Strips(sprite) ==
  LET seen == Seen(sprite)
      size == Size(seen)
      left == Center(seen) - size \div 2
      Shown(k) == k * Column < size /\ Visible(seen, left + k * Column)
      last == (size + Column - 1) \div Column
      scan[k \in 0..last] ==
        LET b == IF k = 0 THEN [runs |-> <<>>, start |-> -1] ELSE scan[k - 1]
        IN  IF Shown(k) THEN IF b.start < 0 THEN [b EXCEPT !.start = k * Column] ELSE b
            ELSE IF b.start < 0 THEN b
            ELSE [runs |-> Append(b.runs, <<sprite, left, b.start, Least(k * Column, size)>>), start |-> -1]
  IN  IF Ahead(seen) THEN scan[last].runs ELSE <<>>

\* The farthest comes first: each pair that is in the wrong order is swapped.
Distance2(sprite) == (sprite.x - pose.x) * (sprite.x - pose.x) + (sprite.y - pose.y) * (sprite.y - pose.y)
Order ==
  LET n == Len(crowd)
      pairs == [k \in 1..n * n |-> <<(k - 1) \div n + 1, ((k - 1) % n) + 1>>]
      Swapped(s, p) ==
        IF p[1] < p[2] /\ Distance2(s[p[1]]) < Distance2(s[p[2]]) THEN [s EXCEPT ![p[1]] = s[p[2]], ![p[2]] = s[p[1]]] ELSE s
  IN  FoldLeft(Swapped, crowd, pairs)

DrawSprites ==
  /\ pc = "sprites" /\ pc' = "shown"
  /\ strips' = FlattenSeq([i \in 1..Len(Order) |-> Strips(Order[i])])
  /\ UNCHANGED <<pose, crowd, pixels, rays, drawn>>

(* The player and the sprites have moved when the next frame is drawn.     *)
NextFrame ==
  /\ pc = "shown" /\ pc' = "cast"
  /\ pose' \in Poses
  /\ crowd' \in Crowds
  /\ drawn' = {} /\ strips' = <<>>
  /\ UNCHANGED <<pixels, rays>>

Next == CastWorld \/ DrawSky \/ DrawFloor \/ DrawWalls \/ DrawSprites \/ NextFrame
Spec == Init /\ [][Next]_vars

----------------------------------------------------------------------------
\* What each pixel's own ray meets.
Meets(x) == Cast(pose, x)
Same(s, t) == ~Boundary(s, t) /\ s.q[1] * t.q[2] = t.q[1] * s.q[2] /\ s.u * t.q[1] = t.u * s.q[1]

\* The pixels from a ray of the grid to the next, and the edges between them.
GapOf(c) == c * Column..(IF c + 1 < Columns THEN (c + 1) * Column ELSE Screen - 1)
EdgesIn(c) == Cardinality({x \in GapOf(c) : x + 1 \in GapOf(c) /\ Boundary(Meets(x), Meets(x + 1))})
\* (A ray straight into a corner may take either wall.)
Simple(x) == \A c \in 0..Columns - 1 : x \in GapOf(c) => EdgesIn(c) <= 1 /\ \A y \in GapOf(c) : Meets(y).u # 0

(* Each pixel shows the wall, at the depth and the texture coordinate, its *)
(* own ray would have met, though few have one: unless the budget is used  *)
(* up, or more than one edge lies between two rays.                        *)
EdgesAreSharp ==
  pc = "sky" /\ rays < Budget => \A x \in DOMAIN pixels : Simple(x) => Same(pixels[x], Meets(x))

(* The frame is not cleared, and sky, floor and walls leave no pixel of    *)
(* the one before, except below a run of pixels that is drawn as wide as   *)
(* its first one is high and reaches into the next column of the floor;    *)
(* no run goes on past the end of its wall.                                *)
FrameIsWhole ==
  pc = "sprites" =>
    LET starts == Starts
        first == [x \in 0..Screen - 1 |-> CHOOSE s \in starts : s <= x /\ \A t \in starts : t <= x => t <= s]
    IN  \A x \in 0..Screen - 1 :
          /\ ~Boundary(pixels[first[x]], pixels[x])
          /\ \A y \in {y \in 0..Rows - 1 : <<x, y>> \notin drawn} :
               first[x] \div Column # x \div Column /\ y \in Bottom(pixels[first[x]])..Bottom(pixels[x])

(* A strip of a sprite is drawn once, and only where the sprite stands     *)
(* before a wall that can be seen there; farther sprites are drawn first,  *)
(* and none wider than it is.                                              *)
SpritesAreHidden ==
  pc = "shown" =>
    /\ \A i \in DOMAIN strips : strips[i][4] <= Size(Seen(strips[i][1]))
    /\ \A i, j \in DOMAIN strips : i < j => Distance2(strips[i][1]) >= Distance2(strips[j][1])
    /\ \A sprite \in {crowd[i] : i \in DOMAIN crowd} : Ahead(Seen(sprite)) =>
         LET seen == Seen(sprite)
             left == Center(seen) - Size(seen) \div 2
         IN  \A k \in 0..Size(seen) - 1 :
               LET over == {i \in DOMAIN strips : strips[i][1] = sprite /\ k \in strips[i][3]..strips[i][4] - 1}
                   x == left + k - (k % Column)
                   here == {x - 1, x, x + 1} \cap 0..Screen - 1
                   walls == {InFront(seen, Meets(y)) : y \in here}
               IN  /\ Cardinality(over) <= Cardinality({i \in DOMAIN crowd : crowd[i] = sprite})
                   /\ x \in 0..Screen - 1 /\ rays < Budget /\ (\A y \in here : Simple(y)) => (over # {} <=> TRUE \in walls)
                   /\ x \notin 0..Screen - 1 => over = {}
=============================================================================
