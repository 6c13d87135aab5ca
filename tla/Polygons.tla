------------------------------ MODULE Polygons ------------------------------
(***************************************************************************)
(* The textured triangles and quads of raylib_lite_renderer.c: edges that  *)
(* are walked a row at a time in fixed point, spans between them, texture  *)
(* coordinates that are folded into the picture, and the rows of a wall in *)
(* perspective, which are cut into straight pieces.                        *)
(*                                                                         *)
(* Vertices lie on halves of a pixel and on whole texels, and floats are   *)
(* exact: what is looked at is the fixed point, which rounds each step of  *)
(* an edge and of a span.  Light and blending are left out.                *)
(***************************************************************************)
EXTENDS Integers, Sequences, FiniteSets, FiniteSetsExt

CONSTANTS
  Clips,          \* clips a game sets: <<x0, y0, x1, y1>> in pixels
  Texture,        \* <<width, height>>
  Triangles,      \* <<a, b, c>>, each [x, y, u, v]: x and y in halves of a pixel
  Quads,          \* convex <<a, b, c, d>>, as in the interface: a--b over c--d
  WallRows,       \* [left, right, width, from, to]: ends [u, v, q] of a row of pixels
  One             \* 1.0 in fixed point, 2^16

VARIABLES
  clip,           \* s_clip_*
  asked,          \* history: the polygons of the call, each a perimeter
  wrote,          \* <<x, y, texel, n>>: pixels written for the n-th polygon
  row,            \* history: the row of a wall that is asked for, with its mode, or <<>>
  texels          \* <<u, v>> in fixed point for each of its pixels

vars == <<clip, asked, wrote, row, texels>>

MaxU == Texture[1] - 1
MaxV == Texture[2] - 1
Corner(p, i) == p[((i - 1) % Len(p)) + 1]

Init == clip \in Clips /\ asked = <<>> /\ wrote = {} /\ row = <<>> /\ texels = <<>>

----------------------------------------------------------------------------
(* fixed_from_float: n / d to the nearest; mul_fixed; raster_ceil_half, of *)
(* halves; raster_ceil_fixed.                                              *)
Fixed(n, d) == IF n >= 0 THEN (2 * n * One + d) \div (2 * d) ELSE -((d - 2 * n * One) \div (2 * d))
MulFixed(a, b) == (a * b) \div One
CeilHalf(y) == y \div 2
CeilFixed(x) == x \div One + (IF x % One > One \div 2 THEN 1 ELSE 0)
Towards0(n, d) == IF n >= 0 THEN n \div d ELSE -((-n) \div d)

(* uv_band, uv_in_band, uv_inside, and the folding of a polygon whose      *)
(* coordinates lie in one band: picture and mirror image take turns.       *)
Band(value, edge) == IF edge <= 1 THEN 0 ELSE value \div edge
InBand(value, edge, band) == IF band % 2 = 1 THEN (band + 1) * edge - value ELSE value - band * edge
UvInside(p) == \A i \in DOMAIN p : p[i].u \in 0..MaxU /\ p[i].v \in 0..MaxV

FoldU(p) ==
  LET band == Band(p[1].u, MaxU)
  IN  IF MaxU > 1 /\ \A i \in DOMAIN p : Band(p[i].u, MaxU) = band
      THEN [i \in DOMAIN p |-> [p[i] EXCEPT !.u = InBand(@, MaxU, band)]] ELSE p
FoldV(p) ==
  LET band == Band(p[1].v, MaxV)
  IN  IF MaxV > 1 /\ \A i \in DOMAIN p : Band(p[i].v, MaxV) = band
      THEN [i \in DOMAIN p |-> [p[i] EXCEPT !.v = InBand(@, MaxV, band)]] ELSE p
Fold(p) == IF UvInside(p) THEN p ELSE FoldV(FoldU(p))

(* triangle_scan_edge: where the edge from a to b is at the middle of a    *)
(* row, and how it goes on.                                                *)
Edge(a, b, y) ==
  LET h == b.y - a.y
      down == 2 * y + 1 - a.y
  IN  [x |-> Fixed(a.x * h + (b.x - a.x) * down, 2 * h), dx |-> Fixed(b.x - a.x, h),
       u |-> Fixed(a.u * h + (b.u - a.u) * down, h), du |-> Fixed(2 * (b.u - a.u), h),
       v |-> Fixed(a.v * h + (b.v - a.v) * down, h), dv |-> Fixed(2 * (b.v - a.v), h)]
Stepped(e, n) == [e EXCEPT !.x = @ + n * e.dx, !.u = @ + n * e.du, !.v = @ + n * e.dv]

----------------------------------------------------------------------------
(* What the pixels of a span [u, v, du, dv, count] show.                   *)

\* span_const_v: does the whole span lie in one row of the picture?
ConstV(s) == s.v \div One = (s.v + s.dv * (s.count - 1)) \div One

\* The texel at an address of the picture, which has no bounds.
Stored(address) == <<address % Texture[1], address \div Texture[1]>>

(* fill_direct_unshaded and fill_direct_shaded *)
Direct(s, i) ==
  LET v == IF ConstV(s) THEN s.v ELSE s.v + i * s.dv
  IN  Stored((v \div One) * Texture[1] + (s.u + i * s.du) \div One)

(* fill_indexed_row_major: a texel is read again when its column changes,  *)
(* and forgotten when the row does.                                        *)
RowMajor(s, i) ==
  LET U(n) == (s.u + n * s.du) \div One
      V(n) == IF ConstV(s) THEN s.v \div One ELSE (s.v + n * s.dv) \div One
      pixel[n \in 0..i] ==
        IF n > 0 /\ U(n) = U(n - 1) /\ V(n) = V(n - 1) THEN pixel[n - 1]
        ELSE Stored(V(n) * Texture[1] + U(n))
  IN  pixel[i]

(* sample_indexed_texel: black outside of the atlas. *)
Looked(s, i) ==
  LET at == <<(s.u + i * s.du) \div One, (s.v + i * s.dv) \div One>>
  IN  IF at[1] \in 0..MaxU /\ at[2] \in 0..MaxV THEN at ELSE <<>>

(* mirror_fixed_begin, mirror_fixed_advance and mirror_fixed_sample *)
Mirror(value, edge) ==
  LET at == (value % ((IF edge > 0 THEN 2 * edge ELSE 1) * One)) \div One
  IN  IF at > edge THEN 2 * edge - at ELSE at
Mirrored(s, i) == <<Mirror(s.u + i * s.du, MaxU), Mirror(IF ConstV(s) THEN s.v ELSE s.v + i * s.dv, MaxV)>>

\* A span is filled by the texture's kind, and by whether it stays inside.
\* In perspective: see DrawWallRow for what fill_indexed_persp_span writes.
Opaque(direct, s, i) == IF direct THEN Direct(s, i) ELSE Mirrored(s, i)
ByRow(direct, s, i) == IF direct THEN RowMajor(s, i) ELSE Looked(s, i)
Fill(kind, direct, s, i) ==
  CASE kind = "opaque" -> Opaque(direct, s, i)
    [] kind = "alpha" -> Mirrored(s, i)
    [] kind = "by row" -> ByRow(direct, s, i)
    [] kind = "by column" -> Looked(s, i)
    [] kind = "perspective" -> "row"

----------------------------------------------------------------------------
(* A row between two edges: the pixels whose middle lies between them, as  *)
(* far as they are in the clip.  A triangle's slope is that of its plane,  *)
(* a quad's (given none) that of the row.                                  *)
Between(e, f, y, direct, plane, kind) ==
  LET left == IF e.x > f.x THEN f ELSE e
      right == IF e.x > f.x THEN e ELSE f
      x0 == Max({CeilFixed(left.x), clip[1]})
      x1 == Min({CeilFixed(right.x), clip[3]})
      start == x0 * One + One \div 2 - left.x
      Across(l, r) == Towards0((r - l) * One, right.x - left.x)
      slope == IF plane # <<>> THEN plane ELSE <<Across(left.u, right.u), Across(left.v, right.v)>>
      span == [u |-> left.u + MulFixed(slope[1], start), v |-> left.v + MulFixed(slope[2], start),
               du |-> slope[1], dv |-> slope[2], count |-> x1 - x0]
  IN  IF right.x - left.x <= One \div 1024 THEN {}
      ELSE {<<x, y, Fill(kind, direct, span, x - x0)>> : x \in x0..x1 - 1}

(* draw_textured_triangle_section *)
Section(long, short, from, to, slope, direct, kind) ==
  LET y0 == Max({from, clip[2]})
      y1 == Min({to, clip[4]})
      Along(pair, y) == Stepped(Edge(pair[1], pair[2], y0), y - y0)
  IN  UNION {Between(Along(long, y), Along(short, y), y, direct, slope, kind) : y \in y0..y1 - 1}

Cross(a, b, c) == (b.x - a.x) * (c.y - a.y) - (c.x - a.x) * (b.y - a.y)
ByHeight(t) ==
  LET s == IF t[1].y > t[2].y THEN <<t[2], t[1], t[3]>> ELSE t
      r == IF s[2].y > s[3].y THEN <<s[1], s[3], s[2]>> ELSE s
  IN  IF r[1].y > r[2].y THEN <<r[2], r[1], r[3]>> ELSE r

(* Is any of it in the clip? *)
Reaches(p) ==
  LET xs == {p[i].x : i \in DOMAIN p}
      ys == {p[i].y : i \in DOMAIN p}
  IN  Max(ys) >= 2 * clip[2] /\ Min(ys) < 2 * clip[4] /\ Max(xs) >= 2 * clip[1] /\ Min(xs) < 2 * clip[3]

(* draw_textured_triangle_prepared and draw_indexed_triangle_prepared: the *)
(* part above the vertex in the middle, and the part below.                *)
Triangle(vertices, skipFold, kind) ==
  LET s == ByHeight(vertices)
      area == Cross(s[1], s[2], s[3])
      t == IF skipFold THEN s ELSE Fold(s)
      a == t[1]  b == t[2]  c == t[3]
      Slope(x, y, z) == (y - x) * (c.y - a.y) - (z - x) * (b.y - a.y)
      PerPixel(n) == IF area > 0 THEN Fixed(2 * n, area) ELSE Fixed(-2 * n, -area)
      slope == <<PerPixel(Slope(a.u, b.u, c.u)), PerPixel(Slope(a.v, b.v, c.v))>>
      middle == CeilHalf(b.y)
      direct == UvInside(t)
  IN  IF area = 0 \/ ~Reaches(s) THEN {}
      ELSE (IF b.y = a.y THEN {} ELSE Section(<<a, c>>, <<a, b>>, CeilHalf(a.y), middle, slope, direct, kind))
           \cup (IF c.y = b.y THEN {} ELSE Section(<<a, c>>, <<b, c>>, middle, CeilHalf(c.y), slope, direct, kind))

(* indexed_quad_chain_advance: the next edge of a chain that goes down and *)
(* beyond this row.                                                        *)
Advance(p, chain, y) ==
  LET At(k) == Corner(p, chain.at + k * chain.step)
      down == {k \in 1..chain.remaining : At(k).y > At(k - 1).y /\ CeilHalf(At(k).y) > y}
      k == Min(down)
  IN  IF down = {} THEN [chain EXCEPT !.going = FALSE]
      ELSE [chain EXCEPT !.at = @ + k * chain.step, !.remaining = @ - k,
                         !.end = CeilHalf(At(k).y), !.edge = Edge(At(k - 1), At(k), y)]

(* A quad in one walk: both chains of edges from the topmost corner, and   *)
(* one span per row.                                                       *)
Quad(p, kind) ==
  LET ys == {p[i].y : i \in DOMAIN p}
      top == Min({i \in DOMAIN p : p[i].y = Min(ys)})
      area == Cross(p[1], p[2], p[3]) + Cross(p[1], p[3], p[4])
      y0 == Max({CeilHalf(Min(ys)), clip[2]})
      y1 == Min({CeilHalf(Max(ys)), clip[4]})
      Chain(step) == [at |-> top + 4, step |-> step, remaining |-> 3, going |-> TRUE, end |-> y0, edge |-> <<>>]
      Down(chain, y) == IF ~chain.going THEN chain
                        ELSE IF chain.end = y THEN Advance(p, chain, y)
                        ELSE [chain EXCEPT !.edge = Stepped(@, 1)]
      walk[y \in y0..y1] ==
        IF y = y0 THEN <<Advance(p, Chain(1), y), Advance(p, Chain(-1), y)>>
        ELSE <<Down(walk[y - 1][1], y), Down(walk[y - 1][2], y)>>
      Ended(y) == \E z \in y0..y : ~walk[z][1].going \/ ~walk[z][2].going
  IN  IF area = 0 \/ ~Reaches(p) \/ y0 >= y1 THEN {}
      ELSE UNION {Between(walk[y][1].edge, walk[y][2].edge, y, TRUE, <<>>, kind) :
                    y \in {z \in y0..y1 - 1 : ~Ended(z)}}

(* draw_rgb_quad_direct, draw_indexed_quad_direct, draw_indexed_quad_persp *)
RgbQuad(p) == Quad(p, "opaque")
IndexedQuad(p) == Quad(p, "by row")
PerspectiveQuad(p) == Quad(p, "perspective")

(* draw_indexed_triangle_prepared; steep: persp_span_needed. *)
IndexedTriangle(t, byRow, steep, skipFold) ==
  Triangle(t, skipFold, IF steep THEN "perspective" ELSE IF byRow THEN "by row" ELSE "by column")

----------------------------------------------------------------------------
Call(parts, perimeters) ==
  /\ asked = <<>> /\ row = <<>>
  /\ asked' = perimeters
  /\ wrote' = UNION {{w \o <<n>> : w \in parts[n]} : n \in DOMAIN parts}
  /\ UNCHANGED <<clip, row, texels>>

\* a--b / c--d in the order of its perimeter, and its two triangles.
Perimeter(q) == <<q[1], q[2], q[4], q[3]>>
Halves(q) == <<<<q[1], q[3], q[2]>>, <<q[2], q[3], q[4]>>>>

(* raylib_lite_renderer_draw_textured_triangle *)
DrawTexturedTriangle(t, alpha) ==
  Call(<<Triangle(t, FALSE, IF alpha THEN "alpha" ELSE "opaque")>>, <<t>>)

(* raylib_lite_renderer_draw_textured_quad: in one walk if it is opaque    *)
(* and, folded, inside of the picture, as two triangles otherwise.         *)
DrawTexturedQuad(q, alpha) ==
  LET inside == UvInside(Fold(q))
  IN  IF inside /\ ~alpha THEN Call(<<RgbQuad(Perimeter(Fold(q)))>>, <<Perimeter(q)>>)
      ELSE Call([n \in 1..2 |-> Triangle(Halves(Fold(q))[n], inside, IF alpha THEN "alpha" ELSE "opaque")],
                Halves(q))

(* raylib_lite_2d_draw_indexed_textured_triangle *)
DrawIndexedTriangle(t, byRow, steep) == Call(<<IndexedTriangle(t, byRow, steep, FALSE)>>, <<t>>)

(* raylib_lite_2d_draw_indexed_textured_quad *)
DrawIndexedQuad(q, byRow, steep) ==
  LET inside == UvInside(Fold(q))
      p == Perimeter(Fold(q))
  IN  IF inside /\ byRow
      THEN Call(<<IF steep THEN PerspectiveQuad(p) ELSE IndexedQuad(p)>>, <<Perimeter(q)>>)
      ELSE Call([n \in 1..2 |-> IndexedTriangle(Halves(Fold(q))[n], byRow, steep, inside)], Halves(q))

----------------------------------------------------------------------------
(* A row of a wall in perspective: coordinates over depth, and 1 / depth,  *)
(* go straight from its left to its right end (persp_uv_at).  Both are     *)
(* multiples of 1 / (2 * width).                                           *)
Mix(w, x, l, r) == l * (2 * w.width - 2 * x - 1) + r * (2 * x + 1)
Q(w, x) == Mix(w, x, w.left.q, w.right.q)
UQ(w, x) == Mix(w, x, w.left.u * w.left.q, w.right.u * w.right.q)
VQ(w, x) == Mix(w, x, w.left.v * w.left.q, w.right.v * w.right.q)

(* clamp_texel_fixed *)
ClampTexel(n, d, limit) == Max({0, Min({Fixed(n, d), limit * One - 1})})

(* fill_indexed_affine: a straight piece from pixel x to pixel end. *)
Straight(w, x, end) ==
  LET n == end - x + 1
      At(z) == <<ClampTexel(UQ(w, z), Q(w, z), Texture[1]), ClampTexel(VQ(w, z), Q(w, z), Texture[2])>>
      Step(k) == IF n = 1 THEN 0 ELSE Towards0(At(end)[k] - At(x)[k], n - 1)
  IN  [i \in 1..n |-> <<At(x)[1] + (i - 1) * Step(1), At(x)[2] + (i - 1) * Step(2)>>]

Magnitude(n) == IF n < 0 THEN -n ELSE n

(* persp_piece_length: as far as 1 / depth changes by less than 15%.       *)
Legacy(w, x, remain) ==
  LET qs == Q(w, x)
      qe == Q(w, w.to - 1)
      reach == IF qe > qs THEN (15 * qs * (remain - 1)) \div (100 * (qe - qs))
               ELSE (15 * qs * (remain - 1)) \div (115 * (qs - qe))
  IN  IF remain <= 4 \/ 100 * Max({qs, qe}) < 115 * Min({qs, qe}) THEN remain
      ELSE Min({Max({reach, 4}), remain})

(* The error a straight piece of n pixels makes is at most what is left of *)
(* a quarter texel when its steps have been rounded, by the bound on the   *)
(* chord of a rational curve; RAYLIB_LITE_WALL_ERROR_BOUNDED halves the    *)
(* piece until it is.                                                      *)
Chord(w, x, n) ==
  LET last == w.to - 1
      far == w.to - x - 1
      qs == Q(w, x)
      delta == Max({Magnitude(UQ(w, last) * qs - UQ(w, x) * Q(w, last)),
                    Magnitude(VQ(w, last) * qs - VQ(w, x) * Q(w, last))})
      qn == qs * far + (Q(w, last) - qs) * (n - 1)
      budget == One \div 4 - n
  IN  /\ budget >= 0
      /\ delta * (n - 1) * Magnitude(qn - qs * far) * far
           <= (budget * (4 * Min({qs * far, qn}) * qn * qs)) \div One

Bounded(w, x, remain) ==
  LET piece[n \in 0..remain] == IF n <= 2 \/ Chord(w, x, n) THEN n ELSE piece[(n + 1) \div 2]
  IN  piece[remain]

Piece(w, x, mode) ==
  LET remain == w.to - x
  IN  CASE mode = "legacy" -> Legacy(w, x, remain)
        [] mode = "exact" -> 1
        [] mode = "bounded" -> Bounded(w, x, remain)

(* fill_indexed_persp_span *)
WallRow(w, mode) ==
  LET From[x \in w.from..w.to] ==
        IF x = w.to THEN <<>>
        ELSE Straight(w, x, x + Piece(w, x, mode) - 1) \o From[x + Piece(w, x, mode)]
  IN  From[w.from]

DrawWallRow(w, mode) ==
  /\ asked = <<>> /\ row = <<>>
  /\ row' = [w |-> w, mode |-> mode]
  /\ texels' = WallRow(w, mode)
  /\ UNCHANGED <<clip, asked, wrote>>

Next ==
  \/ \E t \in Triangles, flag \in BOOLEAN, steep \in BOOLEAN : DrawTexturedTriangle(t, flag) \/ DrawIndexedTriangle(t, flag, steep)
  \/ \E q \in Quads, flag \in BOOLEAN, steep \in BOOLEAN : DrawTexturedQuad(q, flag) \/ DrawIndexedQuad(q, flag, steep)
  \/ \E w \in WallRows, mode \in {"legacy", "exact", "bounded"} : DrawWallRow(w, mode)

Spec == Init /\ [][Next]_vars

----------------------------------------------------------------------------
(* Where the middle of a pixel lies: 1 inside of a perimeter, -1 outside,  *)
(* 0 on it.                                                                *)
Side(p, x, y) ==
  LET middle == [x |-> 2 * x + 1, y |-> 2 * y + 1]
      area == IF Len(p) = 3 THEN Cross(p[1], p[2], p[3]) ELSE Cross(p[1], p[2], p[3]) + Cross(p[1], p[3], p[4])
      sides == {Cross(Corner(p, i), Corner(p, i + 1), middle) * (IF area > 0 THEN 1 ELSE -1) : i \in DOMAIN p}
  IN  IF area = 0 \/ \E n \in sides : n < 0 THEN -1 ELSE IF 0 \in sides THEN 0 ELSE 1

(* The coordinate there between the two edges that cross the row, within   *)
(* an eighth of a texel, as the first and the last texel it may mean.      *)
Meant(p, x, y, Coordinate(_)) ==
  LET middle == 2 * y + 1
      Low(i) == IF Corner(p, i).y < Corner(p, i + 1).y THEN Corner(p, i) ELSE Corner(p, i + 1)
      High(i) == IF Corner(p, i).y < Corner(p, i + 1).y THEN Corner(p, i + 1) ELSE Corner(p, i)
      crossing == {i \in DOMAIN p : Low(i).y <= middle /\ middle < High(i).y}
      H(i) == High(i).y - Low(i).y
      X(i) == Low(i).x * H(i) + (High(i).x - Low(i).x) * (middle - Low(i).y)
      C(i) == Coordinate(Low(i)) * H(i) + (Coordinate(High(i)) - Coordinate(Low(i))) * (middle - Low(i).y)
      i == Min(crossing)
      j == Max(crossing)
      den == X(j) * H(i) - X(i) * H(j)
      num == C(i) * (X(j) - (2 * x + 1) * H(j)) + C(j) * ((2 * x + 1) * H(i) - X(i))
      n == IF den < 0 THEN -num ELSE num
      d == Magnitude(den)
  IN  <<(8 * n - d) \div (8 * d), (8 * n + d) \div (8 * d)>>

(* Picture and mirror image take turns; a polygon that is folded as a      *)
(* whole may show the neighbour of a texel.                                *)
Reflected(k, edge) == CHOOSE n \in 0..edge : edge = 0 \/ (k - n) % (2 * edge) = 0 \/ (k + n) % (2 * edge) = 0
Shows(p, texel, x, y) ==
  LET U == Meant(p, x, y, LAMBDA c : c.u)
      V == Meant(p, x, y, LAMBDA c : c.v)
      beside == IF Fold(p) = p THEN 0 ELSE 1
  IN  \/ texel = "row"
      \/ texel = <<>> /\ ~UvInside(p)
      \/ texel # <<>> /\ UvInside(p) /\ texel[1] \in U[1]..U[2] /\ texel[2] \in V[1]..V[2]
      \/ /\ texel # <<>> /\ ~UvInside(p)
         /\ texel[1] \in {Reflected(k, MaxU) : k \in U[1]..U[2] + beside}
         /\ texel[2] \in {Reflected(k, MaxV) : k \in V[1]..V[2] + beside}

(* A polygon covers each pixel of the clip whose middle lies inside of it  *)
(* once, none whose middle lies outside, and shows there the texel that    *)
(* its corners put there.  (A middle that lies on an edge may go either    *)
(* way: the rounded steps decide.)                                         *)
PolygonsCover ==
  \A n \in DOMAIN asked, x \in clip[1] - 1..clip[3] + 1, y \in clip[2] - 1..clip[4] + 1 :
    LET here == {w \in wrote : w[1] = x /\ w[2] = y /\ w[4] = n}
        side == Side(asked[n], x, y)
        visible == x \in clip[1]..clip[3] - 1 /\ y \in clip[2]..clip[4] - 1
    IN  /\ side = -1 \/ ~visible => here = {}
        /\ side = 1 /\ visible => Cardinality(here) = 1 /\ \A w \in here : Shows(asked[n], w[3], x, y)

(* A row of a wall is drawn whole, inside the picture, and, except in the  *)
(* mode that was there first, a quarter of a texel off at most.            *)
WallsBend ==
  row # <<>> =>
    /\ Len(texels) = row.w.to - row.w.from
    /\ \A i \in DOMAIN texels :
         LET x == row.w.from + i - 1
             Off(k, n) == Magnitude(texels[i][k] * Q(row.w, x) - n * One)
             allowed == IF row.mode = "exact" THEN Q(row.w, x) ELSE (One \div 4) * Q(row.w, x)
         IN  /\ texels[i][1] \in 0..Texture[1] * One - 1 /\ texels[i][2] \in 0..Texture[2] * One - 1
             /\ row.mode # "legacy" => Off(1, UQ(row.w, x)) <= allowed /\ Off(2, VQ(row.w, x)) <= allowed
=============================================================================
