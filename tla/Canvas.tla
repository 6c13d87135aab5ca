------------------------------- MODULE Canvas -------------------------------
(***************************************************************************)
(* What a drawing call writes into the frame: the integer rasterizers of   *)
(* raylib_lite_raylib_impl.c, which clip against the scissor of the port,  *)
(* and of raylib_lite_renderer.c, which clip against a rectangle of their  *)
(* own.  Each call is translated as it computes its pixels (clipped boxes, *)
(* spans between half-planes, error terms, sample steps, blocks of wall    *)
(* columns), and compared with a definition of the picture that is meant.  *)
(*                                                                         *)
(* Coordinates are integers, far from the limits of int.  Rotation, other  *)
(* zooms than integers, and the blending of colours are left out: they are *)
(* arithmetic on floats and on channels.                                   *)
(***************************************************************************)
EXTENDS Integers, Sequences, FiniteSets, FiniteSetsExt, SequencesExt

CONSTANTS
  Width, Height,   \* s_screen_width and s_screen_height
  Texture,         \* <<width, height>> of a texture's header
  Boxes,           \* <<x, y, width, height>> a game draws or scissors with
  Lines,           \* <<x0, y0, x1, y1>>
  Triangles,       \* <<ax, ay, bx, by, cx, cy>>
  Circles,         \* <<x, y, radius>>
  Cameras,         \* [target, offset, zoom]
  Strides,         \* what a target's stride may be, at least Width
  Thick,           \* <<line, thickness>>, in halves of a pixel
  Dashes,          \* <<line along an axis, dash, space>>
  Borders,         \* <<box, thickness>>
  Rounds,          \* <<box, roundness>>, in halves; two radii and a pixel fit into the box
  Convex,          \* convex quadrangles, as four points in their order
  Ellipses,        \* <<x, y, horizontal radius, vertical radius>>
  Font, Texts,     \* the seven rows of a glyph, five bits each; <<glyphs, x, y, size>>
  Pictures,        \* <<source box, destination box>>; a negative source width or height flips
  Walls,           \* batches of columns [dst, src, phase, step]: boxes, and 16.16 fixed point
  Block,           \* RAYLIB_LITE_WALL_BLOCK
  Spans,           \* <<y, x0, x1, u, v, du, dv, width, height>>: texels in 16.16 fixed point
  One              \* 1.0 in that fixed point, 2^16

VARIABLES
  drawing,   \* s_pixels # NULL
  scissor,   \* s_scissor_*: [on, box], box <<x0, y0, x1, y1>>
  clip,      \* s_clip_*: <<x0, y0, x1, y1>>
  camera,    \* s_camera, or Home when it is not active
  asked,     \* history: the box of the scissor mode the game is in, or <<>>
  lens,      \* history: the camera of the mode the game is in this frame
  wrote,     \* pixels the last call wrote, with the texel where it has one
  meant      \* those it should have written

vars == <<drawing, scissor, clip, camera, asked, lens, wrote, meant>>

Screen == <<0, 0, Width, Height>>
In(p, b) == p[1] >= b[1] /\ p[1] < b[3] /\ p[2] >= b[2] /\ p[2] < b[4]
Pixels == (0..Width - 1) \X (0..Height - 1)
Corners(b) == <<b[1], b[2], b[1] + b[3], b[2] + b[4]>>
Meet(b, c) == <<Max({b[1], c[1]}), Max({b[2], c[2]}), Min({b[3], c[3]}), Min({b[4], c[4]})>>
Holds(b) == {<<x, y>> : x \in b[1]..b[3] - 1, y \in b[2]..b[4] - 1}

\* A camera that changes nothing.
Home == [target |-> <<0, 0>>, offset |-> <<0, 0>>, zoom |-> 1]

Init ==
  /\ drawing = FALSE
  /\ camera = Home
  /\ scissor = [on |-> FALSE, box |-> <<0, 0, 0, 0>>]
  /\ clip = <<0, 0, 0, 0>>
  /\ asked = <<>>
  /\ lens = Home
  /\ wrote = {}
  /\ meant = {}

(* raylib_lite_raylib_begin_drawing: the target of the renderer, and its   *)
(* clip, are the whole screen.                                             *)
BeginDrawing ==
  /\ ~drawing
  /\ drawing' = TRUE
  /\ clip' = Screen
  /\ UNCHANGED <<scissor, camera, asked, lens, wrote, meant>>

EndDrawing ==
  /\ drawing
  /\ drawing' = FALSE
  /\ scissor' = [scissor EXCEPT !.on = FALSE]
  /\ clip' = <<0, 0, 0, 0>>
  /\ camera' = Home
  /\ asked' = <<>>
  /\ lens' = Home
  /\ wrote' = {}
  /\ meant' = {}

(* raylib_lite_renderer_set_clip *)
Clipped(x, y, w, h) ==
  LET b == Meet(<<x, y, x + w, y + h>>, Screen) IN
  IF w <= 0 \/ h <= 0 \/ b[1] > b[3] \/ b[2] > b[4] THEN <<b[1], b[2], b[1], b[2]>> ELSE b

BeginScissor(box) ==
  LET b == Meet(Corners(box), Screen) IN
  /\ drawing
  /\ scissor' = [on |-> box[3] > 0 /\ box[4] > 0 /\ b[1] < b[3] /\ b[2] < b[4], box |-> b]
  /\ clip' = Clipped(b[1], b[2], b[3] - b[1], b[4] - b[2])
  /\ asked' = box
  /\ wrote' = {}
  /\ meant' = {}
  /\ UNCHANGED <<drawing, camera, lens>>

EndScissor ==
  /\ drawing /\ asked # <<>>
  /\ scissor' = [scissor EXCEPT !.on = FALSE]
  /\ clip' = Clipped(0, 0, Width, Height)
  /\ asked' = <<>>
  /\ wrote' = {}
  /\ meant' = {}
  /\ UNCHANGED <<drawing, camera, lens>>

BeginMode2D(c) ==
  /\ drawing /\ asked = <<>>
  /\ camera' = IF c.zoom = 0 THEN [c EXCEPT !.zoom = 1] ELSE c
  /\ lens' = [c EXCEPT !.zoom = Max({@, 1})]
  /\ UNCHANGED <<drawing, scissor, clip, asked, wrote, meant>>

EndMode2D ==
  /\ camera # Home
  /\ camera' = Home
  /\ lens' = Home
  /\ wrote' = {}
  /\ meant' = {}
  /\ UNCHANGED <<drawing, scissor, clip, asked>>

----------------------------------------------------------------------------
(* A call wrote some pixels; the shape is where it should have.  No call   *)
(* depends on one before it, so that one is enough between two changes of  *)
(* the clip.                                                               *)
Visible(p) == In(p, Screen) /\ (asked # <<>> => In(p, Corners(asked)))

Call(pixels, shape) ==
  /\ drawing
  /\ wrote = {} /\ meant = {}
  /\ wrote' = pixels
  /\ meant' = {p \in shape : Visible(p)}
  /\ UNCHANGED <<drawing, scissor, clip, camera, asked, lens>>

Bounds(b) == IF scissor.on THEN Meet(Meet(b, Screen), scissor.box) ELSE Meet(b, Screen)

(* fill_span and put_pixel *)
FillSpan(y, x0, x1) == Holds(Bounds(<<x0, y, x1, y + 1>>))
PutPixels(points) == {p \in points : In(p, Bounds(Screen))}

(* active_to_screen *)
ToScreen(p) == <<camera.offset[1] + (p[1] - camera.target[1]) * camera.zoom,
                 camera.offset[2] + (p[2] - camera.target[2]) * camera.zoom>>
Seen(box) == ToScreen(<<box[1], box[2]>>) \o <<box[3] * camera.zoom, box[4] * camera.zoom>>
\* The square that a pixel of the world is on the screen.
Square(p) ==
  {<<lens.offset[1] + (p[1] - lens.target[1]) * lens.zoom + dx, lens.offset[2] + (p[2] - lens.target[2]) * lens.zoom + dy>> :
     dx, dy \in 0..lens.zoom - 1}

\* A rectangle of the screen, row by row.
Filled(box) ==
  IF box[3] <= 0 \/ box[4] <= 0 THEN {}
  ELSE LET b == Bounds(Corners(box)) IN UNION {FillSpan(y, b[1], b[3]) : y \in b[2]..b[4] - 1}

DrawRectangle(box) == Call(Filled(Seen(box)), UNION {Square(p) : p \in Holds(Corners(box))})

(* raylib_lite_raylib_clear_background: the scissor has no say. *)
Cleared(stride) ==
  IF stride = Width THEN 0..Width * Height - 1
  ELSE UNION {y * stride..y * stride + Width - 1 : y \in 0..Height - 1}
ClearBackground ==
  /\ drawing /\ wrote = {} /\ meant = {}
  /\ \E stride \in Strides : wrote' = {<<i % stride, i \div stride>> : i \in Cleared(stride)}
  /\ meant' = Holds(Screen)
  /\ UNCHANGED <<drawing, scissor, clip, camera, asked, lens>>

(* raylib_lite_raylib_draw_line: the loop of Bresenham with both axes in   *)
(* one error term, at most as many steps as both axes have.                *)
Magnitude(n) == IF n < 0 THEN -n ELSE n

Bresenham(l) ==
  LET dx == Magnitude(l[3] - l[1])
      dy == -Magnitude(l[4] - l[2])
      sx == IF l[1] < l[3] THEN 1 ELSE -1
      sy == IF l[2] < l[4] THEN 1 ELSE -1
      At[n \in 0..dx - dy] ==
        IF n = 0 THEN [x |-> l[1], y |-> l[2], error |-> dx + dy]
        ELSE LET a == At[n - 1]
                 onX == 2 * a.error >= dy
                 onY == 2 * a.error <= dx
             IN IF a.x = l[3] /\ a.y = l[4] THEN a
                ELSE [x |-> IF onX THEN a.x + sx ELSE a.x,
                      y |-> IF onY THEN a.y + sy ELSE a.y,
                      error |-> a.error + (IF onX THEN dy ELSE 0) + (IF onY THEN dx ELSE 0)]
  IN {<<At[n].x, At[n].y>> : n \in 0..dx - dy}

(* The nearest pixel of each column of a flat line, of each row of a steep *)
(* one; halfway, both are near.                                            *)
NearLine(l) ==
  LET dx == l[3] - l[1]
      dy == l[4] - l[2]
      long == Max({Magnitude(dx), Magnitude(dy)})
  IN {p \in (Min({l[1], l[3]})..Max({l[1], l[3]})) \X (Min({l[2], l[4]})..Max({l[2], l[4]})) :
        2 * Magnitude((p[1] - l[1]) * dy - (p[2] - l[2]) * dx) <= long}

\* One of the near pixels at each step along the line.
LineShape(l) ==
  LET line == Bresenham(l)
      Axis(p) == IF Magnitude(l[3] - l[1]) >= Magnitude(l[4] - l[2]) THEN p[1] ELSE p[2]
      near == NearLine(l)
  IN IF /\ line \subseteq near
        /\ {Axis(p) : p \in line} = {Axis(p) : p \in near}
        /\ Cardinality(line) = Cardinality({Axis(p) : p \in near})
     THEN line ELSE near

OnScreenLine(l) == ToScreen(<<l[1], l[2]>>) \o ToScreen(<<l[3], l[4]>>)
DrawLine(l) == \E s \in {OnScreenLine(l)} : Call(PutPixels(Bresenham(s)), LineShape(s))

(* raylib_lite_raylib_draw_line_ex: one or two thin lines, or the pixels   *)
(* whose middle is near the line.  Everything is doubled.                  *)
Beside(l) == IF Magnitude(l[3] - l[1]) >= Magnitude(l[4] - l[2])
             THEN <<l[1], l[2] + 1, l[3], l[4] + 1>> ELSE <<l[1] + 1, l[2], l[3] + 1, l[4]>>
Above(l, p) == IF Magnitude(l[3] - l[1]) >= Magnitude(l[4] - l[2]) THEN <<p[1], p[2] - 1>> ELSE <<p[1] - 1, p[2]>>
Reached(l, thick, p) ==
  LET dx == l[3] - l[1]
      dy == l[4] - l[2]
      x == 2 * (p[1] - l[1]) + 1
      y == 2 * (p[2] - l[2]) + 1
      long == dx * dx + dy * dy
      along == x * dx + y * dy
      End(a, b) == 4 * (a * a + b * b) <= thick * thick
  IN IF along <= 0 THEN End(x, y)
     ELSE IF along >= 2 * long THEN End(x - 2 * dx, y - 2 * dy)
     ELSE 4 * (x * dy - y * dx) * (x * dy - y * dx) <= thick * thick * long
LineBox(l, thick) ==
  LET Low(a, b) == (4 * Min({a, b}) - thick) \div 4
      High(a, b) == -((-4 * Max({a, b}) - thick) \div 4)
  IN (Low(l[1], l[3])..High(l[1], l[3])) \X (Low(l[2], l[4])..High(l[2], l[4]))
DrawLineEx(line, halves) ==
  \E l \in {OnScreenLine(line)}, thick \in {halves * camera.zoom} :
    CASE thick = 2 -> Call(PutPixels(Bresenham(l)), LineShape(l))
      [] thick = 3 -> Call(PutPixels(Bresenham(l) \cup Bresenham(Beside(l))),
                           {p \in Pixels : {p, Above(l, p)} \cap LineShape(l) # {}})
      [] OTHER -> Call(PutPixels({p \in LineBox(l, thick) : Reached(l, thick, p)}),
                       {p \in Pixels : Reached(l, thick, p)})

(* raylib_lite_raylib_draw_line_dashed: lines of a dash each, both ends    *)
(* drawn.                                                                  *)
DrawLineDashed(l, dash, space) ==
  LET long == Max({Magnitude(l[3] - l[1]), Magnitude(l[4] - l[2])})
      step == dash + Max({space, 0})
      From(n) == <<l[1] + ((l[3] - l[1]) * n) \div long, l[2] + ((l[4] - l[2]) * n) \div long>>
      Dash(n) == Bresenham(From(n) \o From(Min({n + dash, long})))
  IN IF long = 0 \/ dash <= 0 THEN Call({}, {})
     ELSE Call(PutPixels(UNION {Dash(n * step) : n \in {k \in 0..long : k * step < long}}),
               {p \in NearLine(l) : \E k \in 0..long :
                  /\ k * step < long
                  /\ Magnitude(p[1] - l[1]) + Magnitude(p[2] - l[2]) - k * step \in 0..dash})

----------------------------------------------------------------------------
(* edge *)
Edge(a, b, p) == (p[1] - a[1]) * (b[2] - a[2]) - (p[2] - a[2]) * (b[1] - a[1])

FloorDiv(n, d) == n \div d

\* Slip: the bound of a span is rounded towards zero, as C divides.
Truncated(n, d) == IF n < 0 THEN -((-n) \div d) ELSE n \div d
CeilDiv(n, d) == -((-n) \div d)

(* raylib_lite_raylib_draw_triangle: a span per row, between half-planes. *)
TriangleSpans(t) ==
  LET v == <<<<t[1], t[2]>>, <<t[3], t[4]>>, <<t[5], t[6]>>>>
      xs == {v[i][1] : i \in 1..3}
      ys == {v[i][2] : i \in 1..3}
      box == Bounds(<<Min(xs), Min(ys), Max(xs) + 1, Max(ys) + 1>>)
      area == Edge(v[1], v[2], v[3])
      winding == IF area > 0 THEN 1 ELSE -1
      Slope(i) == (v[(i % 3) + 1][2] - v[i][2]) * winding
      Value(i, y) == Edge(v[i], v[(i % 3) + 1], <<0, y>>) * winding
      From(y) == Max({box[1]} \cup {CeilDiv(-Value(i, y), Slope(i)) : i \in {j \in 1..3 : Slope(j) > 0}})
      Until(y) == Min({box[3] - 1} \cup {FloorDiv(Value(i, y), -Slope(i)) : i \in {j \in 1..3 : Slope(j) < 0}})
      Inside(y) == \A i \in 1..3 : Slope(i) = 0 => Value(i, y) >= 0
  IN IF area = 0 THEN {}
     ELSE UNION {FillSpan(y, From(y), Until(y) + 1) : y \in {r \in box[2]..box[4] - 1 : Inside(r)}}

(* raylib_lite_raylib_check_collision_point_triangle: a triangle is drawn  *)
(* where a game finds it to be hit; a flat one is not drawn.               *)
HitsTriangle(p, a, b, c) ==
  LET Side(u, v) == (p[1] - v[1]) * (u[2] - v[2]) - (u[1] - v[1]) * (p[2] - v[2])
      sides == {Side(a, b), Side(b, c), Side(c, a)}
  IN ~((\E d \in sides : d < 0) /\ (\E d \in sides : d > 0))

DrawTriangle(t) ==
  LET a == ToScreen(<<t[1], t[2]>>)
      b == ToScreen(<<t[3], t[4]>>)
      c == ToScreen(<<t[5], t[6]>>)
  IN Call(TriangleSpans(a \o b \o c),
          IF Edge(a, b, c) = 0 THEN {} ELSE {p \in Pixels : HitsTriangle(p, a, b, c)})

(* raylib_lite_raylib_draw_triangle_fan and _strip, of four points; the    *)
(* latter gets them in the order of a zigzag.                              *)
Fan(q) == TriangleSpans(q[1] \o q[2] \o q[3]) \cup TriangleSpans(q[1] \o q[3] \o q[4])
Strip(z) == TriangleSpans(z[1] \o z[2] \o z[3]) \cup TriangleSpans(z[2] \o z[3] \o z[4])
DrawQuad(q) ==
  \E shape \in {{p \in Pixels : \A i \in 1..4 : Edge(q[i], q[(i % 4) + 1], p) >= 0}} :
    Call(Fan(q), shape) \/ Call(Strip(<<q[1], q[2], q[4], q[3]>>), shape)

(* raylib_lite_raylib_draw_poly with four sides. *)
DrawDiamond(c) ==
  LET Corner(i) == <<c[1] + c[3] * <<1, 0, -1, 0>>[(i % 4) + 1], c[2] + c[3] * <<0, 1, 0, -1>>[(i % 4) + 1]>>
  IN Call(UNION {TriangleSpans(<<c[1], c[2]>> \o Corner(i) \o Corner(i + 1)) : i \in 0..3},
          {p \in Pixels : c[3] > 0 /\ Magnitude(p[1] - c[1]) + Magnitude(p[2] - c[2]) <= c[3]})

Root(n) == CHOOSE s \in 0..n : s * s <= n /\ (s + 1) * (s + 1) > n
HitsCircle(p, c) == (p[1] - c[1]) * (p[1] - c[1]) + (p[2] - c[2]) * (p[2] - c[2]) <= c[3] * c[3]
Disc(c) == UNION {LET span == Root(c[3] * c[3] - y * y) IN FillSpan(c[2] + y, c[1] - span, c[1] + span + 1)
                  : y \in -c[3]..c[3]}
SeenCircle(c) == Append(ToScreen(<<c[1], c[2]>>), c[3] * camera.zoom)

DrawCircle(circle) ==
  \E c \in {SeenCircle(circle)} : Call(Disc(c), {p \in Pixels : HitsCircle(p, c)})

(* raylib_lite_raylib_draw_circle_lines: what is meant is a ring that has  *)
(* the rim of the disc in it, and nothing a pixel away from it.            *)
Ring(c) ==
  LET outer == c[3] + 1
      inner == Max({0, c[3] - 1})
      Square2(x, y) == x * x + y * y
  IN {<<c[1] + d[1], c[2] + d[2]>> : d \in {e \in (-outer..outer) \X (-outer..outer) :
        Square2(e[1], e[2]) <= outer * outer /\ Square2(e[1], e[2]) >= inner * inner}}
Rim(c) ==
  {p \in (c[1] - c[3]..c[1] + c[3]) \X (c[2] - c[3]..c[2] + c[3]) :
     /\ HitsCircle(p, c)
     /\ \E q \in {<<1, 0>>, <<-1, 0>>, <<0, 1>>, <<0, -1>>} : ~HitsCircle(<<p[1] + q[1], p[2] + q[2]>>, c)}
DrawCircleLines(circle) ==
  \E c \in {SeenCircle(circle)} :
    LET Wide(n) == <<c[1], c[2], c[3] + n>>
    IN Call(PutPixels(Ring(c)),
            IF /\ Rim(c) \subseteq Ring(c)
               /\ \A p \in Ring(c) : HitsCircle(p, Wide(1)) /\ (c[3] > 1 => p \in Rim(Wide(-1)) \/ ~HitsCircle(p, Wide(-1)))
            THEN Ring(c) ELSE Rim(c))

(* draw_ellipse: rows are looked at in their middle, so that the ellipse   *)
(* lies half a row above its centre; an outline is the ends of its rows.   *)
InEllipse(e, y, s) == 4 * s * s * e[4] * e[4] <= e[3] * e[3] * (4 * e[4] * e[4] - (2 * y + 1) * (2 * y + 1))
Reach(e, y) == CHOOSE s \in 0..e[3] : InEllipse(e, y, s) /\ ~InEllipse(e, y, s + 1)
EllipseRows(e) == {y \in -e[4]..e[4] : InEllipse(e, y, 0)}
DrawEllipse(e) ==
  \E filled \in {{p \in (e[1] - e[3]..e[1] + e[3]) \X (e[2] - e[4]..e[2] + e[4]) :
                    InEllipse(e, p[2] - e[2], Magnitude(p[1] - e[1]))}} :
    \/ Call(UNION {FillSpan(e[2] + y, e[1] - Reach(e, y), e[1] + Reach(e, y) + 1) : y \in EllipseRows(e)}, filled)
    \/ Call(PutPixels(UNION {{<<e[1] - Reach(e, y), e[2] + y>>, <<e[1] + Reach(e, y), e[2] + y>>} : y \in EllipseRows(e)}),
            {p \in filled : {<<p[1] - 1, p[2]>>, <<p[1] + 1, p[2]>>} \ filled # {}})

----------------------------------------------------------------------------
(* Shapes made of rectangles, and text.                                    *)

(* raylib_lite_raylib_draw_rectangle_gradient_v and _h: mix_color of one   *)
(* channel, for a row or a column at a time.                               *)
Mix(a, b, value, limit) == (a * (limit - value) + b * value) \div limit
Painted(box, colour) == {<<p[1], p[2], colour>> : p \in Filled(box)}
Shaded(box, i, a, b) ==
  {<<p[1], p[2], c>> : p \in Holds(Corners(box)), c \in {a, b} \cup (Min({a, b})..Max({a, b}))}
DrawGradient(box, a, b) ==
  LET Meant(i) == {q \in Shaded(box, i, a, b) :
                     LET n == box[i + 2] - 1
                         k == q[i] - box[i]
                         apart == a * (n - k) + b * k - q[3] * n
                     IN IF n = 0 THEN q[3] = a ELSE apart \in 0..n - 1}
      Limit(i) == Max({box[i + 2] - 1, 1})
  IN \/ Call(UNION {Painted(<<box[1], box[2] + row, box[3], 1>>, Mix(a, b, row, Limit(2))) : row \in 0..box[4] - 1}, Meant(2))
     \/ Call(UNION {Painted(<<box[1] + col, box[2], 1, box[4]>>, Mix(a, b, col, Limit(1))) : col \in 0..box[3] - 1}, Meant(1))

(* raylib_lite_raylib_draw_rectangle_lines_ex, and _lines with a thickness *)
(* of one.                                                                 *)
DrawBorder(b, t) ==
  Call(UNION {Filled(r) : r \in {<<b[1], b[2], b[3], t>>, <<b[1], b[2] + b[4] - t, b[3], t>>,
                                 <<b[1], b[2] + t, t, b[4] - 2 * t>>, <<b[1] + b[3] - t, b[2] + t, t, b[4] - 2 * t>>}},
       Holds(Corners(b)) \ Holds(<<b[1] + t, b[2] + t, b[1] + b[3] - t, b[2] + b[4] - t>>))

(* raylib_lite_raylib_draw_rectangle_rounded: a cross and four discs.      *)
DrawRounded(b, halves) ==
  LET quarters == Min({b[3], b[4]}) * halves      \* of a pixel, the radius
      rad == (quarters + 3) \div 4
      r == quarters \div 4
      Centres == {<<b[1] + rad, b[2] + rad>>, <<b[1] + b[3] - rad - 1, b[2] + rad>>,
                  <<b[1] + rad, b[2] + b[4] - rad - 1>>, <<b[1] + b[3] - rad - 1, b[2] + b[4] - rad - 1>>}
      Cross == {<<b[1] + rad, b[2], b[3] - 2 * rad, b[4]>>, <<b[1], b[2] + rad, b[3], b[4] - 2 * rad>>}
      \* How far into a corner a pixel lies.
      round == CHOOSE n \in 0..quarters : 4 * n >= quarters /\ 4 * (n - 1) < quarters
      Deep(p, i) == Max({0, b[i] + round - p[i], p[i] - (b[i] + b[i + 2] - round - 1)})
  IN Call(IF quarters < 4 THEN Filled(b)
          ELSE UNION ({Filled(c) : c \in Cross} \cup {Disc(Append(c, r)) : c \in Centres}),
          IF quarters < 4 THEN Holds(Corners(b))
          ELSE {p \in Holds(Corners(b)) :
                  Deep(p, 1) = 0 \/ Deep(p, 2) = 0 \/ Deep(p, 1) * Deep(p, 1) + Deep(p, 2) * Deep(p, 2) <= r * r})

(* raylib_lite_raylib_draw_text: the runs of a row of a glyph are          *)
(* rectangles; a character without a glyph takes its place.                *)
Bit(row, x) == (row \div 2 ^ (4 - x)) % 2 = 1
Runs(row) == {r \in (0..4) \X (1..5) :
  /\ r[1] < r[2]
  /\ \A x \in r[1]..r[2] - 1 : Bit(row, x)
  /\ r[1] = 0 \/ ~Bit(row, r[1] - 1)
  /\ r[2] = 5 \/ ~Bit(row, r[2])}
Scale(size) == Max({1, size \div 8})
Glyph(ch, x, y, scale) ==
  IF ch \notin DOMAIN Font THEN {}
  ELSE {<<x + r[1] * scale, y + row * scale, (r[2] - r[1]) * scale, scale>> :
          <<row, r>> \in {q \in (0..6) \X ((0..4) \X (1..5)) : q[2] \in Runs(Font[ch][q[1] + 1])}}
\* raylib_lite_raylib_measure_text
MeasureText(text, size) == IF text = <<>> THEN 0 ELSE Len(text) * 6 * Scale(size) - Scale(size)

DrawText(text, x, y, size) ==
  \E at \in {ToScreen(<<x, y>>)}, scale \in {Scale(size * camera.zoom)} :
    LET \* The dot of the text a pixel lies on, of a text so large.
        big == size * lens.zoom
        Dot(p) == [glyph |-> text[(p[1] - at[1]) \div (6 * Scale(big)) + 1],
                   x |-> ((p[1] - at[1]) \div Scale(big)) % 6, y |-> (p[2] - at[2]) \div Scale(big)]
        Lit(d) == d.glyph \in DOMAIN Font /\ d.x < 5 /\ Bit(Font[d.glyph][d.y + 1], d.x)
    IN Call(UNION {Filled(r) : r \in UNION {Glyph(text[i], at[1] + (i - 1) * 6 * scale, at[2], scale) : i \in DOMAIN text}},
            {p \in Holds(Corners(at \o <<MeasureText(text, big), 7 * Scale(big)>>)) : Lit(Dot(p))})

----------------------------------------------------------------------------
(* sample_step and sample_next: the n-th value of the stepper that starts  *)
(* "start" pixels into a picture of "num" texels on "den" pixels.          *)
Sampled(start, num, den, n) ==
  LET At[i \in 0..n] ==
        IF i = 0 THEN [value |-> (start * num) \div den, error |-> (start * num) % den]
        ELSE LET s == At[i - 1]
                 error == s.error + (num % den)
                 carry == error >= den
             IN [value |-> s.value + (num \div den) + (IF carry THEN 1 ELSE 0),
                 error |-> IF carry THEN error - den ELSE error]
  IN At[n].value

Texel(start, num, den, n) == Sampled(start, num, den, n)

Flipped(flip, size, s) == IF flip THEN size - 1 - s ELSE s
InTexture(s) == s[1] \in 0..Texture[1] - 1 /\ s[2] \in 0..Texture[2] - 1
Textured(pairs) == {q \in pairs : InTexture(<<q[3], q[4]>>)}

(* The paths of raylib_lite_renderer_draw_texture_pro that do not rotate:  *)
(* they differ in how they combine a texel with what is there.             *)
DrawTexture(picture) ==
  LET src == picture[1]
      dst == picture[2]
      sw == Magnitude(src[3])
      sh == Magnitude(src[4])
      dw == Magnitude(dst[3])
      dh == Magnitude(dst[4])
      b == Meet(Meet(<<dst[1], dst[2], dst[1] + dw, dst[2] + dh>>, Screen), clip)
      X(x) == src[1] + Flipped(src[3] < 0, sw, Texel(b[1] - dst[1], sw, dw, x - b[1]))
      Y(y) == src[2] + Flipped(src[4] < 0, sh, Texel(b[2] - dst[2], sh, dh, y - b[2]))
      RefX(x) == src[1] + Flipped(src[3] < 0, sw, ((x - dst[1]) * sw) \div dw)
      RefY(y) == src[2] + Flipped(src[4] < 0, sh, ((y - dst[2]) * sh) \div dh)
  IN IF 0 \in {sw, sh, dw, dh} THEN Call({}, {})
     ELSE Call(Textured({<<p[1], p[2], X(p[1]), Y(p[2])>> : p \in Holds(b)}),
               Textured({<<p[1], p[2], RefX(p[1]), RefY(p[2])>> :
                           p \in Holds(<<dst[1], dst[2], dst[1] + dw, dst[2] + dh>>)}))

(* raylib_lite_renderer_draw_tile_row of an opaque texture: ids of tiles,  *)
(* 0 for none.                                                             *)
DrawTileRow(ids, tw, th, dx, dy) ==
  LET Tile(i) ==
        LET sx == (ids[i] - 1) * tw
            left == dx + (i - 1) * tw
            b == Meet(<<left, dy, left + tw, dy + th>>, clip)
        IN IF ids[i] = 0 \/ sx + tw > Texture[1] \/ th > Texture[2] THEN {}
           ELSE {<<p[1], p[2], sx + (p[1] - left), p[2] - dy>> : p \in Holds(b)}
      Shown(i) ==
        IF ids[i] = 0 THEN {}
        ELSE {<<dx + (i - 1) * tw + x, dy + y, (ids[i] - 1) * tw + x, y>> : x \in 0..tw - 1, y \in 0..th - 1}
      tiles == DOMAIN ids
  IN Call(UNION {Tile(i) : i \in tiles},
          UNION {Shown(i) : i \in {j \in tiles : \A q \in Shown(j) : InTexture(<<q[3], q[4]>>)}})

(* wrap_coord, with the mask of a power of two. *)
Wrapped(value, size) == value % size

(* raylib_lite_renderer_draw_span: a row of texels along a straight line   *)
(* of the texture, which repeats in both directions.                       *)
DrawSpan(s) ==
  LET b == Meet(<<s[2], s[1], s[3], s[1] + 1>>, clip)
      At(v, d, n) == (v + d * n) \div One
      Pixel(x, from) == <<x, s[1], Wrapped(At(s[4] + s[6] * (from - s[2]), s[6], x - from), s[8]),
                          Wrapped(At(s[5] + s[7] * (from - s[2]), s[7], x - from), s[9])>>
  IN Call(Textured({Pixel(p[1], b[1]) : p \in Holds(b)}),
          Textured({Pixel(x, s[2]) : x \in s[2]..s[3] - 1}))

(* raylib_lite_renderer_draw_floor_rows: one texel per column of a floor,  *)
(* widened and repeated, below the wall that stands in that column.        *)
DrawFloorRows(s, bottoms, width, repeat) ==
  LET At(v, d, i) == (v + d * (i - 1)) \div One
      Row(i, y) ==
        LET left == s[2] + (i - 1) * width
            b == Meet(<<left, y, left + width, y + 1>>, clip)
        IN IF y < bottoms[i] THEN {}
           ELSE {<<p[1], y, Wrapped(At(s[4], s[6], i), s[8]), Wrapped(At(s[5], s[7], i), s[9])>> : p \in Holds(b)}
      Under(x) == (x - s[2]) \div width + 1
      rows == s[1]..s[1] + Min({repeat, 2}) - 1
  IN Call(Textured(UNION {Row(i, y) : i \in DOMAIN bottoms, y \in rows}),
          Textured({<<x, y, Wrapped(At(s[4], s[6], Under(x)), s[8]), Wrapped(At(s[5], s[7], Under(x)), s[9])>> :
                      <<x, y>> \in {p \in (s[2]..s[2] + Len(bottoms) * width - 1) \X rows :
                                      p[2] >= bottoms[Under(p[1])]}}))

----------------------------------------------------------------------------
(* Walls, as a ray caster draws them: columns that show the middle of      *)
(* their piece of the texture, later ones over earlier ones.               *)
Over(picture, pixels) == {q \in picture : \A p \in pixels : <<p[1], p[2]>> # <<q[1], q[2]>>} \cup pixels

Middle(c) == c.src[1] + Magnitude(c.src[3]) \div 2
Sound(c) == c.dst[3] > 0 /\ c.dst[4] > 0 /\ c.src[3] # 0 /\ c.src[4] # 0 /\ Middle(c) \in 0..Texture[1] - 1

\* The texel's row at y, from the first row inside the clip on.
Scaled(c, y) ==
  LET top == Max({c.dst[2], clip[2]})
  IN  c.src[2] + Texel(top - c.dst[2], Magnitude(c.src[4]), c.dst[4], y - top)
Phased(c, y) ==
  LET top == Max({c.dst[2], clip[2]})
  IN  IF c.step = 0 THEN Scaled(c, y)
      ELSE c.src[2] + (c.phase + (top - c.dst[2]) * c.step + (y - top) * c.step) \div One

\* A row of a column; phased: the texel's row comes from the column's phase.
Row(c, y, phased) ==
  LET b == Meet(Corners(c.dst), clip)
  IN  IF y \notin b[2]..b[4] - 1 THEN {}
      ELSE Textured({<<x, y, Middle(c), IF phased THEN Phased(c, y) ELSE Scaled(c, y)>> : x \in b[1]..b[3] - 1})

(* A block of columns is drawn row by row, in their order within a row.    *)
DrawBlock(picture, columns, phased) ==
  LET used == SelectSeq(columns, Sound)
      Across(now, y) == FoldLeft(LAMBDA p, c : Over(p, Row(c, y, phased)), now, used)
  IN  FoldLeft(Across, picture, [n \in 1..clip[4] - clip[2] |-> clip[2] + n - 1])

Blocks(columns) ==
  [n \in 1..(Len(columns) + Block - 1) \div Block |->
     SubSeq(columns, (n - 1) * Block + 1, Min({n * Block, Len(columns)}))]

(* raylib_lite_renderer_draw_raycast_walls *)
OpaqueWalls(columns) == FoldLeft(LAMBDA p, block : DrawBlock(p, block, TRUE), {}, Blocks(columns))

(* raylib_lite_2d_draw_indexed_raycast_walls: an atlas stored by rows is   *)
(* drawn in blocks, one stored by columns a column at a time; both scale.  *)
IndexedByRow(columns) == FoldLeft(LAMBDA p, block : DrawBlock(p, block, FALSE), {}, Blocks(columns))
IndexedByColumn(columns) ==
  FoldLeft(LAMBDA p, c : DrawBlock(p, <<c>>, FALSE), {}, SelectSeq(columns, Sound))

(* raylib_lite_2d_draw_solid_raycast_walls: no texture, but a colour. *)
SolidWalls(columns) ==
  FoldLeft(LAMBDA p, c : Over(p, {<<q[1], q[2], c.src[1], c.src[2]>> : q \in Holds(Meet(Corners(c.dst), clip))}),
           {}, SelectSeq(columns, LAMBDA c : c.dst[3] > 0 /\ c.dst[4] > 0))

\* What the last column shows of those that have something to show at a pixel.
Standing(columns, Shows(_)) ==
  UNION {{q \in Shows(columns[i]) :
            \A p \in UNION {Shows(columns[k]) : k \in i + 1..Len(columns)} :
              <<p[1], p[2]>> # <<q[1], q[2]>>} : i \in DOMAIN columns}
ByDivision(c) ==
  IF ~Sound(c) THEN {}
  ELSE Textured({<<p[1], p[2], Middle(c), c.src[2] + ((p[2] - c.dst[2]) * Magnitude(c.src[4])) \div c.dst[4]>>
                   : p \in Holds(Corners(c.dst))})
ByPhase(c) ==
  IF ~Sound(c) \/ c.step = 0 THEN ByDivision(c)
  ELSE Textured({<<p[1], p[2], Middle(c), c.src[2] + (c.phase + (p[2] - c.dst[2]) * c.step) \div One>>
                   : p \in Holds(Corners(c.dst))})
ByColour(c) == {<<p[1], p[2], c.src[1], c.src[2]>> : p \in Holds(Corners(c.dst))}

DrawWalls(columns) ==
  \/ Call(OpaqueWalls(columns), Standing(columns, ByPhase))
  \/ Call(IndexedByRow(columns), Standing(columns, ByDivision))
  \/ Call(IndexedByColumn(columns), Standing(columns, ByDivision))
  \/ Call(SolidWalls(columns), Standing(columns, ByColour))

(* raylib_lite_renderer_draw_column *)
DrawColumn(c) ==
  Call(IF ~Sound(c) THEN {} ELSE UNION {Row(c, y, FALSE) : y \in clip[2]..clip[4] - 1}, ByDivision(c))

\* What a camera moves and enlarges ...
InWorld ==
  \/ \E box \in Boxes : DrawRectangle(box)
  \/ \E l \in Lines : DrawLine(l)
  \/ \E l \in Thick : DrawLineEx(l[1], l[2])
  \/ \E t \in Triangles : DrawTriangle(t)
  \/ \E c \in Circles : DrawCircle(c) \/ DrawCircleLines(c)
  \/ \E t \in Texts : DrawText(t[1], t[2], t[3], t[4])

\* ... and what is looked at without one: shapes that are made of others,
\* and the calls of the renderer, which know no camera.
AtHome ==
  \/ ClearBackground
  \/ \E d \in Dashes : DrawLineDashed(d[1], d[2], d[3])
  \/ \E b \in Borders : DrawBorder(b[1], b[2]) \/ DrawGradient(b[1], 3, 9) \/ DrawGradient(b[1], 7, 2)
  \/ \E r \in Rounds : DrawRounded(r[1], r[2])
  \/ \E q \in Convex : DrawQuad(q)
  \/ \E c \in Circles : DrawDiamond(c)
  \/ \E e \in Ellipses : DrawEllipse(e)
  \/ \E p \in Pictures : DrawTexture(p)
  \/ \E ids \in {<<1, 0, 2>>, <<4, 3>>}, dx, dy \in -1..1 : DrawTileRow(ids, 2, 2, dx, dy)
  \/ \E s \in Spans : DrawSpan(s) \/ \E repeat \in 1..3 : DrawFloorRows(s, <<2, 0, 1>>, 2, repeat)
  \/ \E columns \in Walls : DrawWalls(columns) \/ DrawColumn(columns[1])

Next ==
  \/ BeginDrawing \/ EndDrawing
  \* The one call is followed by nothing but the end of the frame.
  \/ /\ wrote = {} /\ meant = {}
     /\ \/ EndScissor \/ EndMode2D
        \/ \E box \in Boxes : camera = Home /\ BeginScissor(box)
        \/ \E c \in Cameras : BeginMode2D(c)
  \/ InWorld
  \/ camera = Home /\ AtHome

Spec == Init /\ [][Next]_vars

----------------------------------------------------------------------------
(* Every call writes just the pixels of its shape that can be seen, the    *)
(* right texel in each, whatever scissor is set and however far the shape  *)
(* reaches beyond it.  A scissor that misses the screen is left out: the   *)
(* primitives then draw without one (see the README).                      *)
OnScreen(box) == Holds(Meet(Corners(box), Screen)) # {}

DrawsWhatIsMeant == asked = <<>> \/ OnScreen(asked) => wrote = meant

----------------------------------------------------------------------------
(* The tests of collisions.  A game that asks them is told what its shapes *)
(* on the screen would tell it.                                            *)
CheckRecs(a, b) == a[1] < b[1] + b[3] /\ a[1] + a[3] > b[1] /\ a[2] < b[2] + b[4] /\ a[2] + a[4] > b[2]
HitsRec(p, r) == p[1] >= r[1] /\ p[1] <= r[1] + r[3] /\ p[2] >= r[2] /\ p[2] <= r[2] + r[4]
CollisionRec(a, b) ==
  LET m == Meet(Corners(a), Corners(b))
  IN IF m[3] <= m[1] \/ m[4] <= m[2] THEN <<0, 0, 0, 0>> ELSE <<m[1], m[2], m[3] - m[1], m[4] - m[2]>>
CheckCircles(a, b) == HitsCircle(a, <<b[1], b[2], a[3] + b[3]>>)
CheckCircleRec(c, r) ==
  HitsCircle(<<Max({r[1], Min({c[1], r[1] + r[3]})}), Max({r[2], Min({c[2], r[2] + r[4]})})>>, c)

Around(c) == {p \in (c[1] - c[3]..c[1] + c[3]) \X (c[2] - c[3]..c[2] + c[3]) : HitsCircle(p, c)}

(* Rectangles collide when they share pixels, those of their overlap; a    *)
(* circle collides with a rectangle when it reaches a point of it, edges   *)
(* and all; circles that share pixels collide.                             *)
CollisionsAreSeen ==
  /\ \A a, b \in Boxes :
       /\ Holds(Corners(CollisionRec(a, b))) = Holds(Corners(a)) \cap Holds(Corners(b))
       /\ a[3] > 0 /\ b[3] > 0 => (CheckRecs(a, b) <=> CollisionRec(a, b) # <<0, 0, 0, 0>>)
  /\ \A c \in Circles, b \in Boxes : CheckCircleRec(c, b) <=> \E p \in Around(c) : HitsRec(p, b)
  /\ \A c, d \in Circles : Around(c) \cap Around(d) # {} => CheckCircles(c, d)
=============================================================================
