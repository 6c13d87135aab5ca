------------------------------ MODULE TombView ------------------------------
(***************************************************************************)
(* How Tomb Raycast draws a frame without clearing it: a level of sectors  *)
(* is compiled to faces and portals (generate_level.py), and the view      *)
(* (tomb_view.c) collects the rooms that are seen through portals and      *)
(* draws them, the farthest first, each in the rectangle of its portal.    *)
(*                                                                         *)
(* Coordinates are in 1 / Unit of a sector, floats are exact, and a pose   *)
(* has a direction whose sine and cosine are fractions of Norm.  A face    *)
(* that is clipped at the near plane is taken to show what of it is behind *)
(* that plane.  Light, textures and the avatar are left out.               *)
(***************************************************************************)
EXTENDS Integers, Sequences, SequencesExt, TLC

CONSTANTS
  Levels,      \* sequences of rooms [x, z, sectors, portals]: sectors is rows of [solid, floor, ceiling]
               \* with heights at the corners nw, ne, se, sw; a portal is [side, from, to, room]
  Poses,       \* [room, at, yaw, pitch]: yaw and pitch are <<sine, cosine>> * Norm
  Unit, Norm,
  Near,        \* NEAR_Z, in 1 / (Unit * Norm^2)
  Doorway,     \* DOORWAY, in 1 / Unit
  Focal,       \* s_focal, in pixels
  Half,        \* half of the screen, in pixels
  MaxVis, MaxDepth

VARIABLES
  level, mesh, \* the level and the faces of its rooms
  pose,
  queue,       \* the rooms seen so far: [room, depth, x0, y0, x1, y1]
  head,        \* the next of them whose portals are looked at
  drawn,       \* how many of them are drawn, from the last to the first
  picture      \* pixel -> the room it shows, 0: still the last frame

vars == <<level, mesh, pose, queue, head, drawn, picture>>

----------------------------------------------------------------------------
(* generate_level.py *)
Wide(r) == Len(r.sectors[1])
Deep(r) == Len(r.sectors)
Inside(r, x, z) == x \in r.x .. r.x + Wide(r) - 1 /\ z \in r.z .. r.z + Deep(r) - 1
SectorAt(r, x, z) == r.sectors[z - r.z + 1][x - r.x + 1]

\* EDGES: the left and the right corner (1 nw, 2 ne, 3 se, 4 sw), and the next sector.
Edges == [north |-> <<2, 1, 0, -1>>, east |-> <<3, 2, 1, 0>>, south |-> <<4, 3, 0, 1>>, west |-> <<1, 4, -1, 0>>]
Corner(x, z, i) == <<(IF i \in {2, 3} THEN x + 1 ELSE x) * Unit, (IF i \in {3, 4} THEN z + 1 ELSE z) * Unit>>
Point(x, z, i, height) == <<Corner(x, z, i)[1], height, Corner(x, z, i)[2]>>

\* boundary_portal: the portals of a room's side that this sector is a part of.
PortalsOf(r, x, z, side) ==
  {p \in ToSet(r.portals) :
     /\ p.side = side /\ ~Inside(r, x + Edges[side][3], z + Edges[side][4])
     /\ (IF side \in {"north", "south"} THEN x - r.x ELSE z - r.z) \in p.from .. p.to}

Larger(a, b) == IF a > b THEN a ELSE b
Smaller(a, b) == IF a < b THEN a ELSE b

(* vertical: a wall in pieces of at most one unit of height, cut at whole  *)
(* heights.                                                                *)
Wall(x, z, side, bl, br, tl, tr) ==
  LET low == Smaller(bl, br)
      high == Larger(tl, tr)
      e == Edges[side]
      cuts == SetToSortSeq({low, high} \cup {h \in low .. high : h % Unit = 0}, <)
      Piece(i) == <<Larger(cuts[i], bl), Larger(cuts[i], br), Smaller(cuts[i + 1], tr), Smaller(cuts[i + 1], tl)>>
      Quad(p) == <<Point(x, z, e[1], p[1]), Point(x, z, e[2], p[2]), Point(x, z, e[2], p[3]), Point(x, z, e[1], p[4])>>
  IN  IF high <= low THEN {}
      ELSE {Quad(Piece(i)) : i \in {i \in 1 .. Len(cuts) - 1 : ~(Piece(i)[4] <= Piece(i)[1] /\ Piece(i)[3] <= Piece(i)[2])}}

(* build: the neighbour of a sector is in its room or behind a portal.  A  *)
(* wall closes the side to a solid neighbour or to none; a step and a drop *)
(* close what a neighbour leaves open.                                     *)
SideFaces(rooms, r, x, z, side) ==
  LET s == SectorAt(r, x, z)
      e == Edges[side]
      nx == x + e[3]
      nz == z + e[4]
      portals == PortalsOf(r, x, z, side)
      targets == IF Inside(r, nx, nz) THEN {r} ELSE {rooms[p.room] : p \in portals}
      fl == s.floor[e[1]]  fr == s.floor[e[2]]
      cl == s.ceiling[e[1]]  cr == s.ceiling[e[2]]
      \* matching_corners: the two corners of the neighbour on this edge
      Mirror(i) == CASE side = "north" -> 5 - i [] side = "south" -> 5 - i [] OTHER -> IF i \in {1, 2} THEN 3 - i ELSE 7 - i
  IN  IF targets = {} \/ \E t \in targets : SectorAt(t, nx, nz).solid THEN Wall(x, z, side, fl, fr, cl, cr)
      ELSE UNION {LET n == SectorAt(t, nx, nz)
                      nfl == n.floor[Mirror(e[1])]  nfr == n.floor[Mirror(e[2])]
                      ncl == n.ceiling[Mirror(e[1])]  ncr == n.ceiling[Mirror(e[2])]
                  IN  (IF nfl > fl \/ nfr > fr THEN Wall(x, z, side, fl, fr, Larger(nfl, fl), Larger(nfr, fr)) ELSE {})
                      \cup (IF ncl < cl \/ ncr < cr THEN Wall(x, z, side, Smaller(ncl, cl), Smaller(ncr, cr), cl, cr) ELSE {})
                  : t \in targets}

Faces(rooms, r) ==
  UNION {LET s == SectorAt(r, x, z)
         IN  IF s.solid THEN {}
             ELSE {[i \in 1 .. 4 |-> Point(x, z, i, s.floor[i])], [i \in 1 .. 4 |-> Point(x, z, 5 - i, s.ceiling[5 - i])]}
                  \cup UNION {SideFaces(rooms, r, x, z, side) : side \in DOMAIN Edges}
         : <<x, z>> \in (r.x .. r.x + Wide(r) - 1) \X (r.z .. r.z + Deep(r) - 1)}

(* portals: from the floor to the ceiling of its first and last sector, as *)
(* they lie from left to right for one who faces it.                       *)
Opening(r, p) ==
  LET e == Edges[p.side]
      Sector(n) == CASE p.side = "north" -> <<r.x + n, r.z>>
                     [] p.side = "south" -> <<r.x + n, r.z + Deep(r) - 1>>
                     [] p.side = "east" -> <<r.x + Wide(r) - 1, r.z + n>>
                     [] OTHER -> <<r.x, r.z + n>>
      first == IF p.side \in {"north", "east"} THEN Sector(p.to) ELSE Sector(p.from)
      last == IF p.side \in {"north", "east"} THEN Sector(p.from) ELSE Sector(p.to)
      f == SectorAt(r, first[1], first[2])
      l == SectorAt(r, last[1], last[2])
  IN  <<Point(first[1], first[2], e[1], f.floor[e[1]]), Point(last[1], last[2], e[2], l.floor[e[2]]),
        Point(last[1], last[2], e[2], l.ceiling[e[2]]), Point(first[1], first[2], e[1], f.ceiling[e[1]])>>

----------------------------------------------------------------------------
Minus(a, b) == <<a[1] - b[1], a[2] - b[2], a[3] - b[3]>>
Cross(a, b) == <<a[2] * b[3] - a[3] * b[2], a[3] * b[1] - a[1] * b[3], a[1] * b[2] - a[2] * b[1]>>
Dot(a, b) == a[1] * b[1] + a[2] * b[2] + a[3] * b[3]
Normal(q) == Cross(Minus(q[2], q[1]), Minus(q[3], q[1]))

(* set_camera and to_view, times Norm^2 *)
Right == <<pose.yaw[2] * Norm, 0, -(pose.yaw[1] * Norm)>>
Up == <<-(pose.yaw[1] * pose.pitch[1]), pose.pitch[2] * Norm, -(pose.yaw[2] * pose.pitch[1])>>
Forward == <<pose.yaw[1] * pose.pitch[2], pose.pitch[1] * Norm, pose.yaw[2] * pose.pitch[2]>>
View(p) ==
  LET d == Minus(p, pose.at)
  IN  <<Dot(d, Right), Dot(d, Up), Dot(d, Forward)>>

(* portal_scissor: from the four corners, cut at the near plane, to a      *)
(* rectangle in the one the room is seen in; none if the portal is seen    *)
(* from behind or too thin, all of it if the camera is in the doorway.     *)
Clipped(v) ==
  LET Next4(i) == (i % 4) + 1
      Cut(a, b) == [k \in 1 .. 3 |-> IF a[3] >= Near THEN a[k] * (Near - b[3]) + b[k] * (a[3] - Near)
                                    ELSE a[k] * (b[3] - Near) + b[k] * (Near - a[3])]
  IN  {v[i] : i \in {i \in 1 .. 4 : v[i][3] >= Near}}
      \cup {Cut(v[i], v[Next4(i)]) : i \in {i \in 1 .. 4 : (v[i][3] >= Near) # (v[Next4(i)][3] >= Near)}}

Scissor(q, box) ==
  LET n == Cross(Minus(q[2], q[1]), Minus(q[4], q[1]))
      length == IF n[1] < 0 THEN -n[1] ELSE IF n[1] > 0 THEN n[1] ELSE IF n[3] < 0 THEN -n[3] ELSE n[3]
      distance == Dot(Minus(pose.at, q[1]), n)
      points == Clipped([i \in 1 .. 4 |-> View(q[i])])
      xs == {Half + (Focal * p[1]) \div p[3] : p \in points}
      ys == {Half + (-(Focal * p[2])) \div p[3] : p \in points}
      Lowest(S) == CHOOSE m \in S : \A o \in S : m <= o
      Highest(S) == CHOOSE m \in S : \A o \in S : m >= o
      cut == [x0 |-> Larger(Lowest(xs), box.x0), y0 |-> Larger(Lowest(ys), box.y0),
              x1 |-> Smaller(Highest(xs) + 1, box.x1), y1 |-> Smaller(Highest(ys) + 1, box.y1)]
  IN  IF distance >= 0 THEN {}
      ELSE IF -distance < Doorway * length THEN {[x0 |-> box.x0, y0 |-> box.y0, x1 |-> box.x1, y1 |-> box.y1]}
      ELSE IF Cardinality(points) < 3 \/ cut.x1 - cut.x0 < 2 \/ cut.y1 - cut.y0 < 2 THEN {}
      ELSE {cut}

----------------------------------------------------------------------------
Pixels == (0 .. 2 * Half - 1) \X (0 .. 2 * Half - 1)

Init ==
  /\ level \in Levels
  /\ mesh = [r \in DOMAIN level |-> Faces(level, level[r])]
  /\ pose \in Poses
  /\ queue = <<[room |-> pose.room, depth |-> 0, x0 |-> 0, y0 |-> 0, x1 |-> 2 * Half, y1 |-> 2 * Half]>>
  /\ head = 1 /\ drawn = 0
  /\ picture = [p \in Pixels |-> 0]

(* collect_visible: the portals of one room; a room is taken once. *)
Looking == head <= Len(queue) /\ Len(queue) < MaxVis
Collect ==
  /\ Looking /\ head' = head + 1
  /\ LET cur == queue[head]
         Through(q, portal) ==
           LET boxes == Scissor(Opening(level[cur.room], portal), cur)
           IN  IF Len(q) >= MaxVis \/ (\E i \in DOMAIN q : q[i].room = portal.room) \/ boxes = {} THEN q
               ELSE Append(q, [room |-> portal.room, depth |-> cur.depth + 1] @@ (CHOOSE b \in boxes : TRUE))
     IN  queue' = IF cur.depth >= MaxDepth THEN queue ELSE FoldLeft(Through, queue, level[cur.room].portals)
  /\ UNCHANGED <<level, mesh, pose, drawn, picture>>

(* The ray of a pixel's middle, times Norm^2, and whether it meets a face  *)
(* that is seen from its front, behind the near plane.                     *)
Ray(p) ==
  LET rx == 2 * p[1] + 1 - 2 * Half
      ry == 2 * Half - 2 * p[2] - 1
  IN  [k \in 1 .. 3 |-> rx * Right[k] + ry * Up[k] + 2 * Focal * Forward[k]]

Facing(q) == Dot(Minus(q[1], pose.at), Normal(q)) > 0
Meets(q, ray) ==
  LET d == [i \in 1 .. 4 |-> Minus(q[i], pose.at)]
  IN  \A i \in 1 .. 4 : Dot(ray, Cross(d[i], d[(i % 4) + 1])) >= 0
Behind(q, ray) == 2 * Focal * Norm * Norm * Norm * Norm * Dot(Minus(q[1], pose.at), Normal(q)) >= Near * Dot(ray, Normal(q))

(* push_surface culls, draw_buffered draws, inside the scissor. *)
DrawRoom ==
  /\ ~Looking /\ drawn < Len(queue) /\ drawn' = drawn + 1
  /\ \E v \in {queue[Len(queue) - drawn]} :
       \E faces \in {{q \in mesh[v.room] : Facing(q)}} :
         picture' = [p \in Pixels |->
           IF p[1] \in v.x0 .. v.x1 - 1 /\ p[2] \in v.y0 .. v.y1 - 1
              /\ \E ray \in {Ray(p)} : \E q \in faces : Meets(q, ray) /\ Behind(q, ray)
           THEN v.room ELSE picture[p]]
  /\ UNCHANGED <<level, mesh, pose, queue, head>>

Next == Collect \/ DrawRoom
Spec == Init /\ [][Next]_vars

----------------------------------------------------------------------------
\* Is the first face (or opening) nearer along the ray than the second?
Nearer(q, s, ray) ==
  Dot(Minus(q[1], pose.at), Normal(q)) * Dot(ray, Normal(s)) < Dot(Minus(s[1], pose.at), Normal(s)) * Dot(ray, Normal(q))

\* The room in which the ray of a pixel ends: it leaves a room through an opening that no face hides.
RECURSIVE EndsIn(_, _, _)
EndsIn(r, ray, rooms) ==
  LET out == {p \in ToSet(level[r].portals) :
                LET o == Opening(level[r], p)
                IN  /\ p.room \notin rooms /\ Facing(o) /\ Meets(o, ray)
                    /\ \A q \in mesh[r] : Facing(q) /\ Meets(q, ray) => Nearer(o, q, ray)}
  IN  IF out = {} THEN r ELSE EndsIn((CHOOSE p \in out : TRUE).room, ray, rooms \cup {r})

Whole == ~Looking /\ drawn = Len(queue)

(* A pixel shows the room that its ray ends in: the portals' rectangles    *)
(* and the order in which rooms are drawn take the place of a depth        *)
(* buffer.  Only a room in whose doorway the camera stands has no          *)
(* rectangle, and may cover what is seen through another portal.           *)
Unbounded == {queue[i].room : i \in {i \in 2 .. Len(queue) : queue[i].x1 - queue[i].x0 = 2 * Half /\ queue[i].y1 - queue[i].y0 = 2 * Half}}
RoomsShowThrough ==
  Whole => \A p \in Pixels : picture[p] \in {0, EndsIn(pose.room, Ray(p), {pose.room})} \cup Unbounded

(* The frame is not cleared, so the faces must leave no pixel as it was.   *)
(* They do, but for the pieces of a wall that a slope leaves on one side:  *)
(* where a slope crosses a whole height the piece is twisted, and one that *)
(* ends in a point on its right has no area by its first three corners.    *)
(* And a room is left out when its portal shows in a strip of one pixel.   *)
Upright(q) == <<q[1][1], q[1][3]>> = <<q[4][1], q[4][3]>>
Torn(q) == Upright(q) /\ (q[3][2] <= q[2][2] \/ q[4][2] < q[1][2])
Around(q) ==
  LET low == Smaller(Smaller(q[1][2], q[2][2]), Smaller(q[3][2], q[4][2]))
      high == Larger(Larger(q[1][2], q[2][2]), Larger(q[3][2], q[4][2]))
  IN  [i \in 1 .. 4 |-> <<q[i][1], IF i <= 2 THEN low ELSE high, q[i][3]>>]
LeftOut(p) == p \in Pixels /\ \A i \in DOMAIN queue : queue[i].room # EndsIn(pose.room, Ray(p), {pose.room})
FrameIsWhole ==
  Whole => \A p \in Pixels :
    picture[p] = 0 =>
      \/ LeftOut(p) /\ \A x \in {-1, 1}, y \in {-1, 1} :
           ~(LeftOut(<<p[1] + x, p[2]>>) /\ LeftOut(<<p[1], p[2] + y>>) /\ LeftOut(<<p[1] + x, p[2] + y>>))
      \/ \E i \in DOMAIN queue : \E q \in mesh[queue[i].room] : Torn(q) /\ Meets(Around(q), Ray(p))
=============================================================================
