------------------------------ MODULE ZoneWalk ------------------------------
(***************************************************************************)
(* Where everybody stands in Last Zone: Extraction (last_zone_game.c): a   *)
(* mission is laid out on a map of cells and repaired, the player walks,   *)
(* slides along walls and opens doors, and the hostiles walk, follow the   *)
(* shortest way of cells to a place, or hold one in sight of the player.   *)
(* LastZone has the rest of the tick: what they notice, aim and shots.     *)
(*                                                                         *)
(* Places are in 1 / Unit of a cell.  Angles are left out: the player goes *)
(* by any of Moves, and where a heading is not along a row or a column a   *)
(* hostile goes by one of Steps.  What a hostile makes of its senses is    *)
(* free, except that it engages only who is in sight.  Cells: 0 floor,     *)
(* 1 wall, 2 window, 3 container, 4 door, 5 extraction.                    *)
(***************************************************************************)
EXTENDS Integers, Sequences, FiniteSets, SequencesExt

CONSTANTS
  Missions,    \* [map, spawn, extract, hostiles, things]: rows of cells, and cells <<x, y>>
  Unit,
  Radius, Slide, Shift,   \* of a body; how far a slide looks, and how far it goes
  Moves, Facings,         \* of the player: velocities; directions of length 5 to shoot in
  Steps, Knocks,          \* of a hostile, when it does not follow a route
  Stride,                 \* the length of its step along a route
  Modes,                  \* what its senses may make of it
  Noise,                  \* how far a shot is heard, in tenths of a cell
  Renew, Rehold, Clock    \* ticks between two routes, two choices of a place, and a multiple of both

VARIABLES
  mission, player, doors, explored,
  hostiles,    \* per hostile [up, at, mode, nav, goal, hold]; goal is where the player was seen last
  things,      \* the cells of supplies and props
  clock,
  turn         \* of a tick: 0 the player's shot, 1 his walk, 1 + i the hostile i

vars == <<mission, player, doors, explored, hostiles, things, clock, turn>>

-----------------------------------------------------------------------------
(* s_maps: the five missions as the code has them, with the hostiles that  *)
(* are active, the supplies and the props.  A row of a map is three        *)
(* numbers of eight digits, a digit a cell.                                *)
Power == <<10000000, 1000000, 100000, 10000, 1000, 100, 10, 1>>
Digits(thirds) == [x \in 1 .. 24 |-> (thirds[((x - 1) \div 8) + 1] \div Power[((x - 1) % 8) + 1]) % 10]
Drawn(rows) == [y \in 1 .. 24 |-> Digits(rows[y])]

Campaign == <<
  [map |-> Drawn(<<
    <<11111111, 11111111, 11111111>>, <<10000001, 0, 1>>, <<10000002, 0, 1>>, <<10000002, 0, 1>>,
    <<10000001, 1000, 1>>, <<10003001, 1000, 1>>, <<10000001, 1000, 1>>, <<11111100, 11111000, 1>>,
    <<10000000, 300000, 1>>, <<10000000, 2000, 1>>, <<11111111, 11111441, 11111111>>, <<10000000, 0, 1000001>>,
    <<10000000, 0, 1000001>>, <<10000000, 3, 1000001>>, <<10000000, 0, 1>>, <<10000000, 0, 1000001>>,
    <<10000000, 0, 1003001>>, <<10000000, 0, 1000001>>, <<10000000, 0, 1110011>>, <<10000000, 0, 1>>,
    <<10000000, 0, 5501>>, <<10000000, 0, 1>>, <<10000000, 0, 1>>, <<11111111, 11111111, 11111111>>>>),
   spawn |-> <<2, 3>>, extract |-> <<20, 20>>,
   hostiles |-> <<<<10, 8>>, <<15, 8>>, <<15, 13>>, <<20, 15>>, <<20, 19>>>>,
   things |-> <<<<5, 5>>, <<3, 9>>, <<10, 9>>, <<15, 12>>, <<20, 14>>, <<19, 21>>, <<14, 12>>, <<3, 5>>,
              <<9, 8>>, <<19, 15>>>>],
  [map |-> Drawn(<<
    <<11111111, 11111111, 11111111>>, <<10000000, 10000000, 1>>, <<10000000, 10000000, 5501>>,
    <<10000000, 10000000, 1>>, <<10000000, 20030000, 300001>>, <<10003000, 20000000, 1>>, <<10000000, 10000000, 1>>,
    <<10000000, 10000000, 1>>, <<10000000, 11111144, 11111111>>, <<10000000, 1, 1>>, <<10000000, 1, 1>>,
    <<10003000, 30001, 1>>, <<10000000, 1, 30001>>, <<10000000, 0, 1>>, <<10000000, 1, 1>>,
    <<11111111, 44111111, 1>>, <<10000000, 1, 1>>, <<10000000, 1, 1>>, <<10000000, 1, 1>>,
    <<10003000, 30000, 30001>>, <<10000000, 1, 1>>, <<10000000, 1, 1>>, <<10000000, 1, 1>>,
    <<11111111, 11111111, 11111111>>>>),
   spawn |-> <<2, 20>>, extract |-> <<20, 2>>,
   hostiles |-> <<<<4, 11>>, <<11, 19>>, <<19, 19>>, <<11, 11>>, <<18, 12>>, <<10, 4>>, <<19, 4>>>>,
   things |-> <<<<4, 18>>, <<3, 13>>, <<11, 18>>, <<18, 18>>, <<20, 10>>, <<18, 3>>, <<5, 11>>,
              <<12, 11>>, <<20, 12>>, <<3, 18>>, <<10, 19>>, <<18, 19>>>>],
  [map |-> Drawn(<<
    <<11111111, 11111111, 11111111>>, <<10000001, 0, 10000001>>, <<10000001, 0, 10000001>>,
    <<10000001, 0, 10000001>>, <<10000002, 0, 20000001>>, <<10000002, 300300, 20000001>>, <<10000001, 0, 10000001>>,
    <<10000001, 0, 10000001>>, <<10000004, 400400, 40000001>>, <<10000001, 0, 10000001>>, <<10000001, 0, 10000001>>,
    <<10000002, 0, 20005501>>, <<10000002, 300300, 20000001>>, <<10000001, 0, 10000001>>, <<10000001, 0, 10000001>>,
    <<10003001, 0, 10030001>>, <<10000001, 0, 10000001>>, <<10000004, 44000, 40000001>>, <<10000001, 0, 10000001>>,
    <<10000001, 0, 10000001>>, <<11110111, 11111111, 11101111>>, <<10000001, 0, 10000001>>,
    <<10000001, 0, 10000001>>, <<11111111, 11111111, 11111111>>>>),
   spawn |-> <<2, 11>>, extract |-> <<20, 11>>,
   hostiles |-> <<<<11, 2>>, <<12, 6>>, <<20, 5>>, <<20, 15>>, <<11, 12>>, <<13, 15>>, <<18, 15>>, <<20, 18>>>>,
   things |-> <<<<4, 9>>, <<4, 18>>, <<10, 3>>, <<13, 13>>, <<19, 19>>, <<21, 9>>, <<12, 4>>, <<18, 12>>,
              <<4, 10>>, <<11, 13>>, <<19, 16>>, <<20, 6>>>>],
  [map |-> Drawn(<<
    <<11111111, 11111111, 11111111>>, <<10000000, 0, 1>>, <<10000000, 0, 1>>, <<10000000, 30000, 1>>,
    <<10000000, 0, 1>>, <<10110011, 11111111, 10011101>>, <<10000010, 0, 1>>, <<10000000, 0, 1>>,
    <<10000000, 3000, 1>>, <<10000010, 0, 1>>, <<10111111, 111111, 11100101>>, <<10000000, 0, 10000001>>,
    <<10003000, 0, 1>>, <<10000000, 0, 1>>, <<10000000, 0, 10000001>>, <<10100111, 11111100, 11111101>>,
    <<10000001, 0, 1>>, <<10000000, 0, 30001>>, <<10000000, 0, 1>>, <<11111111, 11111144, 11111111>>,
    <<10000000, 0, 1>>, <<10000000, 0, 5501>>, <<10000000, 0, 1>>, <<11111111, 11111111, 11111111>>>>),
   spawn |-> <<2, 2>>, extract |-> <<20, 21>>,
   hostiles |-> <<<<12, 3>>, <<18, 4>>, <<12, 8>>, <<4, 12>>, <<20, 13>>, <<4, 17>>, <<12, 18>>, <<20, 20>>>>,
   things |-> <<<<4, 3>>, <<3, 13>>, <<10, 8>>, <<19, 8>>, <<12, 17>>, <<18, 21>>, <<18, 17>>, <<3, 8>>,
              <<12, 13>>>>],
  [map |-> Drawn(<<
    <<11111111, 11111111, 11111111>>, <<10000000, 0, 100001>>, <<10000000, 0, 105501>>, <<10000000, 0, 400001>>,
    <<10000000, 0, 200001>>, <<10000000, 0, 100001>>, <<11112211, 11144111, 11111111>>, <<10000000, 0, 130001>>,
    <<10000000, 0, 1>>, <<10000003, 0, 30000001>>, <<10000000, 0, 100001>>, <<10000000, 300, 100001>>,
    <<10000000, 0, 1>>, <<10000000, 300000, 1>>, <<10000111, 10011111, 11100111>>, <<10000000, 0, 1>>,
    <<10000003, 0, 1>>, <<10000000, 0, 1>>, <<10003000, 30, 3001>>, <<10000000, 0, 1>>, <<10000000, 0, 1>>,
    <<10000000, 0, 1>>, <<10000000, 0, 1>>, <<11111111, 11111111, 11111111>>>>),
   spawn |-> <<2, 21>>, extract |-> <<20, 2>>,
   hostiles |-> <<<<4, 11>>, <<10, 18>>, <<16, 18>>, <<19, 17>>, <<8, 12>>, <<14, 12>>, <<20, 12>>, <<14, 8>>, <<20, 7>>>>,
   things |-> <<<<4, 20>>, <<3, 16>>, <<10, 17>>, <<16, 12>>, <<6, 17>>, <<19, 3>>, <<16, 8>>, <<19, 12>>,
              <<4, 18>>, <<8, 16>>, <<13, 12>>, <<20, 16>>, <<3, 3>>>>]>>

----------------------------------------------------------------------------
Dirs == <<<<1, 0>>, <<-1, 0>>, <<0, 1>>, <<0, -1>>>>
Plus(a, b) == <<a[1] + b[1], a[2] + b[2]>>
Scaled(k, d) == <<k * d[1], k * d[2]>>
Around(c) == {Plus(c, d) : d \in ToSet(Dirs)}
CellAt(map, c) == IF c[2] + 1 \in DOMAIN map /\ c[1] + 1 \in DOMAIN map[1] THEN map[c[2] + 1][c[1] + 1] ELSE 1
Cell(c) == CellAt(Missions[mission].map, c)
Blocks(c) == Cell(c) \notin {0, 5} /\ c \notin doors
CellOf(p) == <<p[1] \div Unit, p[2] \div Unit>>
Middle(c) == <<c[1] * Unit + Unit \div 2, c[2] * Unit + Unit \div 2>>

(* blocked_at: the four ends of a body. *)
BlockedAt(p) == \E d \in ToSet(Dirs) : Blocks(CellOf(Plus(p, Scaled(Radius, d))))

Abs(n) == IF n < 0 THEN -n ELSE n
Distance2(p, q) == (p[1] - q[1]) * (p[1] - q[1]) + (p[2] - q[2]) * (p[2] - q[2])
\* Is the distance less than, or at most, a tenths of a cell?
Nearer(p, q, a) == Distance2(p, q) <= (a * a * Unit * Unit - 1) \div 100
Within(p, q, a) == Distance2(p, q) <= (a * a * Unit * Unit) \div 100
Root(n) == CHOOSE r \in 0 .. 50 * Unit : r * r <= n /\ (r + 1) * (r + 1) > n

(* line_clear: looks every 0.14 of a cell. *)
LineClear(p, q) ==
  \A steps \in {(100 * Root(Distance2(p, q))) \div (14 * Unit)} : \A i \in 1 .. steps - 1 :
    ~Blocks(<<(p[1] * steps + (q[1] - p[1]) * i) \div (steps * Unit), (p[2] * steps + (q[2] - p[2]) * i) \div (steps * Unit)>>)

----------------------------------------------------------------------------
(* flood_layout: the cells that are connected, doors being open. *)
Open(map, c) == CellAt(map, c) \in {0, 4, 5}
Reachable(map, from) ==
  LET Grow(s, n) ==
        IF s.edge = {} THEN s
        ELSE CHOOSE t \in {[seen |-> s.seen \cup e, edge |-> e] :
                             e \in {{c \in UNION {Around(b) : b \in s.edge} \ s.seen : Open(map, c)}}} : TRUE
  IN  FoldLeft(Grow, [seen |-> {from}, edge |-> {from}], [n \in 1 .. Len(map) * 2 |-> n]).seen

(* snap_reachable: the nearest cell of them, in the order of the rows. *)
Snapped(seen, c) ==
  LET Away(s) == Abs(s[1] - c[1]) + Abs(s[2] - c[2])
      Before(s, t) == Away(s) < Away(t) \/ (Away(s) = Away(t) /\ (s[2] < t[2] \/ (s[2] = t[2] /\ s[1] <= t[1])))
  IN  IF c \in seen THEN c ELSE CHOOSE s \in seen : \A t \in seen : Before(s, t)

(* repair_layout: everything is moved to where it can be reached; of two   *)
(* hostiles side by side the second makes room.                            *)
Apart(seen, cells) ==
  LET n == Len(cells)
      MakeRoom(s, p) ==
        LET i == (p - 1) \div n + 1  j == ((p - 1) % n) + 1  right == Plus(s[j], <<1, 0>>)  below == Plus(s[j], <<0, 1>>)
        IN  IF i >= j \/ Distance2(s[i], s[j]) > 1 THEN s
            ELSE IF right \in seen THEN [s EXCEPT ![j] = right]
            ELSE IF below \in seen THEN [s EXCEPT ![j] = below] ELSE s
  IN  FoldLeft(MakeRoom, cells, [p \in 1 .. n * n |-> p])

(* place_layout and last_zone_reset; what a hostile saw last, and the      *)
(* place it holds, are its place on the map as drawn.                      *)
Fresh(drawn, c) == [up |-> TRUE, at |-> Middle(c), mode |-> "patrol", nav |-> <<0, 0>>, goal |-> drawn, hold |-> drawn]
Start(m, seen, placed) ==
  [player |-> Middle(Missions[m].spawn), explored |-> {Missions[m].spawn},
   hostiles |-> [i \in DOMAIN placed |-> Fresh(Missions[m].hostiles[i], placed[i])],
   things |-> [i \in DOMAIN Missions[m].things |-> Snapped(seen, Missions[m].things[i])]]
Starts(m) ==
  UNION {{Start(m, seen, placed) :
            placed \in {Apart(seen, [i \in DOMAIN Missions[m].hostiles |-> Snapped(seen, Missions[m].hostiles[i])])}} :
         seen \in {Reachable(Missions[m].map, Missions[m].spawn)}}

Reset ==
  /\ turn = 0 /\ clock' = 0 /\ doors' = {} /\ UNCHANGED turn
  /\ mission' \in {mission, (mission % Len(Missions)) + 1}
  /\ \E s \in Starts(mission') : player' = s.player /\ explored' = s.explored /\ hostiles' = s.hostiles /\ things' = s.things

Init ==
  /\ turn = 0 /\ clock = 0 /\ doors = {} /\ mission \in DOMAIN Missions
  /\ \E s \in Starts(mission) : player = s.player /\ explored = s.explored /\ hostiles = s.hostiles /\ things = s.things

----------------------------------------------------------------------------
(* door_cell_ahead: the closed door within reach of an outstretched arm;   *)
(* open_door_cluster takes those that touch it along.                      *)
DoorsAhead(f) ==
  LET Look(k) == <<(500 * player[1] + Unit * f[1] * (28 + 12 * k)) \div (500 * Unit),
                   (500 * player[2] + Unit * f[2] * (28 + 12 * k)) \div (500 * Unit)>>
      Shut(c) == Cell(c) = 4 /\ c \notin doors
  IN  {Look(k) : k \in {k \in 0 .. 9 : Shut(Look(k)) /\ \A l \in 0 .. k - 1 : ~Blocks(Look(l))}}
Cluster(c) == {d \in {Plus(c, <<x, y>>) : x \in -1 .. 1, y \in -1 .. 1} : Cell(d) = 4}

(* A body goes along each axis that is not blocked. *)
Pushed(p, d) ==
  LET across == Plus(p, <<d[1], 0>>)  q == IF BlockedAt(across) THEN p ELSE across
      along == Plus(q, <<0, d[2]>>)
  IN  IF BlockedAt(along) THEN q ELSE along

Away(d, from, at) == d[1] * (at[1] - from[1]) + d[2] * (at[2] - from[2]) > 0

(* last_zone_fire: it opens a door, or hits who is in its line: he falls,  *)
(* or is pushed back.                                                      *)
OpenDoors == \E f \in Facings : \E c \in DoorsAhead(f) : doors' = doors \cup Cluster(c) /\ UNCHANGED hostiles
Hit ==
  \E i \in DOMAIN hostiles : \E d \in Knocks :
    /\ hostiles[i].up /\ LineClear(player, hostiles[i].at) /\ Away(d, player, hostiles[i].at)
    /\ \E standing \in BOOLEAN :
         hostiles' = [hostiles EXCEPT ![i].at = Pushed(@, d), ![i].up = standing]
    /\ UNCHANGED doors
Fire ==
  /\ turn = 0 /\ turn' = 1 /\ (OpenDoors \/ Hit \/ UNCHANGED <<doors, hostiles>>)
  /\ UNCHANGED <<mission, player, explored, things, clock>>

(* The walk of last_zone_update, first across, then along; blocked, the    *)
(* player slides past the corner on the one side or on the other.          *)
Across(p, x) ==
  IF ~BlockedAt(<<x, p[2]>>) THEN <<x, p[2]>>
  ELSE IF ~BlockedAt(<<x, p[2] + Slide>>) THEN <<x, p[2] + Shift>>
  ELSE IF ~BlockedAt(<<x, p[2] - Slide>>) THEN <<x, p[2] - Shift>> ELSE p
Along(p, y) ==
  IF ~BlockedAt(<<p[1], y>>) THEN <<p[1], y>>
  ELSE IF ~BlockedAt(<<p[1] + Slide, y>>) THEN <<p[1] + Shift, y>>
  ELSE IF ~BlockedAt(<<p[1] - Slide, y>>) THEN <<p[1] - Shift, y>> ELSE p
(* Slip: both axes are tried from where the tick began. *)
BothAtOnce(p, m) == <<Across(p, p[1] + m[1])[1], Along(p, p[2] + m[2])[2]>>

Walked(p, m) == Along(Across(p, p[1] + m[1]), p[2] + m[2])

NextTurn(n) == IF n <= Len(hostiles) THEN turn' = n + 1 /\ UNCHANGED clock ELSE turn' = 0 /\ clock' = (clock + 1) % Clock
Walk ==
  /\ turn = 1 /\ \E m \in Moves : player' = Walked(player, m)
  /\ explored' = explored \cup {CellOf(player')} \cup Around(CellOf(player'))
  /\ NextTurn(1) /\ UNCHANGED <<mission, doors, hostiles, things>>

----------------------------------------------------------------------------
(* route_next: the cells from the goal on, as far as the start; the first  *)
(* direction that leads one cell nearer.                                   *)
Wave(goal, start) ==
  LET Grow(s, n) ==
        IF start \in s.edge \/ s.edge = {} THEN s
        ELSE CHOOSE t \in {[seen |-> s.seen \cup e, edge |-> e, before |-> s.edge] :
                             e \in {{c \in UNION {Around(b) : b \in s.edge} \ s.seen : ~Blocks(c)}}} : TRUE
  IN  FoldLeft(Grow, [seen |-> {goal}, edge |-> {goal}, before |-> {}],
               [n \in 1 .. Len(Missions[mission].map) * 2 |-> n])
Leads(w, start) == start \in w.edge
Connected(start, goal) == ~Blocks(goal) /\ \E w \in {Wave(goal, start)} : Leads(w, start)

RouteNext(start, goal) ==
  IF Blocks(start) \/ Blocks(goal) \/ start = goal THEN <<0, 0>>
  ELSE CHOOSE nav \in ToSet(Dirs) \cup {<<0, 0>>} :
         \E w \in {Wave(goal, start)} :
           IF ~Leads(w, start) THEN nav = <<0, 0>>
           ELSE \E i \in 1 .. 4 : /\ nav = Dirs[i] /\ Plus(start, nav) \in w.before
                                  /\ \A k \in 1 .. i - 1 : Plus(start, Dirs[k]) \notin w.before

(* adjacent_cover, ally_at and pick_hold_cell: of the cells around, one    *)
(* that is free and in sight of the player, the nearest to 3.4 cells from  *)
(* him and rather by a wall.                                               *)
Cover(c) == \E d \in Around(c) : Cell(d) \in 1 .. 3
Allies(i) == {j \in DOMAIN hostiles \ {i} : hostiles[j].up}
AllyAt(i, p) == \E j \in Allies(i) : 100 * Distance2(hostiles[j].at, p) < 72 * Unit * Unit
Score(c) == Abs((100 * Root(Distance2(Middle(c), player))) \div Unit - 340) - IF Cover(c) THEN 150 ELSE 0
HoldCell(i) ==
  LET here == CellOf(hostiles[i].at)
      fit == {c \in {Plus(here, <<x, y>>) : x \in -2 .. 2, y \in -2 .. 2} :
                /\ ~Blocks(c) /\ ~AllyAt(i, Middle(c)) /\ LineClear(Middle(c), player)
                /\ ~Nearer(Middle(c), player, 22) /\ Within(Middle(c), player, 54)}
      Before(c, d) == Score(c) < Score(d) \/ (Score(c) = Score(d) /\ (c[2] < d[2] \/ (c[2] = d[2] /\ c[1] <= d[1])))
  IN  IF fit = {} THEN here ELSE CHOOSE c \in fit : \A d \in fit : Before(c, d)

AtHold(h) == \A k \in {1, 2} : 100 * Abs(h.at[k] - Middle(h.hold)[k]) < 35 * Unit

(* The way a hostile goes: away from a player who is too near and after    *)
(* one who is far, to its place or to where it saw him along the route     *)
(* nav, on patrol by one of Steps; it swerves from an ally at its side.    *)
Retreats(h) == h.mode = "engage" /\ Nearer(h.at, player, 20)
Chases(h) == h.mode = "engage" /\ ~Within(h.at, player, 46)
Routed(h) == h.mode = "search" \/ (h.mode = "engage" /\ ~Retreats(h) /\ ~Chases(h) /\ ~AtHold(h))
Ways(h, nav) ==
  CASE Retreats(h) -> {d \in Steps : Away(d, player, h.at)}
    [] Chases(h) -> {d \in Steps : Away(d, h.at, player)}
    [] h.mode = "patrol" -> Steps
    [] Routed(h) -> {Scaled(Stride[h.mode], nav)} \ {<<0, 0>>}
    [] OTHER -> {}
Crowded(i) == \E j \in Allies(i) : 10 * Distance2(hostiles[i].at, hostiles[j].at) < 16 * Unit * Unit
Due(i, period) == (clock + i - 1) % period = 0

(* The turn of hostile i, with what it knows and where it means to be. *)
Act(i, h) ==
  \E nav \in {IF Routed(h) /\ (Due(i, Renew) \/ h.nav = <<0, 0>>)
              THEN RouteNext(CellOf(h.at), IF h.mode = "engage" THEN h.hold ELSE h.goal) ELSE h.nav} :
    \E d \in IF Ways(h, nav) = {} THEN {<<0, 0>>} ELSE IF Crowded(i) THEN Steps ELSE Ways(h, nav) :
      hostiles' = [hostiles EXCEPT ![i] = [h EXCEPT !.nav = nav, !.at = Pushed(h.at, d)]]

(* What it knows: the last one left hunts and makes for the extraction;    *)
(* who sees the player knows where he is, and so may who hears him or his  *)
(* shot; who engages him in sight chooses a place now and then.            *)
Knows(i, mode) ==
  LET h == hostiles[i]
      sees == Nearer(h.at, player, 68) /\ LineClear(h.at, player)
      own == IF Allies(i) = {} /\ mode = "search" THEN Missions[mission].extract ELSE h.goal
      goals == CASE sees -> {CellOf(player)}
                 [] ~sees /\ Within(h.at, player, Noise) -> {own, CellOf(player)}
                 [] OTHER -> {own}
  IN  {[h EXCEPT !.mode = IF mode = "engage" /\ ~sees THEN "alert" ELSE mode, !.goal = goal,
                 !.hold = IF mode = "engage" /\ sees /\ Due(i, Rehold) THEN HoldCell(i) ELSE @] : goal \in goals}

Turn ==
  /\ turn > 1
  /\ IF hostiles[turn - 1].up
     THEN \E mode \in Modes : /\ Allies(turn - 1) = {} => mode # "patrol"
                              /\ \E h \in Knows(turn - 1, mode) : Act(turn - 1, h)
     ELSE UNCHANGED hostiles
  /\ NextTurn(turn) /\ UNCHANGED <<mission, player, doors, explored, things>>

Next == Reset \/ Fire \/ Walk \/ Turn
Spec == Init /\ [][Next]_vars

(* A mission that is not given up: its ticks go on. *)
Tick == Fire \/ Walk \/ Turn
Passes == clock' = (clock + 1) % Clock
PlayedOn == Init /\ [][Tick]_vars /\ WF_clock(Passes)
----------------------------------------------------------------------------
(* Nobody goes through a wall: a hostile's body is in the open, the        *)
(* player's middle is, though a slide along a corner may leave his         *)
(* shoulder in it, and both are where the mission's start is connected to. *)
NobodyInWalls ==
  \A seen \in {Reachable(Missions[mission].map, Missions[mission].spawn)} :
    /\ CellOf(player) \in seen /\ ~Blocks(CellOf(player))
    /\ \A i \in DOMAIN hostiles : CellOf(hostiles[i].at) \in seen /\ ~BlockedAt(hostiles[i].at)

(* The player always finds a way on: whatever corner he has slid into,     *)
(* there is a direction in which he gets away.                             *)
NeverWalledIn == Moves # {<<0, 0>>} => \E m \in Moves : Walked(player, m) # player

(* A place to hold is one the hostile can walk to: what lets the player be *)
(* seen from there does not lie across a wall.                             *)
HoldsAreReachable ==
  \A i \in DOMAIN hostiles :
    hostiles[i].up /\ hostiles[i].mode = "engage" => Connected(CellOf(hostiles[i].at), hostiles[i].hold)

(* As it is laid out every mission can be won: its hostiles, its supplies  *)
(* and the extraction can be reached, and no two hostiles share a cell.    *)
MissionsCanBeWon ==
  \A m \in {mission} : turn = 0 /\ explored = {Missions[m].spawn} =>
    \A seen \in {Reachable(Missions[m].map, Missions[m].spawn)} :
      /\ Missions[m].extract \in seen /\ CellAt(Missions[m].map, Missions[m].extract) = 5
      /\ ToSet(things) \cup {CellOf(hostiles[i].at) : i \in DOMAIN hostiles} \subseteq seen
      /\ \A i, j \in DOMAIN hostiles : i # j => hostiles[i].at # hostiles[j].at

(* The last hostile comes to the extraction, where the player can find it, *)
(* while he does nothing to attract it.                                    *)
LastOneComes ==
  <>(\E i \in DOMAIN hostiles : hostiles[i].up /\ CellOf(hostiles[i].at) = Missions[mission].extract)
=============================================================================
