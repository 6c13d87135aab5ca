---------------------------- MODULE TowerDefense ----------------------------
(***************************************************************************)
(* The rules of the tower defence game (examples/tower_defense/main/       *)
(* tower_game.c): enemies walk a path in waves, towers the player buys     *)
(* shoot at them, and an update runs its four passes in a fixed order over *)
(* slot tables that the passes share by index.                             *)
(*                                                                         *)
(* A position is the waypoint an enemy walks to; which enemies reach it in *)
(* a tick, which one a tower has in range, which projectiles meet their    *)
(* target and whether the spawn timer is due are free, because they follow *)
(* from distances and counters that no rule below looks at.                *)
(***************************************************************************)
EXTENDS Integers, FiniteSets, FiniteSetsExt

CONSTANTS
  Pads,            \* how many places for a tower (TOWER_PAD_COUNT)
  Enemies,         \* how many enemy slots (TOWER_MAX_ENEMIES)
  Shots,           \* how many projectile slots (TOWER_MAX_PROJECTILES)
  Path,            \* s_path_count
  Start,           \* the credits of a new game
  Base,            \* the health of a new base
  Hp(_),           \* the health of an enemy, by kind
  Total(_),        \* how many enemies a wave has
  MaxWaves         \* bound: the last wave that is followed

VARIABLES
  phase, down,     \* phase; pointer_down
  selected,        \* selected_type
  towers,          \* per pad: type and level; level 0 is an empty pad
  credits, base,   \* credits; base_hp
  enemies,         \* per slot: kind, hp, waypoint; hp 0 is an inactive slot
  shots,           \* per slot: the index of its enemy and its damage; target 0 is inactive
  wave, spawned,   \* wave; wave_spawned
  killed, through  \* ghosts: enemies of this wave shot, and those that reached the end

vars == <<phase, down, selected, towers, credits, base, enemies, shots, wave, spawned, killed, through>>

Types == 0 .. 1
Kinds == 0 .. 1
COST(type) == <<70, 95, 120>>[type + 1]
UPGRADE_COST(type) == <<65, 80, 95>>[type + 1]
DAMAGE(tower) == 1 + tower.level          \* grows with the level, as (level - 1) * 4 does

Active == {i \in 1 .. Enemies : enemies[i].hp > 0}
Reward(kind) == 8 + kind * 5 + wave
Bonus(w) == 35 + w * 4

(* What a tower has cost so far. *)
Investment(tower) ==
  IF tower.level = 0 THEN 0
  ELSE COST(tower.type) + UPGRADE_COST(tower.type) * ((tower.level * (tower.level - 1)) \div 2)

(* tower_game_reset. *)
NewGame(to) ==
  /\ phase' = to /\ selected' = 0 /\ credits' = Start /\ base' = Base /\ wave' = 1
  /\ towers' = [i \in 1 .. Pads |-> [type |-> 0, level |-> 0]]
  /\ enemies' = [i \in 1 .. Enemies |-> [kind |-> 0, hp |-> 0, waypoint |-> 0]]
  /\ shots' = [i \in 1 .. Shots |-> [target |-> 0, damage |-> 0]]
  /\ spawned' = 0 /\ killed' = 0 /\ through' = 0

Init ==
  /\ phase = "start" /\ down = FALSE /\ selected = 0 /\ credits = Start /\ base = Base /\ wave = 1
  /\ towers = [i \in 1 .. Pads |-> [type |-> 0, level |-> 0]]
  /\ enemies = [i \in 1 .. Enemies |-> [kind |-> 0, hp |-> 0, waypoint |-> 0]]
  /\ shots = [i \in 1 .. Shots |-> [target |-> 0, damage |-> 0]]
  /\ spawned = 0 /\ killed = 0 /\ through = 0

-----------------------------------------------------------------------------
(* What a tap on a pad costs and what it makes of the tower there: build,  *)
(* replace for half of what was paid for the old one, or upgrade. The      *)
(* operator gives the price and the new tower.                             *)
Refund(tower, cost) == Min({cost, Investment(tower) \div 2})

Deal(tower) ==
  LET fresh == [type |-> selected, level |-> 1]
      cost  == COST(selected)
  IN  IF tower.level = 0 THEN [price |-> cost, tower |-> fresh]
      ELSE IF tower.type # selected THEN [price |-> cost - Refund(tower, cost), tower |-> fresh]
      ELSE IF tower.level < 3 THEN [price |-> UPGRADE_COST(tower.type) * tower.level,
                                    tower |-> [tower EXCEPT !.level = @ + 1]]
      ELSE [price |-> 0, tower |-> tower]

TapPad(i) ==
  LET deal == Deal(towers[i])
  IN  /\ phase = "playing"
      /\ IF credits >= deal.price
         THEN credits' = credits - deal.price /\ towers' = [towers EXCEPT ![i] = deal.tower]
         ELSE UNCHANGED <<credits, towers>>
      /\ UNCHANGED <<phase, selected, base, enemies, shots, wave, spawned, killed, through>>

TapType(type) ==
  /\ phase = "playing"
  /\ selected' = type
  /\ UNCHANGED <<phase, towers, credits, base, enemies, shots, wave, spawned, killed, through>>

TapPause ==
  /\ phase \in {"playing", "paused"}
  /\ phase' = IF phase = "paused" THEN "playing" ELSE "paused"
  /\ UNCHANGED <<selected, towers, credits, base, enemies, shots, wave, spawned, killed, through>>

(* tower_game_set_pointer: only the press is a tap, and before or after a  *)
(* game it starts a new one wherever it lands.                             *)
Press ==
  /\ ~down /\ down' = TRUE
  /\ IF phase \in {"start", "over"} THEN NewGame("playing")
     ELSE TapPause \/ (\E t \in Types : TapType(t)) \/ (\E i \in 1 .. Pads : TapPad(i))

Release ==
  /\ down /\ down' = FALSE
  /\ UNCHANGED <<phase, selected, towers, credits, base, enemies, shots, wave, spawned, killed, through>>

-----------------------------------------------------------------------------
(* spawn_enemy: the first free slot; with none the wave waits. Kinds other *)
(* than 0 come from the second wave on.                                    *)
Spawned(due, kind) ==
  LET free == {i \in 1 .. Enemies : enemies[i].hp = 0}
  IN  IF due /\ spawned < Total(wave) /\ free # {}
      THEN [enemies EXCEPT ![Min(free)] = [kind |-> kind, hp |-> Hp(kind), waypoint |-> 1]]
      ELSE enemies

(* update_enemies: those of "arrive" reach their waypoint, and past the    *)
(* last one they leave and hurt the base.                                  *)
Leaving(now, arrive) == {i \in arrive : now[i].waypoint + 1 >= Path}
Walked(now, arrive) ==
  [i \in 1 .. Enemies |->
     IF i \in Leaving(now, arrive) THEN [now[i] EXCEPT !.hp = 0]
     ELSE IF i \in arrive THEN [now[i] EXCEPT !.waypoint = @ + 1] ELSE now[i]]

(* update_towers: each tower in turn takes the first free projectile slot; *)
(* aim is the enemy it has in range and is ready to fire at, 0 if none.    *)
Fire(now, pad, aim) ==
  LET free == {i \in 1 .. Shots : now[i].target = 0}
  IN  IF pad \notin DOMAIN aim \/ free = {} THEN now
      ELSE IF aim[pad] = 0 THEN now
      ELSE [now EXCEPT ![Min(free)] = [target |-> aim[pad], damage |-> DAMAGE(towers[pad])]]
Fired(aim) ==
  LET fired[pad \in 0 .. Pads] == IF pad = 0 THEN shots ELSE Fire(fired[pad - 1], pad, aim)
  IN  fired[Pads]

(* update_projectiles, in slot order over what the earlier ones left: one  *)
(* whose enemy's slot is inactive is spent, and so is one that hits or     *)
(* whose time is up: its fate.  A hit that takes the last health pays.     *)
Spent(now, s, fate) == fate[s] = "spent" \/ now.enemies[now.shots[s].target].hp = 0
Fly(now, s, fate) ==
  LET target == now.shots[s].target
      left   == now.enemies[target].hp - now.shots[s].damage
      gone   == [now EXCEPT !.shots[s].target = 0]
  IN  IF target = 0 THEN now
      ELSE IF Spent(now, s, fate) THEN gone
      ELSE IF fate[s] = "flies" THEN now
      ELSE IF left > 0 THEN [gone EXCEPT !.enemies[target].hp = left]
      ELSE [enemies |-> [now.enemies EXCEPT ![target].hp = 0], shots |-> gone.shots,
            killed |-> now.killed + 1, paid |-> now.paid + Reward(now.enemies[target].kind)]
Aloft(field, guns) == [enemies |-> field, shots |-> guns, killed |-> 0, paid |-> 0]
Flown(field, guns, fate) ==
  LET flown[s \in 0 .. Shots] == IF s = 0 THEN Aloft(field, guns) ELSE Fly(flown[s - 1], s, fate)
  IN  flown[Shots]

(* What is left after the passes, and the next wave when this one has      *)
(* spawned all of its enemies and none is up.                              *)
Settle(born, left, end) ==
  LET hurt == Cardinality(left) + 2 * Cardinality({i \in left : born[i].kind = 1})
      out  == spawned + IF born = enemies THEN 0 ELSE 1
      over == out >= Total(wave) /\ \A i \in 1 .. Enemies : end.enemies[i].hp = 0
  IN  /\ over => wave < MaxWaves
      /\ base' = IF base > hurt THEN base - hurt ELSE 0
      /\ phase' = IF left # {} /\ base' = 0 THEN "over" ELSE phase
      /\ enemies' = end.enemies /\ shots' = end.shots
      /\ wave' = IF over THEN wave + 1 ELSE wave
      /\ spawned' = IF over THEN 0 ELSE out
      /\ killed' = IF over THEN 0 ELSE killed + end.killed
      /\ through' = IF over THEN 0 ELSE through + Cardinality(left)
      /\ credits' = credits + end.paid + IF over THEN Bonus(wave + 1) ELSE 0

(* tower_game_update: spawn, walk, shoot, fly. *)
Update ==
  /\ phase = "playing"
  /\ \E due \in BOOLEAN, kind \in IF wave < 2 THEN {0} ELSE Kinds : \E born \in {Spawned(due, kind)} :
     \E arrive \in SUBSET {i \in 1 .. Enemies : born[i].hp > 0} : \E field \in {Walked(born, arrive)} :
     \E aim \in [{p \in 1 .. Pads : towers[p].level > 0} -> {i \in 1 .. Enemies : field[i].hp > 0} \cup {0}] :
     \E guns \in {Fired(aim)} :
     \E fate \in [{s \in 1 .. Shots : guns[s].target # 0} -> {"flies", "hits", "spent"}] :
     \E end \in {Flown(field, guns, fate)} : Settle(born, Leaving(born, arrive), end)
  /\ UNCHANGED <<down, selected, towers>>

Next == Press \/ Release \/ Update
Spec == Init /\ [][Next]_vars
-----------------------------------------------------------------------------
TypeOK ==
  /\ phase \in {"start", "playing", "paused", "over"} /\ down \in BOOLEAN /\ selected \in Types
  /\ towers \in [1 .. Pads -> [type : Types, level : 0 .. 3]]
  /\ credits \in Nat /\ base \in 0 .. Base /\ wave \in 1 .. MaxWaves
  /\ \A i \in 1 .. Enemies : enemies[i].kind \in Kinds /\ enemies[i].hp \in Nat /\ enemies[i].waypoint \in 0 .. Path
  /\ \A s \in 1 .. Shots : shots[s].target \in 0 .. Enemies
  /\ {spawned, killed, through} \subseteq Nat

(* The enemies of a wave are accounted for, whatever passes of an update   *)
(* share a slot: each one the wave sent is still walking, was shot once or *)
(* got through once.  So a wave ends exactly when nothing of it is left:   *)
(* two projectiles that meet one enemy in one tick pay once, and one that  *)
(* was aimed at the last owner of a slot does not count twice; and the     *)
(* game is over when and only when the base has fallen.                    *)
EnemiesAccounted ==
  /\ spawned = Cardinality(Active) + killed + through
  /\ phase # "start" => (base = 0 <=> phase = "over")

(* What the player holds and would get back for the towers grows only by   *)
(* enemies shot and waves survived, or with a new game: no sequence of     *)
(* building, trading in and upgrading makes money.                         *)
Worth == credits + MapThenSumSet(LAMBDA p : Investment(towers[p]) \div 2, 1 .. Pads)
WorthIsEarned == Worth' > Worth => killed' > killed \/ wave' > wave \/ phase \in {"start", "over"}
=============================================================================
