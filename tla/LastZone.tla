------------------------------ MODULE LastZone ------------------------------
(***************************************************************************)
(* A mission of Last Zone: Extraction (last_zone_game.c): the fixed tick   *)
(* in which the player's shot, the noise it makes and then each hostile in *)
(* turn act on one another, and the end of the mission.  A tick is one     *)
(* call; it is taken apart here into the player's part, a step for each    *)
(* hostile of the loop and the end, so that the order of the loop shows.   *)
(*                                                                         *)
(* Where everybody stands is left out: what a hostile notices, whether it  *)
(* is in range or touches the player, what a shot meets and what lies on   *)
(* the floor is free in every tick, and so are the cooldowns that only     *)
(* delay a shot.  The lock that the hostiles share and the countdowns of   *)
(* alert, search and aim are counted.  Armour is counted as health.        *)
(***************************************************************************)
EXTENDS Integers, FiniteSets

CONSTANTS
  Enemies,      \* how many hostiles the mission has
  Hp(_),        \* a hostile's health: 3 for the elite, 2 for the others
  Barrels, Ammo, Health, Supplies,
  AlertTicks, SearchTicks, AimTicks, Lock

VARIABLES
  phase,        \* "start", "playing", "won", "dead"
  turn,         \* 0 between ticks; whose turn it is; Enemies + 1 at the end of the loop
  enemies,      \* per hostile: hp, state, alert_timer, search_timer, aim_timer; hp 0 is inactive
  barrels, ammo, health, supplies,
  lock,         \* enemy_shot_lock
  kills,
  watched,      \* ghost: for how many ticks in a row, this one included, a
                \* hostile has had the player in sight and in range (capped)
  fair          \* ghost: no shot came from a hostile that had not watched long enough

vars == <<phase, turn, enemies, barrels, ammo, health, supplies, lock, kills, watched, fair>>
kit  == <<barrels, ammo, supplies, kills>>

Hostiles == 1 .. Enemies
Active == {i \in Hostiles : enemies[i].hp > 0}
Less(n) == IF n > 0 THEN n - 1 ELSE 0

TypeOK ==
  /\ phase \in {"start", "playing", "won", "dead"} /\ turn \in 0 .. Enemies + 1
  /\ \A i \in Hostiles :
       /\ enemies[i].hp \in 0 .. Hp(i) /\ enemies[i].state \in {"patrol", "alert", "search", "engage"}
       /\ enemies[i].alert \in 0 .. AlertTicks /\ enemies[i].search \in 0 .. SearchTicks + 1
       /\ enemies[i].aim \in 0 .. AimTicks /\ watched[i] \in 0 .. AimTicks + 1
  /\ barrels \in 0 .. Barrels /\ ammo \in 0 .. Ammo /\ health \in 0 .. Health
  /\ lock \in 0 .. Lock /\ supplies \subseteq Supplies /\ fair \in BOOLEAN

Fresh(i) == [hp |-> Hp(i), state |-> "patrol", alert |-> 0, search |-> 0, aim |-> 0]

Init ==
  /\ phase = "start" /\ turn = 0 /\ enemies = [i \in Hostiles |-> Fresh(i)]
  /\ barrels = Barrels /\ ammo = Ammo /\ health = Health /\ supplies = Supplies
  /\ lock = 0 /\ kills = 0
  /\ watched = [i \in Hostiles |-> 0] /\ fair = TRUE

(* last_zone_reset, of the same mission or the next.                       *)
Deploy(to) ==
  /\ turn = 0 /\ phase' = to
  /\ enemies' = [i \in Hostiles |-> Fresh(i)]
  /\ barrels' = Barrels /\ ammo' = Ammo /\ health' = Health /\ supplies' = Supplies
  /\ lock' = 0 /\ kills' = 0
  /\ watched' = [i \in Hostiles |-> 0] /\ UNCHANGED <<turn, fair>>

Confirm == phase # "playing" /\ Deploy("playing")     \* last_zone_confirm
Reset == Deploy("start")                             \* the control of game_module.c
-----------------------------------------------------------------------------
Alerted(e) == [e EXCEPT !.state = "alert", !.alert = AlertTicks]

(* The noise of a shot: those who hear it search, and who patrolled is     *)
(* alerted.                                                                *)
Heard(e) == LET searching == [e EXCEPT !.search = SearchTicks]
            IN  IF e.state = "patrol" THEN Alerted(searching) ELSE searching

(* last_zone_fire at a wall, at one hostile, or at a barrel that takes     *)
(* every hostile of the blast with it; "hit" are those it wounds, and      *)
(* "near" those who hear it and still stand.                               *)
Shoot(hit, wound, blast, near) ==
  LET left == [i \in Hostiles |-> IF i \in hit THEN [enemies[i] EXCEPT !.hp = wound] ELSE enemies[i]]
  IN  /\ ammo > 0 /\ ammo' = ammo - 1
      /\ barrels' = barrels - blast
      /\ kills' = kills + IF wound = 0 THEN Cardinality(hit) ELSE 0
      /\ enemies' = [i \in Hostiles |-> IF i \in near /\ left[i].hp > 0 THEN Heard(left[i]) ELSE left[i]]

HoldFire == UNCHANGED <<ammo, barrels, kills, enemies>>
FireAtWall(near) == Shoot({}, 1, 0, near)
FireAtHostile(near) == \E i \in Active : Shoot({i}, enemies[i].hp - 1, 0, near)

FireAtBarrel(near) == barrels > 0 /\ \E S \in SUBSET Active : Shoot(S, 0, 1, near)

(* collect_pickups, each of them once and only if it is of use.            *)
Collect(found) ==
  /\ supplies' = supplies \ found
  /\ "health" \in found => health < Health
  /\ health' = IF "health" \in found THEN health + 1 ELSE health

Player ==
  /\ phase = "playing" /\ turn = 0
  /\ \/ HoldFire
     \/ \E near \in SUBSET Active : FireAtWall(near) \/ FireAtHostile(near) \/ FireAtBarrel(near)
  /\ \E found \in SUBSET supplies : Collect(found)
  /\ lock' = Less(lock) /\ turn' = 1
  /\ UNCHANGED <<phase, watched, fair>>
-----------------------------------------------------------------------------
(* What a hostile notices of the player: nothing, steps, or himself: too   *)
(* far to end a search ("far") or not, in range with the weapon ready or   *)
(* not ("waits"), or so near that he is touched and cannot be shot at.     *)
Notices == {"nothing", "steps", "far", "waits", "near", "touches"}
Ready(n) == n \in {"far", "near"}
InRange(n) == n \in {"far", "waits", "near"}

(* The last hostile comes to the player: it searches unless it has found   *)
(* him.                                                                    *)
Hunt(e, i) ==
  IF Active # {i} \/ e.state \in {"engage", "alert"} THEN e
  ELSE [e EXCEPT !.state = "search", !.search = SearchTicks + 1]

Notice(e, n) ==
  LET found == [e EXCEPT !.search = SearchTicks]
  IN  IF n = "nothing"
      THEN IF e.state \in {"engage", "alert"} /\ e.search > 0
           THEN [e EXCEPT !.state = "search", !.aim = 0] ELSE e
      ELSE IF e.state = "patrol" \/ (e.state = "search" /\ n # "far") THEN Alerted(found) ELSE found

CountDown(e) ==
  CASE e.state = "alert"  -> IF e.alert > 0 THEN [e EXCEPT !.alert = @ - 1] ELSE [e EXCEPT !.state = "engage"]
    [] e.state = "search" -> IF e.search > 0 THEN [e EXCEPT !.search = @ - 1] ELSE [e EXCEPT !.state = "patrol"]
    [] OTHER -> e

Takes(e, n) == e.state = "engage" /\ Ready(n) /\ lock = 0
Shoots(e, n) == Takes(e, n) /\ e.aim = 1

\* Slip: an aim once taken is kept when the player is out of range.
KeepsAim(e, n) ==
  IF ~Takes(e, n) THEN e
  ELSE IF e.aim = 0 THEN [e EXCEPT !.aim = AimTicks] ELSE [e EXCEPT !.aim = @ - 1]

(* The aim: taken, then counted down; lost when the player is not in sight *)
(* and in range, kept while the weapon or the lock makes it wait.          *)
Aim(e, n) ==
  IF e.state # "engage" \/ ~InRange(n) THEN [e EXCEPT !.aim = 0]
  ELSE IF ~Takes(e, n) THEN e
  ELSE IF e.aim = 0 THEN [e EXCEPT !.aim = AimTicks] ELSE [e EXCEPT !.aim = @ - 1]

(* hurt_player, by a shot or by a touch; the cooldown of the last wound    *)
(* may still cover the player.                                             *)
Hurt(shot, touch) ==
  IF ~shot /\ ~touch THEN UNCHANGED <<lock, health, phase>>
  ELSE /\ lock' = Lock
       /\ health' \in {health, Less(health)}
       /\ phase' = IF health' = 0 THEN "dead" ELSE phase

(* One hostile's turn; a wound that kills the player ends the tick.        *)
Act(i, n) ==
  LET e    == CountDown(Notice(Hunt(enemies[i], i), n))
      shot == Shoots(e, n)
  IN  /\ enemies' = [enemies EXCEPT ![i] = Aim(e, n)]
      /\ watched' = [watched EXCEPT ![i] = IF ~InRange(n) THEN 0 ELSE IF @ <= AimTicks THEN @ + 1 ELSE @]
      /\ fair' = (fair /\ (shot => watched'[i] > AimTicks))
      /\ Hurt(shot, n = "touches" /\ lock = 0)
      /\ turn' = IF phase' = "dead" THEN 0 ELSE turn + 1
      /\ UNCHANGED kit

Turn ==
  /\ turn \in Hostiles
  /\ IF turn \in Active THEN \E n \in Notices : Act(turn, n)
     ELSE turn' = turn + 1 /\ UNCHANGED <<phase, enemies, health, lock, watched, fair, kit>>

(* The end of the tick: won on the pad with no hostile left.               *)
End ==
  /\ turn = Enemies + 1 /\ turn' = 0
  /\ phase' \in IF Active = {} THEN {"playing", "won"} ELSE {"playing"}
  /\ UNCHANGED <<enemies, health, lock, watched, fair, kit>>

Next == Confirm \/ Reset \/ Player \/ Turn \/ End
Spec == Init /\ [][Next]_vars
-----------------------------------------------------------------------------
(* No shot out of the blue: a hostile that shoots has had the player in    *)
(* sight and in range for the whole time it takes to aim, without a break. *)
(* Breaking the line of sight starts the aim again, whatever the lock of   *)
(* another hostile's shot, the hunt of the last one and the noise of shots *)
(* did in between.                                                         *)
FairWarning == fair

(* A mission is accounted for: each hostile stands or was counted as       *)
(* killed once, by a bullet or with a barrel; it is won only with none     *)
(* left, and lost as soon as the player falls, in whoever's turn.          *)
MissionAccounted ==
  /\ kills + Cardinality(Active) = Enemies
  /\ phase = "won" => kills = Enemies /\ health > 0
  /\ phase = "dead" <=> health = 0
=============================================================================
