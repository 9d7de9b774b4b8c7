------------------------------ MODULE MobMinds ------------------------------
(***************************************************************************)
(* What a mob decides: MobManager::tick_ai and tick_projectiles, which the  *)
(* tick loop calls while a player is online.  tick_ai visits every mob      *)
(* twice.  The two passes number the kinds of mobs differently, so one      *)
(* number has a habit of the first pass and an unrelated one of the second  *)
(* (63: a guardian that shoots, and a warden that booms).                   *)
(*                                                                         *)
(* Positions are what a mob sees: nobody in activation range, a player in   *)
(* it, a target, or a target within reach.  "due" stands for age % n = 0,   *)
(* Gap for every attack cooldown, Pause for every pause of the mind.        *)
(***************************************************************************)
EXTENDS Integers

CONSTANTS
    Minded,     \* mobs
    Habits,     \* pairs of habits that one number of a kind has
    MindShard,  \* MindShard[i]: the shard of the map of mobs that i is in, in the order of iteration
    Gap,        \* 12 to 60
    Pause,      \* 8 to 80
    OldAge,     \* bound: ages are told apart up to here: 12000 and 48000
    FlightTicks,\* max_ticks of a projectile
    Flights     \* bound: projectiles in the air

ASSUME MindsAssumption == {Gap, Pause, OldAge, FlightTicks, Flights} \subseteq Nat \ {0}

VARIABLES
    mind,     \* mind[i]: the mob; `since`, `close`: history, for the property
    turn,     \* the pass, the mobs it has yet to visit, and the mob it waits with
    flights,  \* projectile -> its state
    returned  \* history: loyal tridents given back
minds_vars == <<mind, turn, flights, returned>>

Sights == {"nobody", "player", "target", "reach"}
Aims(sight) == sight \in {"target", "reach"}
AtRest == [pass |-> "none", todo |-> {}, waits |-> {}]
Lower(n) == IF n > 0 THEN n - 1 ELSE 0
Upper(n, top) == IF n < top THEN n + 1 ELSE n

MindsInit ==
    /\ \E h \in [Minded -> Habits], tame \in BOOLEAN :
         mind = [i \in Minded |->
                   [first |-> h[i][1], second |-> h[i][2], age |-> 0, timer |-> 0, cooldown |-> 0, mood |-> "idle",
                    hp |-> 2, fuse |-> 1, primed |-> FALSE, tame |-> tame, sits |-> FALSE, shoots |-> FALSE,
                    since |-> Gap, close |-> FALSE]]
    /\ turn = AtRest /\ flights = <<>> /\ returned = 0

-----------------------------------------------------------------------------
(* Outcomes: the sets of what a mob may be after a branch *)

Rests(m) == [m EXCEPT !.timer = Pause]
Moody(m, mood) == [m EXCEPT !.mood = mood]
\* Mutant of Strikes: the cooldown is not started again.
Strikes_Forgets(m, shoots) ==
    IF m.cooldown > 0 THEN {}
    ELSE {[m EXCEPT !.shoots = shoots, !.close = @ \/ m.since < Gap, !.since = 0]}
\* An attack that waits for the cooldown and starts it again.
Strikes(m, shoots) ==
    IF m.cooldown > 0 THEN {}
    ELSE {[m EXCEPT !.cooldown = Gap, !.shoots = shoots, !.close = @ \/ m.since < Gap, !.since = 0]}

\* tick_ai, first pass: nobody to aim at.  On land, in the air and in the water mobs move.
Walks(m) == IF m.first = "walker" THEN {Rests(m)} ELSE {}
Swims(m) == IF m.first = "swimmer" THEN {Rests(m)} ELSE {}
\* A trader whom nobody is near would die of age, but then it is dormant.
Peddles(m, sight) ==
    IF m.first # "peddler" THEN {}
    ELSE {IF m.age = OldAge /\ sight = "nobody" THEN [Rests(m) EXCEPT !.hp = 0] ELSE Rests(m)}
\* A bomb's fuse burns once it is primed.
Ticks(m) == IF m.first = "bomb" THEN {[Rests(m) EXCEPT !.fuse = IF m.primed THEN Lower(@) ELSE @]} ELSE {}
\* Some bite whoever comes close.
Bites(m) == IF m.first = "biter" THEN {Rests(m)} \cup {Rests(s) : s \in Strikes(m, FALSE)} ELSE {}
Roams(m, sight) == {m} \cup Walks(m) \cup Swims(m) \cup Peddles(m, sight) \cup Ticks(m) \cup Bites(m)
\* A pet that stands keeps near its owner, if that one is online.
Heels(m) == Rests(m)
\* Bosses rise, circle and heal.
Looms(m) == [Rests(m) EXCEPT !.hp = Upper(@, 2)]
\* Shooting from a distance, when it is due and the cooldown is over.
Shoots(m, sight) ==
    IF m.first = "archer" /\ sight = "target" THEN {Rests(s) : s \in Strikes(m, TRUE)} ELSE {}
\* Zombie horses only wait for the cooldown; piglins start it again, and gold keeps them off.
Charges(m) ==
    IF m.first # "rusher" THEN {}
    ELSE {Rests(s) : s \in Strikes(m, FALSE)} \cup {Rests(Moody(m, mood)) : mood \in {"idle", "chases"}}
\* Shulkers, evokers: no cooldown, only age.
Casts(m) == IF m.first = "caster" THEN {[Rests(m) EXCEPT !.shoots = TRUE]} ELSE {}
\* Ravagers, hoglins and iron golems strike; cave spiders and silverfish only run.
Slams(m) ==
    IF m.first = "slammer" THEN {Rests(s) : s \in Strikes(m, FALSE)} \cup {Rests(Moody(m, "chases"))} ELSE {}
\* A creeper near its target: from here on its mood is looked at and never changed.
Lights(m, sight) == IF m.first = "creeper" /\ sight = "reach" THEN {Rests(Moody(m, "fuse"))} ELSE {}
\* Wardens, witches, zombie villagers, vexes.
Haunts(m) == IF m.first = "haunter" THEN {Rests(m), [m EXCEPT !.hp = Lower(@)], [Rests(m) EXCEPT !.hp = Upper(@, 2)]}
             ELSE {}
\* The rest follows its path, or goes straight, and thinks again later.
Chases(m) == {Rests(Moody(m, "chases"))}
Hunts(m, sight) ==
    IF Lights(m, sight) # {} THEN Lights(m, sight) ELSE
    Shoots(m, sight) \cup Charges(m) \cup Casts(m) \cup Slams(m) \cup Haunts(m)
    \cup (IF m.mood = "fuse" THEN {m} ELSE Chases(m))

Decides(m, sight) ==
    CASE m.tame /\ m.sits -> {Rests(m)}
      [] m.tame /\ ~m.sits -> {Heels(m)} \cup Roams(m, sight)
      [] m.first = "boss" -> {Looms(m)}
      [] OTHER -> IF Aims(sight) /\ m.first \in {"archer", "rusher", "caster", "slammer", "creeper", "haunter", "chaser"}
                  THEN Hunts(m, sight) ELSE Roams(m, sight)

\* Second pass, for every mob whether it is dormant or not.  Endermen and guardians move or
\* strike back without a cooldown.
Wanders(m) == {Moody(m, "wanders")}
Grazes(m) == IF m.second = "grazer" THEN Wanders(m) ELSE {}
Brawls(m, sight) ==
    IF m.second = "brawler" /\ sight = "reach"
    THEN {Moody(s, mood) : s \in Strikes(m, FALSE), mood \in {"chases", m.mood}} ELSE {}
\* Bogged and strays shoot.
Lobs(m, sight) == IF m.second = "lobber" /\ sight # "nobody" THEN Strikes(m, TRUE) ELSE {}
\* Snow golems throw and melt; golems, phantoms, bears and llamas attack who is near.
Guards(m, sight) ==
    IF m.second # "guard" THEN {}
    ELSE Wanders(m) \cup {[m EXCEPT !.hp = Lower(@)]}
         \cup (IF sight # "nobody" THEN Strikes(m, TRUE) \cup Strikes(m, FALSE) ELSE {})
\* Slimes hop, phantoms dive, wardens boom and pandas roll: no cooldown.
Dives(m) == IF m.second = "diver" THEN Wanders(m) \cup {Moody(m, "idle")} ELSE {}
Naps(m) == IF m.second = "fox" THEN {Moody(m, "idle")} ELSE {}
\* Bees, camels, sniffers, cats; a tadpole of age becomes a frog with full health.
Gathers(m) ==
    IF m.second = "gatherer" THEN Wanders(m) \cup {Moody(m, "idle")}
    ELSE IF m.second = "tadpole"
         THEN LET grown == IF m.age = OldAge THEN [m EXCEPT !.second = "gatherer", !.hp = 2] ELSE m
              IN {grown, Moody(grown, "wanders")}
         ELSE {}
Behaves(m, sight) ==
    LET done == Grazes(m) \cup Brawls(m, sight) \cup Lobs(m, sight) \cup Guards(m, sight)
                \cup Dives(m) \cup Naps(m) \cup Gathers(m)
    IN IF m.second = "tadpole" THEN done ELSE {m} \cup done

-----------------------------------------------------------------------------
(* The tick *)

BeginTick ==
    /\ turn = AtRest
    /\ turn' = [AtRest EXCEPT !.pass = "first", !.todo = Minded]
    /\ UNCHANGED <<mind, flights, returned>>
\* spawn_projectile for what was shot.
Launched(m) == [kind |-> "arrow", ticks |-> 0, loyal |-> FALSE]
Airborne(m) ==
    flights' = IF m.shoots /\ DOMAIN flights # 1..Flights
               THEN LET n == CHOOSE k \in 1..Flights : k \notin DOMAIN flights
                    IN [k \in DOMAIN flights \cup {n} |-> IF k = n THEN Launched(m) ELSE flights[k]]
               ELSE flights
Visited(i) == turn' = [turn EXCEPT !.todo = @ \ {i}]
Aged(m) == [m EXCEPT !.age = Upper(@, OldAge), !.cooldown = Lower(@), !.since = Upper(@, Gap), !.shoots = FALSE]
\* First pass: dormant mobs age and cool down, and no more.
Think(i, sight) ==
    LET m == Aged(mind[i]) IN
    /\ turn.pass = "first" /\ i \in turn.todo
    /\ \E n \in IF sight = "nobody" THEN {m}
                ELSE IF m.timer > 0 THEN {[m EXCEPT !.timer = Lower(@)]}
                ELSE Decides(m, sight) :
         mind' = [mind EXCEPT ![i] = n] /\ Airborne(n)
    /\ Visited(i) /\ UNCHANGED returned
Behave(i, sight) ==
    LET m == [mind[i] EXCEPT !.shoots = FALSE] IN
    /\ turn.pass = "second" /\ i \in turn.todo /\ turn.waits = {}
    /\ \E n \in Behaves(m, sight) : mind' = [mind EXCEPT ![i] = n] /\ Airborne(n)
    /\ Visited(i) /\ UNCHANGED returned
\* A fox looks for prey: it goes through the shards of the map, whose own it holds.
LookForPrey(i) ==
    /\ turn.pass = "second" /\ i \in turn.todo /\ turn.waits = {} /\ mind[i].second = "fox"
    /\ \E near \in SUBSET {j \in Minded : mind[j].second = "prey"} :
         IF \E j \in near : MindShard[j] < MindShard[i]
         THEN /\ mind' = [mind EXCEPT ![i] = Moody(@, "wanders")] /\ Visited(i)
         ELSE /\ turn' = [turn EXCEPT !.waits = {i}] /\ UNCHANGED mind
    /\ UNCHANGED <<flights, returned>>
NextPass ==
    /\ turn.pass \in {"first", "second"} /\ turn.todo = {}
    /\ turn' = IF turn.pass = "first" THEN [turn EXCEPT !.pass = "second", !.todo = Minded]
               ELSE [turn EXCEPT !.pass = "flights"]
    /\ UNCHANGED <<mind, flights, returned>>
\* tick_projectiles: those that are too old or fall out of the world leave the map, and
\* then the tick loop looks up in the map what to do about them: nothing is found there.
Fly ==
    /\ turn.pass = "flights"
    /\ \E fallen \in SUBSET DOMAIN flights :
         LET ended == fallen \cup {k \in DOMAIN flights : flights[k].ticks + 1 > FlightTicks}
             left == DOMAIN flights \ ended
         IN /\ flights' = [k \in left |-> [flights[k] EXCEPT !.ticks = @ + 1]]
            /\ returned' = IF \E k \in ended \cap left : flights[k].loyal THEN returned + 1 ELSE returned
    /\ turn' = AtRest /\ UNCHANGED mind

-----------------------------------------------------------------------------
(* Players *)

\* A bow, a crossbow or a trident is let go.
Launch(kind, loyal) ==
    /\ turn = AtRest /\ DOMAIN flights = {} /\ loyal => kind = "trident"
    /\ flights' = [k \in {1} |-> [kind |-> kind, ticks |-> 0, loyal |-> loyal]]
    /\ UNCHANGED <<mind, turn, returned>>
\* A pet is told to sit or to stand.
Sit(i) ==
    /\ turn = AtRest /\ mind[i].tame
    /\ mind' = [mind EXCEPT ![i].sits = ~@] /\ UNCHANGED <<turn, flights, returned>>

MindsNext ==
    \/ BeginTick \/ NextPass \/ Fly
    \/ \E i \in Minded : \/ \E sight \in Sights : Think(i, sight) \/ Behave(i, sight)
                         \/ LookForPrey(i) \/ Sit(i)
    \/ \E kind \in {"arrow", "trident"}, loyal \in BOOLEAN : Launch(kind, loyal)
MindsSpec == MindsInit /\ [][MindsNext]_minds_vars

-----------------------------------------------------------------------------
MindsTypeOK ==
    /\ \A i \in Minded : LET m == mind[i] IN
         /\ m.timer \in 0..Pause /\ m.cooldown \in 0..Gap /\ m.hp \in 0..2 /\ m.age \in 0..OldAge
         /\ m.mood \in {"idle", "wanders", "chases", "fuse"}
    /\ DOMAIN flights \subseteq 1..Flights /\ \A k \in DOMAIN flights : flights[k].ticks \in 0..FlightTicks
    /\ returned \in Nat

\* Whatever the two passes make of its number, a mob whose attacks have a cooldown attacks
\* once in that many ticks (attack_cooldown).
StrikesSpaced == \A i \in Minded : ~mind[i].close

\* The second pass is there "to avoid double-borrow" (mob.rs:1656): the tick loop never
\* waits for a lock it holds itself.
NoDoubleBorrow == turn.waits = {}
=============================================================================
