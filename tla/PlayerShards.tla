---------------------------- MODULE PlayerShards ----------------------------
(***************************************************************************)
(* The locks of PlayerManager.players (mc-player/src/player.rs): a DashMap *)
(* keeps its entries in shards, each behind a lock that is not reentrant.  *)
(* get_mut holds a shard's lock for writing while its guard lives, and get *)
(* waits until nobody writes.  The tick loop goes through the players once *)
(* for hunger and once for effects; the connection tasks use the same map. *)
(*                                                                         *)
(* An access that takes and gives back its lock at once is one step, that  *)
(* waits while the shard is held.  Exhaustion is counted in ticks of       *)
(* standing still; the players are in survival mode.                       *)
(***************************************************************************)
EXTENDS Integers

CONSTANTS
    Players,
    Shard,         \* Shard[p]: the shard of p's entry
    MaxHealth,     \* 20
    MaxFood,       \* 20
    Saturation,    \* what a new player has and a meal gives: 5
    Fed,           \* the food level from which a player heals: 18
    TicksPerPoint, \* ticks until exhaustion reaches 4.0: 400
    Tick           \* the tick loop's task

VARIABLES
    vitals,  \* vitals[p]: health, food, saturation, exhaustion, regeneration
    holder,  \* holder[s]: the task that holds a guard of shard s, or Free
    tick,    \* the tick loop: its pass, the players it has yet to visit, and its place
    drinks   \* players whose task holds their entry to apply an instant effect

vars == <<vitals, holder, tick, drinks>>

Free == "free"
Shards == {Shard[p] : p \in Players}
Idle == [pass |-> "none", todo |-> {}, at |-> {}]
Held(p) == holder[Shard[p]] # Free
Guard(p, task) == holder' = [holder EXCEPT ![Shard[p]] = task]
Least(a, b) == IF a < b THEN a ELSE b
Heal(v) == [v EXCEPT !.health = Least(@ + 1, MaxHealth)]
Hurt(v) == [v EXCEPT !.health = IF @ > 0 THEN @ - 1 ELSE 0]

Init ==
    /\ vitals = [p \in Players |-> [health |-> MaxHealth, food |-> MaxFood, saturation |-> Saturation,
                                    exhaustion |-> 0, regeneration |-> FALSE]]
    /\ holder = [s \in Shards |-> Free]
    /\ tick = Idle /\ drinks = {}

-----------------------------------------------------------------------------
(* The tick loop *)

\* The keys are listed first: every entry is looked up again later.
StartPass ==
    /\ tick = Idle
    /\ tick' = [pass |-> "hunger", todo |-> Players, at |-> {}]
    /\ UNCHANGED <<vitals, holder, drinks>>

Visit(p) ==
    /\ tick.at = {} /\ p \in tick.todo
    /\ ~Held(p) /\ Guard(p, Tick)
    /\ tick' = [tick EXCEPT !.todo = @ \ {p}, !.at = {p}]
    /\ UNCHANGED <<vitals, drinks>>

\* A point of exhaustion costs saturation first, then food.
Drained(v) ==
    IF v.saturation > 0 THEN [v EXCEPT !.saturation = @ - 1]
    ELSE IF v.food > 0 THEN [v EXCEPT !.food = @ - 1] ELSE v

Tired(v) == v.exhaustion + 1 >= TicksPerPoint
Exhausted(v) == IF Tired(v) THEN [Drained(v) EXCEPT !.exhaustion = 0]
                ELSE [v EXCEPT !.exhaustion = @ + 1]
Starves(v) == Tired(v) /\ Exhausted(v).food = 0
Regenerates(v) == Tired(v) /\ Exhausted(v).food >= Fed /\ Exhausted(v).saturation > 0

GoOn(p) == Guard(p, Free) /\ tick' = [tick EXCEPT !.at = {}]

\* tick_hunger, up to the maximum health of a player that regenerates.
Hunger(p) ==
    LET v == vitals[p]
        e == Exhausted(v)
    IN /\ tick.pass = "hunger" /\ p \in tick.at
       /\ vitals' = [vitals EXCEPT ![p] = IF Starves(v) THEN Hurt(e) ELSE e]
       /\ IF Regenerates(v) THEN tick' = [tick EXCEPT !.pass = "heal hunger"] /\ UNCHANGED holder
          ELSE GoOn(p)
       /\ UNCHANGED drinks

\* tick_effects, up to the maximum health of a player whose regeneration is due.
Effects(p) ==
    /\ tick.pass = "effects" /\ p \in tick.at
    /\ \/ /\ vitals[p].regeneration
          /\ tick' = [tick EXCEPT !.pass = "heal effects"] /\ UNCHANGED holder
       \/ GoOn(p)
    /\ UNCHANGED <<vitals, drinks>>

\* A healed player is exhausted by 3.0; one with full health ends the pass for everyone.
HealHunger(p) ==
    /\ tick.pass = "heal hunger"
    /\ tick' = [tick EXCEPT !.at = {}, !.pass = "hunger",
                            !.todo = IF vitals[p].health >= MaxHealth THEN {} ELSE @]
    /\ vitals' = IF vitals[p].health >= MaxHealth THEN vitals
                 ELSE [vitals EXCEPT ![p] = [Heal(@) EXCEPT
                                                !.exhaustion = @ + 3 * (TicksPerPoint \div 4)]]

HealEffects(p) ==
    /\ tick.pass = "heal effects"
    /\ tick' = [tick EXCEPT !.at = {}, !.pass = "effects"]
    /\ vitals' = [vitals EXCEPT ![p] = Heal(@)]

\* get_max_health reads the map: it waits for the guard of its own caller.
MaxHealthRead(p) ==
    /\ p \in tick.at /\ ~Held(p)
    /\ HealHunger(p) \/ HealEffects(p)
    /\ Guard(p, Free)
    /\ UNCHANGED drinks

EndPass ==
    /\ tick.pass # "none" /\ tick.at = {} /\ tick.todo = {}
    /\ tick' = IF tick.pass = "hunger" THEN [tick EXCEPT !.pass = "effects", !.todo = Players]
               ELSE Idle
    /\ UNCHANGED <<vitals, holder, drinks>>

-----------------------------------------------------------------------------
(* Connection tasks and commands *)

\* apply_damage, finish_eating and add_effect for an effect with a duration.
Change(p) ==
    /\ ~Held(p)
    /\ \E v \in {Hurt(vitals[p]),
                 [vitals[p] EXCEPT !.food = Least(@ + 1, MaxFood), !.saturation = Saturation],
                 [vitals[p] EXCEPT !.regeneration = ~@]} :
         vitals' = [vitals EXCEPT ![p] = v]
    /\ UNCHANGED <<holder, tick, drinks>>

\* add_effect for an instant effect: the entry is held ...
Drink(p) ==
    /\ p \notin drinks /\ ~Held(p)
    /\ Guard(p, p) /\ drinks' = drinks \cup {p}
    /\ UNCHANGED <<vitals, tick>>

\* ... and then read again for the health it has, and taken again to set it.
Drunk(p) ==
    /\ p \in drinks /\ ~Held(p)
    /\ \E v \in {Heal(vitals[p]), Hurt(vitals[p])} : vitals' = [vitals EXCEPT ![p] = v]
    /\ Guard(p, Free) /\ drinks' = drinks \ {p}
    /\ UNCHANGED tick

TickStep ==
    \/ StartPass \/ EndPass
    \/ \E p \in Players : Visit(p) \/ Hunger(p) \/ Effects(p) \/ MaxHealthRead(p)

Next == TickStep \/ \E p \in Players : Change(p) \/ Drink(p) \/ Drunk(p)

\* The tick loop and a task that holds an entry run whenever they can; a lock that is
\* free again and again is taken in the end.
Spec == Init /\ [][Next]_vars
        /\ SF_vars(TickStep) /\ \A p \in Players : SF_vars(Drunk(p))

-----------------------------------------------------------------------------
(* Properties *)

\* The guard the tick loop holds is given back (tick_hunger, "write lock released here"):
\* otherwise no later stage of any tick runs, and everyone who needs the shard waits.
TickGivesBack == \A s \in Shards : holder[s] = Tick ~> holder[s] = Free
=============================================================================
