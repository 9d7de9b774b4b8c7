------------------------------- MODULE Combat -------------------------------
(***************************************************************************)
(* Damage, death and respawn of players.  Health is written by the tick     *)
(* loop and by the task of every connection; the players are locked for one *)
(* access at a time (PlayerManager), so what was read may be old when it is *)
(* written back.  Three clocks stamp last_damage_tick: the tick loop's, the *)
(* connection's own count of ticks, and the age of a mob.                   *)
(*                                                                         *)
(* Every stack of items is its own value, which makes a loss visible.  The  *)
(* amount of a hit is chosen: armour, resistance and enchantments only      *)
(* reduce it.  Where the code reads a player under the guard of the same    *)
(* player it hangs (PlayerShards); here such a read returns.                *)
(***************************************************************************)
EXTENDS Integers, FiniteSets, Functions

CONSTANTS
    Fighters,      \* players
    Stacks,        \* stacks of items; Worn are pieces of armour, Cursed vanish at a PvP death
    Worn, Cursed,
    Bag,           \* Bag[p]: what p has in inventory and armour at the start
    FullHealth,    \* 20
    Grace,         \* ticks between two gated hits: 10
    CombatTicks,   \* bound: ticks of the loop
    CombatIds,     \* bound: the last entity id a task takes
    CombatHits     \* bound: hits outside the loop and requests of players, together

ASSUME CombatAssumption ==
    /\ IsFiniteSet(Fighters) /\ IsFiniteSet(Stacks)
    /\ Worn \subseteq Stacks /\ Cursed \subseteq Stacks /\ "orb" \notin Stacks
    /\ Bag \in [Fighters -> SUBSET Stacks]
    /\ \A p, q \in Fighters : p # q => Bag[p] \cap Bag[q] = {}
    /\ {FullHealth, Grace} \subseteq Nat \ {0}
    /\ {CombatTicks, CombatIds, CombatHits} \subseteq Nat

VARIABLES
    health,     \* health[p]
    bag,        \* bag[p]: stacks in inventory and armour
    lying,      \* dropped_items: entity id -> stack, or the orb
    freeId,     \* next_entity_id
    lastHit,    \* last_damage_tick[p]
    now,        \* tick_count of the loop
    loop,       \* where the tick loop is, and what it has read
    duel,       \* duel[p]: the attack p's task is handling, with what it has read
    hits,       \* bound
    excused     \* history: stacks whose loss has a cause: picked up behind the copy
                \* of the death check, or replaced under a reused id
life == <<health, lastHit>>
things == <<bag, lying, freeId, excused>>
combat_vars == <<health, bag, lying, freeId, lastHit, now, loop, duel, hits, excused>>

Orb == "orb"
Idle == [at |-> "idle"]
Health == 0..FullHealth
Floor0(n) == IF n < 0 THEN 0 ELSE n

\* A fresh entity takes the slot of its id, whatever is there.
Placed(ground, id, thing) == [i \in DOMAIN ground \cup {id} |-> IF i = id THEN thing ELSE ground[i]]
Replaced(ground, ids) == {ground[i] : i \in ids \cap DOMAIN ground} \ {Orb}
Held == UNION {bag[p] : p \in Fighters}
OnGround == {lying[i] : i \in DOMAIN lying} \ {Orb}

CombatInit ==
    /\ health = [p \in Fighters |-> FullHealth] /\ bag = Bag
    /\ lying = [i \in {} |-> Orb] /\ freeId = 1
    /\ lastHit = [p \in Fighters |-> 0] /\ now = 0
    /\ loop = [at |-> "hit"] /\ duel = [p \in Fighters |-> Idle]
    /\ hits = 0 /\ excused = {}

-----------------------------------------------------------------------------
(* Hits *)

\* apply_damage: no invulnerability, and the stamp the caller brings.
Damaged(p, amount, stamp) ==
    /\ health' = [health EXCEPT ![p] = Floor0(@ - amount)]
    /\ lastHit' = [lastHit EXCEPT ![p] = stamp]

\* can_take_damage, with its saturating subtraction.
CanTakeDamage(p, tick) == Floor0(tick - lastHit[p]) >= Grace

\* TNT and projectiles stamp the tick, lightning and mobs 0 or their age, the
\* void, fire and drowning one more than the last stamp.
LoopDamages(p, amount) ==
    /\ loop.at = "hit" /\ health[p] > 0
    /\ \E stamp \in {0, now, lastHit[p] + 1} \cap 0..CombatTicks : Damaged(p, amount, stamp)
    /\ hits < CombatHits /\ hits' = hits + 1
    /\ UNCHANGED <<things, now, loop, duel>>

\* Chasing mobs, arrows, explosions and hot cubes: the player is copied, the gate
\* is checked on what is stored by then, and the copy less the damage is written.
LoopCopies(p) ==
    /\ loop.at = "hit" /\ hits < CombatHits
    /\ loop' = [at |-> "copied", who |-> p, copy |-> health[p]]
    /\ hits' = hits + 1
    /\ UNCHANGED <<life, things, now, duel>>
CopyHits(amount) ==
    /\ loop.at = "copied"
    /\ loop' = [at |-> "hit"]
    /\ IF CanTakeDamage(loop.who, now)
       THEN /\ health' = [health EXCEPT ![loop.who] = Floor0(loop.copy - amount)]
            /\ lastHit' = [lastHit EXCEPT ![loop.who] = now]
       ELSE UNCHANGED life
    /\ UNCHANGED <<things, now, duel, hits>>

\* The world border and the stages of the mobs write the copy back without a gate.
CopyHitsUngated(amount) ==
    /\ loop.at = "copied"
    /\ loop' = [at |-> "hit"]
    /\ health' = [health EXCEPT ![loop.who] = Floor0(loop.copy - amount)]
    /\ UNCHANGED <<things, lastHit, now, duel, hits>>

\* A fall: the task of the player hits, stamped with the last stamp plus one.
Fall(p, amount) ==
    /\ duel[p] = Idle /\ hits < CombatHits /\ lastHit[p] < CombatTicks
    /\ Damaged(p, amount, lastHit[p] + 1)
    /\ hits' = hits + 1
    /\ UNCHANGED <<things, now, loop, duel>>

\* Interact, attack: the gate is checked with the tick of p's connection.
Attack(p, q, amount) ==
    /\ duel[p] = Idle /\ p # q /\ hits < CombatHits
    /\ \E tick \in 0..CombatTicks :
        /\ CanTakeDamage(q, tick)
        /\ health' = [health EXCEPT ![q] = Floor0(@ - amount)]
        /\ lastHit' = [lastHit EXCEPT ![q] = tick, ![p] = tick]
    /\ duel' = [duel EXCEPT ![p] = [at |-> "struck", who |-> q]]
    /\ hits' = hits + 1
    /\ UNCHANGED <<things, now, loop>>

\* After packets to the attacker: a target read as dead drops a copy of its
\* inventory, without armour and cursed stacks, and without emptying it.
SeesDeath(p) ==
    /\ duel[p].at = "struck"
    /\ duel' = [duel EXCEPT ![p] = IF health[duel[p].who] > 0 THEN Idle
                                   ELSE [at |-> "drops",
                                         left |-> bag[duel[p].who] \ (Worn \cup Cursed)]]
    /\ UNCHANGED <<life, things, now, loop, hits>>
DropsOne(p) ==
    /\ duel[p].at = "drops"
    /\ IF duel[p].left = {}
       THEN /\ duel' = [duel EXCEPT ![p] = Idle]
            /\ UNCHANGED things
       ELSE \E s \in duel[p].left :
            /\ freeId <= CombatIds
            /\ lying' = Placed(lying, freeId, s) /\ freeId' = freeId + 1
            /\ excused' = excused \cup Replaced(lying, {freeId})
            /\ duel' = [duel EXCEPT ![p].left = @ \ {s}]
            /\ UNCHANGED bag
    /\ UNCHANGED <<life, now, loop, hits>>

-----------------------------------------------------------------------------
(* Items on the ground *)

\* Another task throws a stack: fetch_add, then the insertion.
Throw(p, s) ==
    /\ duel[p] = Idle /\ s \in bag[p] \ Worn /\ freeId <= CombatIds /\ hits < CombatHits
    /\ bag' = [bag EXCEPT ![p] = @ \ {s}]
    /\ lying' = Placed(lying, freeId, s) /\ freeId' = freeId + 1
    /\ excused' = excused \cup Replaced(lying, {freeId})
    /\ hits' = hits + 1
    /\ UNCHANGED <<life, now, loop, duel>>

\* Pick-up by the player's task.  Behind the copy of the death check the stack
\* goes into an inventory that is about to be replaced.
PicksUp(p, id) ==
    /\ id \in DOMAIN lying /\ lying[id] # Orb
    /\ bag' = [bag EXCEPT ![p] = @ \cup {lying[id]}]
    /\ lying' = [i \in DOMAIN lying \ {id} |-> lying[i]]
    /\ excused' = IF loop.at \in {"drop", "clear"} /\ loop.who = p
                  THEN excused \cup {lying[id]} ELSE excused
    /\ UNCHANGED <<life, freeId, now, loop, duel, hits>>

-----------------------------------------------------------------------------
(* Death check and respawn *)

\* Mutant of LoopEnds: only the players hit in this tick are looked at.
LoopEnds_JustHit ==
    /\ loop.at = "hit"
    /\ loop' = [at |-> "check", dead |-> {p \in Fighters : health[p] = 0 /\ lastHit[p] = now /\ now < CombatTicks}]
    /\ UNCHANGED <<life, things, now, duel, hits>>

\* The players that are dead now; the rest of the tick's stages are done.
LoopEnds ==
    /\ loop.at = "hit"
    /\ loop' = [at |-> "check", dead |-> {p \in Fighters : health[p] = 0}]
    /\ UNCHANGED <<life, things, now, duel, hits>>

\* Mutant of CopiesDead: only the inventory is copied, the armour is not.
CopiesDead_NoArmour(p) ==
    /\ loop.at = "check" /\ p \in loop.dead
    /\ loop' = [at |-> "drop", who |-> p, dead |-> loop.dead \ {p},
                left |-> bag[p] \ Worn, id |-> freeId]
    /\ UNCHANGED <<life, things, now, duel, hits>>

\* One dead player: inventory and armour are copied, the id counter is loaded.
CopiesDead(p) ==
    /\ loop.at = "check" /\ p \in loop.dead
    /\ loop' = [at |-> "drop", who |-> p, dead |-> loop.dead \ {p}, left |-> bag[p], id |-> freeId]
    /\ UNCHANGED <<life, things, now, duel, hits>>

\* The copies are inserted under the ids from the loaded one on, one lock each.
DropsDead ==
    /\ loop.at = "drop"
    /\ \E s \in loop.left :
        /\ lying' = Placed(lying, loop.id, s)
        /\ excused' = excused \cup Replaced(lying, {loop.id})
        /\ loop' = [loop EXCEPT !.left = @ \ {s}, !.id = @ + 1]
    /\ UNCHANGED <<life, bag, freeId, now, duel, hits>>

\* Then one orb, and the counter is stored, whatever others have taken since.
\* The effects at death take more ids and store the counter again.
DropsOrb ==
    /\ loop.at = "drop" /\ loop.left = {}
    /\ lying' = Placed(lying, loop.id, Orb)
    /\ excused' = excused \cup Replaced(lying, {loop.id})
    /\ freeId' = loop.id + 1
    /\ loop' = [loop EXCEPT !.at = "clear"]
    /\ UNCHANGED <<life, bag, now, duel, hits>>

\* Health, position, food and at last a new inventory; experience is kept.
Respawns ==
    /\ loop.at = "clear"
    /\ health' = [health EXCEPT ![loop.who] = FullHealth]
    /\ bag' = [bag EXCEPT ![loop.who] = {}]
    /\ loop' = [at |-> "check", dead |-> loop.dead]
    /\ UNCHANGED <<lastHit, lying, freeId, excused, now, duel, hits>>

NextTick ==
    /\ loop.at = "check" /\ loop.dead = {}
    /\ loop' = [at |-> "hit"]
    /\ now' = IF now < CombatTicks THEN now + 1 ELSE now
    /\ UNCHANGED <<life, things, duel, hits>>

\* ClientCommand 0 (respawn) and a night in a bed: full health, nothing is dropped.
Revive(p) ==
    /\ duel[p] = Idle /\ hits < CombatHits
    /\ health' = [health EXCEPT ![p] = FullHealth]
    /\ hits' = hits + 1
    /\ UNCHANGED <<things, lastHit, now, loop, duel>>

-----------------------------------------------------------------------------
LoopStep ==
    \/ \E p \in Fighters : LoopCopies(p) \/ CopiesDead(p)
    \/ \E p \in Fighters, a \in 1..FullHealth : LoopDamages(p, a)
    \/ \E a \in 1..FullHealth : CopyHits(a) \/ CopyHitsUngated(a)
    \/ LoopEnds \/ DropsDead \/ DropsOrb \/ Respawns \/ NextTick
TaskStep(p) ==
    \/ \E q \in Fighters, a \in 0..FullHealth : Attack(p, q, a)
    \/ \E a \in 1..FullHealth : Fall(p, a)
    \/ SeesDeath(p) \/ DropsOne(p) \/ Revive(p)
    \/ \E s \in Stacks : Throw(p, s)
    \/ \E id \in DOMAIN lying : PicksUp(p, id)
CombatNext == LoopStep \/ \E p \in Fighters : TaskStep(p)
CombatSpec == CombatInit /\ [][CombatNext]_combat_vars

\* What the loop does once it is through with its hits: the tick always goes on.
LoopGoesOn ==
    \/ LoopEnds \/ DropsDead \/ DropsOrb \/ Respawns \/ NextTick
    \/ \E p \in Fighters : CopiesDead(p)
    \/ \E a \in 1..FullHealth : CopyHits(a)

CombatTypeOK ==
    /\ health \in [Fighters -> Health] /\ bag \in [Fighters -> SUBSET Stacks]
    /\ DOMAIN lying \subseteq Nat \ {0} /\ \A i \in DOMAIN lying : lying[i] \in Stacks \cup {Orb}
    /\ freeId \in Nat \ {0} /\ lastHit \in [Fighters -> 0..CombatTicks]
    /\ now \in 0..CombatTicks /\ hits \in 0..CombatHits /\ excused \subseteq Stacks
    /\ loop.at \in {"hit", "copied", "check", "drop", "clear"}
    /\ \A p \in Fighters : duel[p].at \in {"idle", "struck", "drops"}

\* Every stack the players started with is still with a player or on the ground,
\* or its loss has one of the two known causes: death drops everything else
\* (main.rs, death check), although it works on copies and shares the id counter.
\* While the death check is between its copy and the insertion a stack is in the bag.
LossesExplained ==
    \A s \in UNION {Bag[p] : p \in Fighters} : s \in Held \cup OnGround \cup excused

\* A player whose health is 0 is alive again: the death check of a later tick
\* respawns whoever is still dead then.
DeadRespawn == \A p \in Fighters : health[p] = 0 ~> health[p] > 0
=============================================================================
