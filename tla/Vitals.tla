------------------------------- MODULE Vitals -------------------------------
(***************************************************************************)
(* Food, health and status effects of one player, as the tick loop and the  *)
(* player's task change them.  Each operation holds the player's lock, so   *)
(* it is one step.  Effects carry the names of effect.rs; the tick loop     *)
(* compares numeric ids, and the name here is the one that id really has:   *)
(* the test written for saturation (23) meets Glowing, for absorption (22)  *)
(* Saturation, for levitation (25) Luck, for regeneration (10) Resistance.  *)
(*                                                                         *)
(* An operation that asks for the player's maximum health or writes through *)
(* the manager while it holds the player's guard never returns: `hung`.     *)
(* PlayerShards has the locks; here nothing happens to the player any more. *)
(***************************************************************************)
EXTENDS Integers, FiniteSets

CONSTANTS
    MaxFood,      \* 20
    FullHearts,   \* 20
    RichFood,     \* food from which health comes back: 18
    ExhaustAt,    \* exhaustion that costs one point, in steps of the loop's additions: 4.0
    Exertions,    \* what one tick may add: idle, sneaking, sprinting; always less than ExhaustAt
    LongEffect,   \* bound: ticks an effect may be given for
    MaxLevels     \* bound: levels of an effect

ASSUME VitalsAssumption ==
    /\ {MaxFood, FullHearts, ExhaustAt, LongEffect, MaxLevels} \subseteq Nat \ {0}
    /\ RichFood \in 0..MaxFood /\ Exertions \subseteq 0..(ExhaustAt - 1)

VARIABLES
    hearts,      \* health
    golden,      \* absorption_health
    food,        \* food_level
    saturation,  \* food_saturation
    exhaustion,  \* food_exhaustion
    effects,     \* active_effects: effect -> level and ticks left
    hung         \* the operation that holds the guard waits for itself
eating == <<food, saturation>>
vitals_vars == <<hearts, golden, food, saturation, exhaustion, effects, hung>>

Lasting == {"Poison", "Wither", "Glowing", "Saturation", "Luck", "Resistance", "Speed"}
Instant == {"InstantHealth", "InstantDamage"}
AtMostOf(n, most) == IF n < most THEN n ELSE most
AtLeastOf(n, least) == IF n > least THEN n ELSE least

\* get_effect_level: one more than the amplifier, 0 when the effect is not active.
EffectLevel(e) == IF e \in DOMAIN effects THEN effects[e].level ELSE 0

VitalsInit ==
    /\ hearts = FullHearts /\ golden = 0
    /\ food = MaxFood /\ saturation = 5 /\ exhaustion = 0
    /\ effects = [e \in {} |-> 0] /\ hung = FALSE

-----------------------------------------------------------------------------
(* Food *)

\* add_food: a meal and a slice of cake, at once (nothing starts eating over time).
AddFood(nutrition, extra) ==
    /\ food' = AtMostOf(food + nutrition, MaxFood)
    /\ saturation' = AtMostOf(saturation + extra, food')

Eat ==
    /\ ~hung
    /\ \E nutrition \in 1..2, extra \in 0..3 : AddFood(nutrition, extra)
    /\ UNCHANGED <<hearts, golden, exhaustion, effects, hung>>

\* The death check: set_health, then set_food.
DieAndRespawn ==
    /\ ~hung /\ hearts = 0
    /\ hearts' = FullHearts /\ food' = MaxFood /\ saturation' = AtMostOf(5, MaxFood)
    /\ UNCHANGED <<golden, exhaustion, effects, hung>>

\* tick_hunger for a player in survival.  One tick adds less than ExhaustAt, so the
\* loop that pays the exhaustion runs once at most.
CostsAPoint(spent) == spent >= ExhaustAt
HungerWithoutCost(spent) ==
    /\ ~CostsAPoint(spent)
    /\ exhaustion' = spent
    /\ UNCHANGED <<hearts, food, saturation, hung>>
HungerWithCost(spent) ==
    /\ CostsAPoint(spent)
    /\ saturation' = AtLeastOf(saturation - 1, 0)
    /\ food' = IF saturation > 0 THEN food ELSE AtLeastOf(food - 1, 0)
    /\ IF food' = 0
       THEN \* starvation
            /\ exhaustion' = 0 /\ hearts' = AtLeastOf(hearts - 1, 0) /\ UNCHANGED hung
       ELSE \* with rich food and saturation left the maximum health is asked for
            /\ exhaustion' = spent - ExhaustAt
            /\ hung' = (food' >= RichFood /\ saturation' > 0)
            /\ UNCHANGED hearts
TickHunger ==
    /\ ~hung
    /\ \E more \in Exertions :
         HungerWithoutCost(exhaustion + more) \/ HungerWithCost(exhaustion + more)
    /\ UNCHANGED <<golden, effects>>

-----------------------------------------------------------------------------
(* Effects *)

\* add_effect replaces the effect; an instant one writes health under the guard.
AddEffect(e, level, ticks) ==
    /\ ~hung
    /\ effects' = [x \in DOMAIN effects \cup {e} |->
                     IF x = e THEN [level |-> level, ticks |-> ticks] ELSE effects[x]]
    /\ UNCHANGED <<hearts, golden, eating, exhaustion, hung>>
AddInstant ==
    /\ ~hung /\ hung' = TRUE
    /\ UNCHANGED <<hearts, golden, eating, exhaustion, effects>>
ClearEffects ==
    /\ ~hung /\ effects # [e \in {} |-> 0]
    /\ effects' = [e \in {} |-> 0]
    /\ UNCHANGED <<hearts, golden, eating, exhaustion, hung>>

\* The countdown at the end of tick_effects; an effect at 0 is gone.
Counted ==
    [e \in {x \in DOMAIN effects : effects[x].ticks > 1} |->
        [effects[e] EXCEPT !.ticks = @ - 1]]

\* The saturation effect, every 20 ticks.
Saturates(due) ==
    /\ saturation' = IF due THEN AtMostOf(saturation + EffectLevel("Glowing"), MaxFood) ELSE saturation
    /\ food' = IF due THEN AtMostOf(food + EffectLevel("Glowing"), MaxFood) ELSE food

\* tick_effects.  due: the tick is a multiple of 20; rests: of the period of regeneration.
\* Golden hearts are refilled when they are used up, and taken away only in the
\* branch of a player who floats.  (The multipliers it sets as well are only sent.)
TickEffects ==
    /\ ~hung
    /\ \E due, rests \in BOOLEAN :
        IF EffectLevel("Resistance") > 0 /\ rests
        THEN hung' = TRUE /\ UNCHANGED <<golden, eating, effects>>
        ELSE LET refill == IF EffectLevel("Saturation") > 0 /\ golden = 0
                           THEN 4 * EffectLevel("Saturation") ELSE golden
                 ends == "Saturation" \in DOMAIN effects \ DOMAIN Counted
             IN /\ Saturates(due)
                /\ golden' = IF EffectLevel("Luck") > 0 /\ ends THEN 0 ELSE refill
                /\ effects' = Counted
                /\ UNCHANGED hung
    /\ UNCHANGED <<hearts, exhaustion>>

\* tick_effect_damage: poison leaves one heart, wither does not.
TickEffectDamage ==
    /\ ~hung
    /\ LET poisoned == IF EffectLevel("Poison") > 0 /\ hearts > 1
                       THEN AtLeastOf(hearts - EffectLevel("Poison"), 1) ELSE hearts
       IN hearts' = AtLeastOf(poisoned - EffectLevel("Wither"), 0)
    /\ UNCHANGED <<golden, eating, exhaustion, effects, hung>>

\* A hit from elsewhere (Combat).
Hurt ==
    /\ ~hung /\ hearts > 0
    /\ hearts' = hearts - 1
    /\ UNCHANGED <<golden, eating, exhaustion, effects, hung>>

VitalsNext ==
    \/ Eat \/ DieAndRespawn \/ TickHunger
    \/ \E e \in Lasting, l \in 1..MaxLevels, t \in 1..LongEffect : AddEffect(e, l, t)
    \/ AddInstant \/ ClearEffects \/ TickEffects \/ TickEffectDamage \/ Hurt
VitalsSpec == VitalsInit /\ [][VitalsNext]_vitals_vars

VitalsTypeOK ==
    /\ hearts \in 0..FullHearts /\ golden \in 0..4 * MaxLevels
    /\ food \in 0..MaxFood /\ saturation \in Nat /\ exhaustion \in 0..ExhaustAt - 1
    /\ DOMAIN effects \subseteq Lasting
    /\ \A e \in DOMAIN effects : effects[e] \in [level : 1..MaxLevels, ticks : 1..LongEffect]
    /\ hung \in BOOLEAN
=============================================================================
