----------------------------- MODULE Experience -----------------------------
(***************************************************************************)
(* Experience of one player and what spends it: orbs, /xp, the work tables  *)
(* of ContainerClick, and advancements.  A player keeps its level and its   *)
(* total separately; add_xp computes the level from the total and           *)
(* remove_xp_levels takes both down, each with its own copy of the cost.    *)
(*                                                                         *)
(* A stack on a table is a record: what it is good for, and the sum of the  *)
(* levels of its enchantments.  Clicks never put a stack on a table: only a *)
(* container whose block was replaced has them, so Laid is chosen.  The bar *)
(* and the orb's position are left out.                                     *)
(***************************************************************************)
EXTENDS Integers, FiniteSets

CONSTANTS
    XpSteps,       \* bound: operations
    XpGains,       \* amounts of /xp add
    XpLevels,      \* levels of /xp set
    Laid,          \* what may lie on a table at the start: [0..3 -> TableStacks]
    Feats,         \* criteria
    FeatParent,    \* advancement -> its parent, or NoParent
    FeatCriteria,  \* advancement -> the criteria it asks for
    NoParent

TableStacks == [use : {"none", "gear", "book", "material", "payment"}, lore : Nat]
ASSUME ExperienceAssumption ==
    /\ XpSteps \in Nat /\ XpGains \subseteq Int /\ XpLevels \subseteq Nat
    /\ \A t \in Laid : DOMAIN t = 0..3 /\ \A i \in 0..3 : t[i] \in TableStacks
    /\ DOMAIN FeatParent = DOMAIN FeatCriteria
    /\ \A a \in DOMAIN FeatParent : FeatParent[a] \in DOMAIN FeatParent \cup {NoParent}

VARIABLES
    xpLevel, xpTotal,   \* xp_level, xp_total
    overcharged,        \* history: levels were taken at a price above their cost, since the level was last computed
    table,              \* the four slots of the open table
    featsDone, granted, \* AdvancementTracker: criteria_done, completed
    xpSteps             \* bound
levels == <<xpLevel, xpTotal, overcharged>>
feats == <<featsDone, granted>>
experience_vars == <<xpLevel, xpTotal, overcharged, table, featsDone, granted, xpSteps>>

None0 == [use |-> "none", lore |-> 0]
XpStep == xpSteps < XpSteps /\ xpSteps' = xpSteps + 1

\* What it costs to go from level l to the next.
CostOf(l) == IF l < 16 THEN 2 * l + 7 ELSE IF l < 31 THEN 5 * l - 38 ELSE 9 * l - 158
TotalAt[l \in Nat] == IF l = 0 THEN 0 ELSE TotalAt[l - 1] + CostOf(l - 1)
\* The loop of add_xp: as many levels as the total pays for.
LevelOf(total) ==
    CHOOSE l \in 0..(IF total > 0 THEN total ELSE 0) : TotalAt[l + 1] > total /\ (l = 0 \/ TotalAt[l] <= total)

\* Mutant of PriceOf: the price of the next level instead of the one given up.
PriceOf_Next(l) == CostOf(l)
\* What remove_xp_levels takes for level l: right up to 16, then the cost of l, not of l - 1.
PriceOf(l) == IF l <= 16 THEN 2 * (l - 1) + 7 ELSE IF l <= 31 THEN 5 * l - 38 ELSE 9 * l - 158
PriceTo[l \in Nat] == IF l = 0 THEN 0 ELSE PriceTo[l - 1] + PriceOf(l)

ExperienceInit ==
    /\ xpLevel = 0 /\ xpTotal = 0 /\ overcharged = FALSE /\ xpSteps = 0
    /\ table \in Laid /\ featsDone = {} /\ granted = {}

AddXp(amount) ==
    /\ xpTotal' = xpTotal + amount
    /\ xpLevel' = LevelOf(xpTotal')
    /\ overcharged' = FALSE
RemoveLevels(n) ==
    LET taken == (xpLevel - n + 1)..xpLevel
        paid == PriceTo[xpLevel] - PriceTo[xpLevel - n]
    IN /\ xpTotal' = IF xpTotal > paid THEN xpTotal - paid ELSE 0
       /\ xpLevel' = xpLevel - n
       /\ overcharged' = (overcharged \/ \E l \in taken : l > 16)

\* An orb within reach gives 3 to 7 points, or repairs a tool with mending.
AbsorbOrb(amount) == XpStep /\ AddXp(amount) /\ UNCHANGED <<table, feats>>
XpAdd(amount) == XpStep /\ AddXp(amount) /\ UNCHANGED <<table, feats>>
XpSet(level) ==
    /\ XpStep /\ xpLevel' = level /\ xpTotal' = TotalAt[level] /\ overcharged' = FALSE
    /\ UNCHANGED <<table, feats>>

-----------------------------------------------------------------------------
(* Tables: a click on the result, all slots of one table *)

\* What is laid in slot i becomes the result, the slots in `used` are emptied.
Makes(result, at, used) ==
    table' = [i \in 0..3 |-> IF i = at THEN result ELSE IF i \in used THEN None0 ELSE table[i]]
Lies(i) == table[i].use # "none"
Pays(cost) == xpLevel >= cost /\ RemoveLevels(cost)

\* The cost is drawn: 1 to 5, with half of up to 15 shelves on top; lapis is taken
\* from the inventory if there is any.  The roll gives one enchantment at least.
Enchant(cost, lore) ==
    /\ XpStep /\ Lies(0) /\ Lies(1) /\ Pays(cost)
    /\ Makes([table[0] EXCEPT !.lore = lore], 2, {0, 1})
    /\ UNCHANGED feats
\* Each enchantment that is new or higher costs its level; repair and rename cost one.
Forge(extra) ==
    /\ XpStep /\ Lies(0) /\ (extra > 0 => table[1].lore > 0) /\ extra <= table[1].lore + 1
    /\ (table[1].lore = 0 => extra = 0) /\ Pays(1 + extra)
    /\ Makes([table[0] EXCEPT !.lore = @ + extra], 2, {0, 1})
    /\ UNCHANGED feats
\* Every enchantment level comes back as one point, of which nothing was paid.
Grind ==
    /\ XpStep /\ table[0].lore > 0
    /\ Makes([table[0] EXCEPT !.lore = 0], 2, {0, 1})
    /\ AddXp(table[0].lore) /\ UNCHANGED feats
\* Beacon: the payment goes whatever the pyramid gives.
PayBeacon ==
    /\ XpStep /\ table[0].use = "payment" /\ Makes(None0, 0, {})
    /\ UNCHANGED <<levels, feats>>
\* Slot 2 is both the material of the upgrade and its result.
Smith ==
    /\ XpStep /\ Lies(0) /\ table[1].use = "gear" /\ table[2].use = "material"
    /\ Makes(table[1], 2, {0, 1}) /\ UNCHANGED <<levels, feats>>
Trim ==
    /\ XpStep /\ \A i \in 0..2 : Lies(i)
    /\ Makes([table[0] EXCEPT !.lore = 0], 3, 0..2) /\ UNCHANGED <<levels, feats>>
\* Loom (result 3) and cartography (result 2): a plain copy of the first input.
Copy(at) ==
    /\ XpStep /\ at \in {2, 3} /\ Lies(0) /\ Lies(1)
    /\ Makes([table[0] EXCEPT !.lore = 0], at, {0, 1} \ (IF at = 2 THEN 0..1 ELSE {}))
    /\ UNCHANGED <<levels, feats>>
\* Stonecutter: slot 0 becomes a copy of the held stack, which stays in the hand.
LayHeld(stack) ==
    /\ XpStep /\ Makes(stack, 0, {}) /\ UNCHANGED <<levels, feats>>

-----------------------------------------------------------------------------
(* Advancements *)

Met(done) == {a \in DOMAIN FeatCriteria : FeatCriteria[a] \subseteq done}
\* Mutant of Follows0: the parent is not asked for.
Follows0_Orphan(a, done) == TRUE
Follows0(a, done) == FeatParent[a] = NoParent \/ FeatParent[a] \in done \/ FeatCriteria[a] = {}

\* check_criterion walks a hash map: whoever comes after its parent is granted
\* with it, whoever comes before has to wait for the next check.
CheckCriterion(c) ==
    /\ XpStep /\ featsDone' = featsDone \cup {c}
    /\ \E new \in SUBSET (Met(featsDone') \ granted) :
        /\ {a \in Met(featsDone') \ granted : Follows0(a, granted)} \subseteq new
        /\ \A a \in new : Follows0(a, granted \cup new)
        /\ granted' = granted \cup new
    /\ UNCHANGED <<levels, table>>

ExperienceNext ==
    \/ \E n \in 3..7 : AbsorbOrb(n)
    \/ \E n \in XpGains : XpAdd(n)
    \/ \E l \in XpLevels : XpSet(l)
    \/ \E cost \in 1..12, lore \in {1, 3} : Enchant(cost, lore)
    \/ \E extra \in 0..4 : Forge(extra)
    \/ Grind \/ PayBeacon \/ Smith \/ Trim
    \/ \E at \in {2, 3} : Copy(at)
    \/ \E t \in Laid : LayHeld(t[0])
    \/ \E c \in Feats : CheckCriterion(c)

ExperienceSpec == ExperienceInit /\ [][ExperienceNext]_experience_vars

ExperienceTypeOK ==
    /\ xpLevel \in Nat /\ xpTotal \in Int /\ overcharged \in BOOLEAN /\ xpSteps \in 0..XpSteps
    /\ \A i \in 0..3 : table[i] \in TableStacks
    /\ featsDone \subseteq Feats /\ granted \subseteq DOMAIN FeatParent

\* The total pays for the level shown: what is left of a level that was given up
\* stays in the total.  Only levels above 16 are taken at more than their cost
\* (remove_xp_levels); then the next orb lowers the level.
PointsForLevel == xpLevel = 0 \/ overcharged \/ TotalAt[xpLevel] <= xpTotal

\* No advancement that asks for something is granted before its parent
\* (advancement.rs, check_criterion).
ParentsFirst ==
    \A a \in granted : FeatParent[a] # NoParent /\ FeatCriteria[a] # {} => FeatParent[a] \in granted
=============================================================================
