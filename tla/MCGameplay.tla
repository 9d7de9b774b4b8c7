----------------------------- MODULE MCGameplay ------------------------------
(***************************************************************************)
(* What players, mobs and things do, on small instances.  The modules keep  *)
(* state of their own, so one run checks them beside each other: `part` is  *)
(* the one that moves in a behaviour, and the others stay as they began.    *)
(***************************************************************************)
EXTENDS Items, Combat, Vitals, Experience, Mobs, MobMinds, Husbandry, Commands, Boards, World, Crafting, TLC

CONSTANTS chest, barrel, anna, ben, sword, helmet, m1, pot, gold, root, kid, o1, b1

VARIABLE part

Sizes == [q \in {chest, barrel} |-> IF q = chest THEN 2 ELSE 1]
Held0 == [q \in {chest, barrel} |-> IF q = chest THEN <<2, 1>> ELSE <<0>>]
OneHopper == {<<chest, barrel>>}
Bags == [p \in {anna, ben} |-> IF p = anna THEN {sword, helmet} ELSE {}]

Table(a, b, c) == [i \in 0..3 |-> CASE i = 0 -> a [] i = 1 -> b [] i = 2 -> c [] OTHER -> None0]
Gear(lore) == [use |-> "gear", lore |-> lore]
Thing(use) == [use |-> use, lore |-> 0]
Tables == {Table(Gear(0), [use |-> "book", lore |-> 2], None0), Table(Gear(3), None0, None0),
           Table(Thing("payment"), Gear(2), Thing("material"))}
Gains == {-4, 30, 120}
Parents == root :> "np" @@ kid :> root
Criteria == root :> {pot} @@ kid :> {gold}

OneShard == m1 :> 1
HabitPairs ==
    {<<"archer", "diver">>, <<"chaser", "brawler">>, <<"bomb", "lobber">>, <<"walker", "tadpole">>,
     <<"slammer", "grazer">>, <<"swimmer", "guard">>, <<"peddler", "gatherer">>, <<"biter", "none">>,
     <<"creeper", "fox">>, <<"boss", "none">>, <<"caster", "lobber">>, <<"rusher", "brawler">>, <<"haunter", "none">>}

\* Every command with all players; each selector; /execute as; and one by name where one is asked for.
Orders ==
    {<<k, "@a", FALSE>> : k \in Kinds0 \ Single} \cup {<<k, ben, FALSE>> : k \in Single}
    \cup {<<"kill", s, FALSE>> : s \in Selectors} \cup {<<k, "@s", TRUE>> : k \in {"gamemode", "title"}}

\* Planks; sticks; a tool that lists more sticks than its two cells; a table; a recipe in any order.
Shaped(w, h, needs, gives, n) == [shapeless |-> FALSE, w |-> w, h |-> h, needs |-> needs, gives |-> gives, count |-> n]
Woods == <<"oak", "birch">>
Book ==
    <<Shaped(1, 1, <<<<"log">>>>, "oak", 2), Shaped(1, 2, <<Woods, Woods>>, "stick", 2),
      Shaped(1, 2, <<Woods, <<"stick">>, <<"stick">>>>, "tool", 1), Shaped(2, 2, <<Woods, Woods, Woods, Woods>>, "tool", 1),
      [Shaped(3, 1, <<<<"log">>, Woods, <<"oak">>>>, "stick", 1) EXCEPT !.shapeless = TRUE]>>
Row(slots, goods) == [s \in slots |-> IF s \in DOMAIN goods THEN [good |-> goods[s], n |-> 1] ELSE [good |-> "log", n |-> 0]]
Others == Row(BagSlots, 2 :> "birch" @@ 4 :> "oak")
Bags0 ==
    {anna :> Row(BagSlots, g) @@ ben :> IF g = <<>> THEN Row(BagSlots, g) ELSE Others :
        g \in {2 :> "birch" @@ 4 :> "birch" @@ 0 :> "stick", 4 :> "log" @@ 3 :> "oak" @@ 1 :> "birch",
               [s \in 1..4 |-> IF s < 4 THEN "birch" ELSE "oak"], <<>>}}
Tables0 ==
    {Row(TableSlots, g) : g \in {3 :> "oak" @@ 6 :> "stick", 1 :> "oak" @@ 4 :> "oak" @@ 9 :> "log",
                                 [s \in {5, 6, 8, 9} |-> "birch"], <<>>}}

\* The districts are alike: the first mob is in one of them.
Home == CHOOSE d \in Districts : TRUE

Parts == {"items", "combat", "vitals", "experience", "mobs", "minds", "husbandry", "commands", "boards", "world", "crafting"}
\* A part with several beginnings has all of them only where it is the part that moves.
Fixed(p, v, value) == part = p \/ v = value

AllInit ==
    /\ part \in Parts
    /\ Init /\ CombatInit /\ VitalsInit /\ HusbandryInit /\ CommandsInit /\ BoardsInit /\ WorldInit
    /\ ExperienceInit /\ Fixed("experience", table, Table(Gear(3), None0, None0))
    /\ MobsInit /\ mobs[1].where = Home /\ Fixed("mobs", mobs[1].kind, "cube")
    /\ CraftingInit /\ Fixed("crafting", <<carries, laid>>, <<[p \in Crafters |-> Row(BagSlots, <<>>)], Row(TableSlots, <<>>)>>)
    /\ MindsInit
    /\ Fixed("minds", mind, [i \in Minded |-> [mind[i] EXCEPT !.tame = FALSE, !.first = "boss", !.second = "none"]])

ItemsMoves ==
    /\ part = "items" /\ Next
    /\ UNCHANGED <<part, combat_vars, vitals_vars, experience_vars, mobs_vars,
                   minds_vars, husbandry_vars, commands_vars, boards_vars, world_vars, crafting_vars>>
CombatMoves ==
    /\ part = "combat" /\ CombatNext
    /\ UNCHANGED <<part, vars, vitals_vars, experience_vars, mobs_vars,
                   minds_vars, husbandry_vars, commands_vars, boards_vars, world_vars, crafting_vars>>
VitalsMoves ==
    /\ part = "vitals" /\ VitalsNext
    /\ UNCHANGED <<part, vars, combat_vars, experience_vars, mobs_vars,
                   minds_vars, husbandry_vars, commands_vars, boards_vars, world_vars, crafting_vars>>
ExperienceMoves ==
    /\ part = "experience" /\ ExperienceNext
    /\ UNCHANGED <<part, vars, combat_vars, vitals_vars, mobs_vars,
                   minds_vars, husbandry_vars, commands_vars, boards_vars, world_vars, crafting_vars>>
MobsMoves ==
    /\ part = "mobs" /\ MobsNext
    /\ UNCHANGED <<part, vars, combat_vars, vitals_vars, experience_vars,
                   minds_vars, husbandry_vars, commands_vars, boards_vars, world_vars, crafting_vars>>
MindsMoves ==
    /\ part = "minds" /\ MindsNext
    /\ UNCHANGED <<part, vars, combat_vars, vitals_vars, experience_vars,
                   mobs_vars, husbandry_vars, commands_vars, boards_vars, world_vars, crafting_vars>>
HusbandryMoves ==
    /\ part = "husbandry" /\ HusbandryNext
    /\ UNCHANGED <<part, vars, combat_vars, vitals_vars, experience_vars,
                   mobs_vars, minds_vars, commands_vars, boards_vars, world_vars, crafting_vars>>
CommandsMoves ==
    /\ part = "commands" /\ CommandsNext
    /\ UNCHANGED <<part, vars, combat_vars, vitals_vars, experience_vars,
                   mobs_vars, minds_vars, husbandry_vars, boards_vars, world_vars, crafting_vars>>
BoardsMoves ==
    /\ part = "boards" /\ BoardsNext
    /\ UNCHANGED <<part, vars, combat_vars, vitals_vars, experience_vars,
                   mobs_vars, minds_vars, husbandry_vars, commands_vars, world_vars, crafting_vars>>
WorldMoves ==
    /\ part = "world" /\ WorldNext
    /\ UNCHANGED <<part, vars, combat_vars, vitals_vars, experience_vars,
                   mobs_vars, minds_vars, husbandry_vars, commands_vars, boards_vars, crafting_vars>>
CraftingMoves ==
    /\ part = "crafting" /\ CraftingNext
    /\ UNCHANGED <<part, vars, combat_vars, vitals_vars, experience_vars,
                   mobs_vars, minds_vars, husbandry_vars, commands_vars, boards_vars, world_vars>>
AllNext ==
    \/ ItemsMoves \/ CombatMoves \/ VitalsMoves \/ ExperienceMoves
    \/ MobsMoves \/ MindsMoves \/ HusbandryMoves \/ CommandsMoves \/ BoardsMoves \/ WorldMoves
    \/ CraftingMoves

\* The tick loop goes on with a tick it has begun.
Everything == <<part, vars, combat_vars, vitals_vars, experience_vars, mobs_vars, minds_vars, husbandry_vars,
                commands_vars, boards_vars, world_vars, crafting_vars>>
LoopFair == WF_combat_vars(part = "combat" /\ LoopGoesOn)
AllSpec == AllInit /\ [][AllNext]_Everything /\ LoopFair

\* The parts at rest are as AllInit has left them.
GameplayTypeOK ==
    CASE part = "items" -> TypeOK [] part = "combat" -> CombatTypeOK [] part = "vitals" -> VitalsTypeOK
      [] part = "experience" -> ExperienceTypeOK [] part = "mobs" -> MobsTypeOK [] part = "minds" -> MindsTypeOK
      [] part = "husbandry" -> HusbandryTypeOK [] part = "commands" -> CommandsTypeOK [] part = "boards" -> BoardsTypeOK
      [] part = "world" -> WorldTypeOK [] part = "crafting" -> CraftingTypeOK

\* CraftsWhatIsLaid (Crafting): a recipe is found in a grid exactly where it is laid.
LaidIsCrafted == part = "crafting" => CraftsWhatIsLaid

=============================================================================
