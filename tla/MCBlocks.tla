------------------------------- MODULE MCBlocks -------------------------------
(***************************************************************************)
(* What becomes of a changed block, on small instances: how it is packed   *)
(* and sent (Column), lit (Lighting), made known (BlockUpdates), what the  *)
(* tick loop does to it (Terrain), and how mobs go round it (Paths).  The modules keep state of their    *)
(* own, so one run checks them beside each other: `part` is the one that   *)
(* moves in a behaviour, and the others stay as they began.                *)
(***************************************************************************)
EXTENDS BlockUpdates, Column, Lighting, Terrain, Paths, TLC

CONSTANTS w1, w2, erik

VARIABLE part

(* BlockUpdates: two players who see two chunks.                           *)
Everything == [pl \in Players |-> Chunks]
Symmetry == Permutations(Players) \cup Permutations(Chunks)

(* Column: one of the states is waterlogged.                               *)
OneWet == {[id |-> i, props |-> 0] : i \in 0..3} \cup {[id |-> 1, props |-> 1]}

(* Lighting: two chunks, each in a shard of its own.                       *)
Pair == 0..1
OwnShards == [c \in Pair |-> c]

(* Terrain: sand over crops and over air, fire and ice, grass beside dirt, *)
(* and a spike of each kind.                                               *)
Land(a, b) == [s \in Site |-> IF s[1] = 0 THEN a[s[2] + 1] ELSE b[s[2] + 1]]
Level == Land(<<"grass", "air", "air", "air">>, <<"dirt", "air", "air", "air">>)
Lands == {Level,
          Land(<<"crop", "air", "sand", "sand">>, <<"dirt", "crop", "air", "sand">>),
          Land(<<"stone", "fire", "air", "air">>, <<"sand", "dirt", "air", "air">>),
          Land(<<"ice", "air", "air", "air">>, <<"air", "sand", "air", "air">>),
          Land(<<"sulfur", "stone", "spike", "air">>, <<"air", "spike", "stone", "sulfur">>)}

(* Paths: two mobs after one player, in open country and behind walls.     *)
Chased == w1 :> erik @@ w2 :> erik
Walls == {{}, {<<1, 0>>, <<1, 1>>}, {<<2, 0>>, <<2, 1>>, <<2, 2>>}, {<<1, 1>>, <<2, 1>>}}
Places == {w1 :> <<0, 0>> @@ w2 :> c @@ erik :> <<2, 0>> : c \in {<<0, 1>>, <<0, 2>>}}
AtFirst == w1 :> <<0, 0>> @@ w2 :> <<0, 1>> @@ erik :> <<2, 0>>

BlocksInit ==
    /\ part \in {"updates", "column", "lighting", "terrain", "paths"}
    /\ Init /\ ColumnInit /\ LightingInit /\ TerrainInit /\ PathsInit
    /\ part = "paths" \/ (blocked = {} /\ spot = AtFirst)
    /\ part = "column" \/ column = [s \in Sections |-> Absent]
    /\ part = "terrain" \/ ground = Level

UpdatesMove ==
    part = "updates" /\ Next /\ UNCHANGED <<part, column_vars, lighting_vars, terrain_vars, paths_vars>>
ColumnMoves ==
    part = "column" /\ ColumnNext /\ UNCHANGED <<part, vars, lighting_vars, terrain_vars, paths_vars>>
LightingMoves ==
    part = "lighting" /\ LightingNext /\ UNCHANGED <<part, vars, column_vars, terrain_vars, paths_vars>>
TerrainMoves ==
    part = "terrain" /\ TerrainNext /\ UNCHANGED <<part, vars, column_vars, lighting_vars, paths_vars>>
PathsMove ==
    part = "paths" /\ PathsNext /\ UNCHANGED <<part, vars, column_vars, lighting_vars, terrain_vars>>

BlocksNext == UpdatesMove \/ ColumnMoves \/ LightingMoves \/ TerrainMoves \/ PathsMove

BlocksSpec ==
    BlocksInit /\ [][BlocksNext]_<<part, vars, column_vars, lighting_vars, terrain_vars, paths_vars>>

-----------------------------------------------------------------------------
(* Every variable has its type.                                            *)
BlocksTypeOK == TypeOK /\ ColumnTypeOK /\ LightingTypeOK /\ TerrainTypeOK /\ PathsTypeOK
===============================================================================
