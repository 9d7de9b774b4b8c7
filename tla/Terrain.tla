------------------------------- MODULE Terrain -------------------------------
(***************************************************************************)
(* What the tick loop does to the blocks of one chunk while players build: *)
(* falling blocks, fire, grass and ice (physics.rs, tick_physics), crops   *)
(* (crops.rs) and sulfur spikes (physics.rs, tick_sulfur_spikes).  Each is *)
(* a pass that reads blocks, lets go of the chunk, and writes later what   *)
(* it made of them.  The chunk is one block deep; a site is <<x, y>>.      *)
(***************************************************************************)
EXTENDS Integers, Sequences, FiniteSets

CONSTANTS
    Wide, Tall,      \* of the chunk (16, 384)
    Grounds,         \* the blocks it may begin with: functions from sites
    Ripe,            \* the age at which a crop is grown (7, beetroots 3)
    MaxEdits0,       \* bound: blocks broken or placed by players
    MaxPasses        \* bound: passes of the tick loop

VARIABLES
    ground,      \* the blocks
    falling,     \* FALLING_INDEX
    ages,        \* CROP_AGES; a site without an entry has age 0
    pass,        \* the tick loop's pass under way
    before,      \* history: the blocks when the last pass began
    touched,     \* history: the columns players built in since then
    built, passes  \* bounds

terrain_bounds == <<built, passes>>
terrain_vars == <<ground, falling, ages, pass, before, touched, terrain_bounds>>

Site == (0..Wide - 1) \X (0..Tall - 1)
Under(s) == <<s[1], s[2] - 1>>
Over(s) == <<s[1], s[2] + 1>>
Beside(s) == {<<s[1] - 1, s[2]>>, <<s[1] + 1, s[2]>>} \cap Site

Solids == {"sand", "stone", "dirt", "grass", "fire", "ice", "water", "crop", "spike", "sulfur"}
Loose == {"sand"}                \* FALLING_BLOCKS
Flammable == {"dirt", "grass"}   \* FLAMMABLE_BLOCKS

ASSUME TerrainAssumption ==
    /\ {Wide, Tall, Ripe} \subseteq Nat \ {0}
    /\ {MaxEdits0, MaxPasses} \subseteq Nat
    /\ Grounds \subseteq [Site -> Solids \cup {"air"}]

(* get_block_id_at: air where the world ends.                              *)
At(s) == IF s \in Site THEN ground[s] ELSE "air"

(* The topmost block of each column.                                       *)
Tops == {s \in Site : ground[s] # "air" /\ \A y \in (s[2] + 1)..(Tall - 1) : ground[<<s[1], y>>] = "air"}

Resting == [stage |-> "none", todo |-> {}, seen |-> {}, updates |-> <<>>, resolved |-> {}]

TerrainInit ==
    /\ ground \in Grounds
    /\ falling = {}
    /\ ages = [s \in Site |-> 0]
    /\ pass = Resting
    /\ before = ground
    /\ touched = {}
    /\ built = 0
    /\ passes = 0

Begins(p) ==
    /\ pass = Resting /\ passes < MaxPasses
    /\ passes' = passes + 1
    /\ pass' = p
    /\ before' = ground
    /\ touched' = {}

-----------------------------------------------------------------------------
(* A player breaks or places a block, under the guard of the chunk.        *)
BuildAt(s, kind) ==
    /\ built < MaxEdits0
    /\ built' = built + 1
    /\ ground' = [ground EXCEPT ![s] = kind]
    /\ touched' = touched \cup {s[1]}
    /\ UNCHANGED <<falling, ages, pass, before, passes>>

-----------------------------------------------------------------------------
(* tick_physics, phase 1: each registered site, in any order, is read and  *)
(* then the site under it.                                                 *)
BeginPhysics ==
    /\ Begins([Resting EXCEPT !.stage = "weigh", !.todo = falling])
    /\ UNCHANGED <<ground, falling, ages, built>>

LookAt(s) ==
    /\ pass.stage = "weigh" /\ pass.seen = {} /\ s \in pass.todo
    /\ pass' = [pass EXCEPT !.seen = {<<s, ground[s]>>}, !.todo = @ \ {s}]
    /\ UNCHANGED <<ground, falling, ages, before, touched, terrain_bounds>>

Yields_Plants(s) == s \in Site /\ ground[s] \in {"air", "crop"}     \* mutant
Yields(s) == s \in Site /\ ground[s] = "air"

Weigh(s, kind) ==
    LET falls == kind \in Loose /\ Yields(Under(s))
    IN  /\ <<s, kind>> \in pass.seen
        /\ pass' = [pass EXCEPT
                !.seen = {},
                !.updates = IF falls THEN @ \o <<<<Under(s), kind>>, <<s, "air">>>> ELSE @,
                !.resolved = IF falls \/ kind \notin Loose THEN @ \cup {s} ELSE @]
        /\ UNCHANGED <<ground, falling, ages, before, touched, terrain_bounds>>

(* Phase 2 looks at the topmost block of each column, under a guard of the *)
(* chunk.  What may happen to it, with the column it is decided in.        *)
Spreads(kind, sites) ==
    UNION {{<<s[1], n, kind>> : n \in Beside(s) \cap sites} : s \in {t \in Tops : ground[t] = kind}}
Turns(kind, into) == {<<s[1], s, into>> : s \in {t \in Tops : ground[t] = kind}}

Chances ==
    Spreads("fire", {n \in Site : ground[n] \in Flammable})
    \cup Spreads("grass", {n \in Site : ground[n] = "dirt" /\ Over(n) \in Site /\ At(Over(n)) = "air"})
    \cup Turns("fire", "air") \cup Turns("ice", "water")

\* Column by column; in each the neighbours, the one with the higher x first, and then the block itself.
Rank(d) == IF d[2][1] > d[1] THEN 0 ELSE IF d[2][1] < d[1] THEN 1 ELSE 2
Earlier(d, e) == d[1] < e[1] \/ (d[1] = e[1] /\ Rank(d) < Rank(e))
InOrder(chosen) ==
    LET n == Cardinality(chosen)
    IN  {q \in [1..n -> chosen] : \A i, j \in 1..n : i < j => Earlier(q[i], q[j])}
Decided(q) == [i \in DOMAIN q |-> <<q[i][2], q[i][3]>>]

Scan(chosen) ==
    /\ pass.stage = "weigh" /\ pass.todo = {} /\ pass.seen = {}
    /\ chosen \subseteq Chances
    /\ falling' = (falling \ pass.resolved) \cup {s \in Tops : ground[s] \in Loose}
    /\ \E q \in InOrder(chosen) :
            pass' = [Resting EXCEPT !.stage = "apply", !.updates = pass.updates \o Decided(q)]
    /\ UNCHANGED <<ground, ages, before, touched, terrain_bounds>>

(* The updates, one set_block after the other; a spike's are applied the   *)
(* same way.                                                               *)
Apply ==
    LET s == Head(pass.updates)[1]
        kind == Head(pass.updates)[2]
    IN  /\ pass.stage \in {"apply", "spikes"} /\ pass.updates # <<>>
        /\ ground' = [ground EXCEPT ![s] = kind]
        /\ falling' = IF kind \in Loose THEN falling \cup {s} ELSE falling
        /\ pass' = [pass EXCEPT !.updates = Tail(@)]
        /\ UNCHANGED <<ages, before, touched, terrain_bounds>>

EndPass ==
    /\ pass.stage \in {"apply", "spikes"} /\ pass.updates = <<>> /\ pass.todo = {}
    /\ pass' = Resting
    /\ UNCHANGED <<ground, falling, ages, before, touched, terrain_bounds>>

-----------------------------------------------------------------------------
(* tick_crops: under one guard some of the topmost crops get older; under  *)
(* the next one the blocks that were read are set again.                   *)
GrowCrops(grown) ==
    /\ grown # {} /\ \A s \in grown : s \in Tops /\ ground[s] = "crop" /\ ages[s] < Ripe
    /\ ages' = [s \in Site |-> IF s \in grown THEN ages[s] + 1 ELSE ages[s]]
    /\ Begins([Resting EXCEPT !.stage = "sow", !.todo = grown])
    /\ UNCHANGED <<ground, falling, built>>

SowCrops ==
    /\ pass.stage = "sow"
    /\ ground' = [s \in Site |-> IF s \in pass.todo THEN "crop" ELSE ground[s]]
    /\ pass' = Resting
    /\ UNCHANGED <<falling, ages, before, touched, terrain_bounds>>

-----------------------------------------------------------------------------
(* tick_sulfur_spikes walks through a copy of the chunk, from below, and   *)
(* looks around each spike of the copy as the chunk is by then.            *)
BeginSpikes ==
    /\ \E s \in Site : ground[s] = "spike"
    /\ Begins([Resting EXCEPT !.stage = "spikes", !.todo = {s \in Site : ground[s] = "spike"}])
    /\ UNCHANGED <<ground, falling, ages, built>>

Hangs(s) == At(Over(s)) \notin {"air", "spike"} /\ At(Under(s)) = "air"
Stands(s) == At(Under(s)) \notin {"air", "spike"} /\ At(Over(s)) = "air"

(* It may grow from sulfur two blocks away, and come off the ceiling.      *)
SpikeUpdates(s) ==
    LET down == IF At(Over(Over(s))) = "sulfur" /\ Under(s) \in Site THEN {<<>>, <<<<Under(s), "spike">>>>} ELSE {<<>>}
        up == IF At(Under(Under(s))) = "sulfur" /\ Over(s) \in Site THEN {<<>>, <<<<Over(s), "spike">>>>} ELSE {<<>>}
    IN  CASE Hangs(s) -> down \cup {d \o <<<<s, "air">>>> : d \in down}
          [] Stands(s) -> up
          [] OTHER -> {<<>>}

VisitSpike(s) ==
    /\ pass.stage = "spikes" /\ pass.updates = <<>> /\ s \in pass.todo
    /\ \A t \in pass.todo : s[2] < t[2] \/ (s[2] = t[2] /\ s[1] <= t[1])
    /\ \E updates \in SpikeUpdates(s) : pass' = [pass EXCEPT !.updates = updates, !.todo = @ \ {s}]
    /\ UNCHANGED <<ground, falling, ages, before, touched, terrain_bounds>>

-----------------------------------------------------------------------------
TerrainNext ==
    \/ \E s \in Site : \E kind \in {"air", "sand", "crop"} : BuildAt(s, kind)
    \/ BeginPhysics \/ BeginSpikes
    \/ \E s \in Site : LookAt(s) \/ VisitSpike(s) \/ \E kind \in Solids \cup {"air"} : Weigh(s, kind)
    \/ \E chosen \in SUBSET Chances : Scan(chosen)
    \/ Apply \/ EndPass \/ SowCrops
    \/ \E grown \in SUBSET Tops : GrowCrops(grown)

TerrainSpec == TerrainInit /\ [][TerrainNext]_terrain_vars

-----------------------------------------------------------------------------
(* Properties                                                              *)

(* Every variable has its type.                                            *)
TerrainTypeOK ==
    /\ ground \in [Site -> Solids \cup {"air"}] /\ before \in [Site -> Solids \cup {"air"}]
    /\ falling \subseteq Site /\ pass.todo \subseteq Site /\ pass.resolved \subseteq Site
    /\ ages \in [Site -> 0..Ripe]
    /\ pass.stage \in {"none", "weigh", "apply", "sow", "spikes"}
    /\ touched \subseteq 0..Wide - 1
    /\ built \in 0..MaxEdits0 /\ passes \in 0..MaxPasses

Amount(land, x, kind) == Cardinality({y \in 0..Tall - 1 : land[<<x, y>>] = kind})

(* Between two passes, a column no player has built in since the last one  *)
(* began has as much sand and as many crops as it had then, however many   *)
(* blocks fall, burn, grow or come off at once and whatever players build  *)
(* beside it.  In a column they did build in, what they broke may be back  *)
(* and what they placed may be gone: the passes write what they read.      *)
UntouchedConserved ==
    pass = Resting => \A x \in (0..Wide - 1) \ touched : \A kind \in {"sand", "crop"} :
        Amount(ground, x, kind) = Amount(before, x, kind)
==============================================================================
