-------------------------------- MODULE Mobs --------------------------------
(***************************************************************************)
(* MobManager: the map of mobs, the index of their ids by chunk, natural    *)
(* spawning by the tick loop, and what players do to mobs.  A chunk here is *)
(* a neighbourhood of 3 x 3 chunks, which is what count_near looks at.      *)
(*                                                                         *)
(* The two hostile spawners number their mobs differently: main.rs as       *)
(* count_hostile counts them ("counted"), tick.rs as is_hostile does        *)
(* ("official").  Animals and cubes are neither.  A death of a player loads *)
(* the id counter and stores it later (Combat): an id may be issued twice.  *)
(* The minds of the mobs are in MobMinds.                                   *)
(***************************************************************************)
EXTENDS Integers, FiniteSets, Sequences

CONSTANTS
    Keepers,       \* players
    Districts,     \* neighbourhoods of chunks
    FirstKinds,    \* kinds of the mob that is there at first
    HostileCap,    \* 50 + 10 for each player online
    PassiveCap,    \* 30 + 5
    NearCap,       \* HostileCap / players online
    Lenient,       \* failures in a chunk that the cleanup leaves: fewer than 3
    Skipped,       \* failures after which a chunk is skipped: 5
    PartySizes,    \* mobs that come together: 4 to 6 in a patrol, 2 or 3 with a trader
    MobIds,        \* bound: entity ids
    MobSteps       \* bound: steps of players

Kinds == {"counted", "official", "animal", "cube", "trader"}
ASSUME MobsAssumption ==
    /\ IsFiniteSet(Keepers) /\ IsFiniteSet(Districts)
    /\ {HostileCap, PassiveCap, NearCap, Lenient, Skipped, MobIds, MobSteps} \subseteq Nat /\ MobIds > 0
    /\ FirstKinds \subseteq Kinds
    /\ PartySizes \subseteq Nat \ {0}

VARIABLES
    mobs,      \* entity id -> mob
    listed,    \* chunk_mobs: how often the list of a chunk has an id; its order matters to nobody
    mobNext,   \* next_entity_id
    deathFrom, \* what the death check has loaded of it, or 0
    issued,    \* history: how often an id was given to a mob
    spawner,   \* the spawning stage of the tick loop
    failed,    \* FAILED_SPAWN_CHUNKS
    keeper,    \* keeper[p]: the Interact p's task is handling
    mobSteps   \* bound
registry == <<mobs, listed, mobNext, issued>>
mobs_vars == <<mobs, listed, mobNext, deathFrom, issued, spawner, failed, keeper, mobSteps>>

Resting == [at |-> "idle"]
Newborn(kind, c) == [kind |-> kind, where |-> c, hp |-> 1, small |-> FALSE, holds |-> "nothing",
                     owner |-> "nobody", sits |-> FALSE, love |-> FALSE, rests |-> FALSE, baby |-> FALSE]
Step1 == mobSteps < MobSteps /\ mobSteps' = mobSteps + 1
HowMany(kinds) == Cardinality({i \in DOMAIN mobs : mobs[i].kind \in kinds})
\* count_near skips ids in the list that are no mob any more, and counts an id as often as it is there.
CountNear(c) == Cardinality(UNION {{i} \X (1..listed[c][i]) : i \in {j \in DOMAIN mobs : mobs[j].kind = "official"}})

MobsInit ==
    /\ \E k \in FirstKinds, c \in Districts :
        /\ mobs = [i \in {1} |-> Newborn(k, c)]
        /\ listed = [d \in Districts |-> [i \in 1..MobIds |-> IF d = c /\ i = 1 THEN 1 ELSE 0]]
    /\ mobNext = 2 /\ deathFrom = 0 /\ issued = [i \in 1..MobIds |-> IF i = 1 THEN 1 ELSE 0]
    /\ spawner = Resting /\ failed = [d \in Districts |-> 0] /\ keeper = [p \in Keepers |-> Resting] /\ mobSteps = 0

\* Mutant of Register: a mob that is not listed, as in split_slime.
Register_Unlisted(mob) ==
    /\ mobNext <= MobIds /\ mobNext' = mobNext + 1
    /\ issued' = [issued EXCEPT ![mobNext] = @ + 1]
    /\ mobs' = [i \in DOMAIN mobs \cup {mobNext} |-> IF i = mobNext THEN mob ELSE mobs[i]]
    /\ UNCHANGED listed
\* A fresh id, an entry in the list of the chunk, an entry in the map.
Register(mob) ==
    /\ mobNext <= MobIds /\ mobNext' = mobNext + 1
    /\ issued' = [issued EXCEPT ![mobNext] = @ + 1]
    /\ mobs' = [i \in DOMAIN mobs \cup {mobNext} |-> IF i = mobNext THEN mob ELSE mobs[i]]
    /\ listed' = [listed EXCEPT ![mob.where][mobNext] = @ + 1]
\* remove: only the list of the chunk the mob is in by now is searched.
RemoveMob(i) ==
    /\ mobs' = [j \in DOMAIN mobs \ {i} |-> mobs[j]]
    /\ listed' = IF i \in DOMAIN mobs
                 THEN [listed EXCEPT ![mobs[i].where][i] = 0] ELSE listed
Becomes(i, mob) == mobs' = [mobs EXCEPT ![i] = mob]

-----------------------------------------------------------------------------
(* Spawning *)

\* Both hostile stages ask count_hostile, which does not know official mobs;
\* these count as passive.  Difficulty, daytime and light are left out.
MaySpawn(kind) ==
    IF kind = "animal" THEN HowMany(Kinds) - HowMany({"counted"}) < PassiveCap
    ELSE HowMany({"counted"}) < HostileCap

BeginSpawning(kind) ==
    /\ spawner = Resting /\ deathFrom = 0 /\ kind \notin {"cube", "trader"} /\ mobNext <= MobIds /\ MaySpawn(kind)
    /\ spawner' = [at |-> "spawns", kind |-> kind, left |-> Cardinality(Keepers)]
    /\ UNCHANGED <<registry, deathFrom, failed, keeper, mobSteps>>
\* One mob at most for each player, without another look at the total.
Tries(kind) ==
    /\ spawner.at = "spawns" /\ spawner.kind = kind /\ spawner.left > 0
    /\ spawner' = [spawner EXCEPT !.left = @ - 1]
    /\ UNCHANGED <<deathFrom, keeper, mobSteps>>
SpawnNear(c) ==
    /\ Tries("counted") /\ (Register(Newborn("counted", c)) \/ UNCHANGED registry)
    /\ UNCHANGED failed
\* A chunk that is too bright, or has no ground, counts its failures up to the limit, until one
\* spawns there; one that is not loaded counts one and gets a mob.  `c` is where the player is,
\* `d` where the mob would be.
SpawnOfficial(c, d) ==
    /\ Tries("official")
    /\ \/ UNCHANGED <<registry, failed>>
       \/ /\ CountNear(c) < NearCap /\ failed[d] < Skipped
          /\ \/ failed' = [failed EXCEPT ![d] = @ + 1] /\ (UNCHANGED registry \/ Register(Newborn("official", d)))
             \/ failed' = [failed EXCEPT ![d] = 0] /\ Register(Newborn("official", d))
\* Under the ground the animal may be a cube.
SpawnAnimal(c) ==
    /\ Tries("animal") /\ ((\E kind \in {"animal", "cube"} : Register(Newborn(kind, c))) \/ UNCHANGED registry)
    /\ UNCHANGED failed
\* Now and then the cleanup: it keeps the chunks with few failures.
EndSpawning ==
    /\ spawner.at = "spawns" /\ spawner.left = 0
    /\ spawner' = Resting
    /\ \/ UNCHANGED failed
       \/ spawner.kind = "official" /\ failed' = [d \in Districts |-> IF failed[d] < Lenient THEN failed[d] ELSE 0]
    /\ UNCHANGED <<registry, deathFrom, keeper, mobSteps>>

\* Parties come at their ticks, whatever the caps: a patrol of mobs that only is_hostile knows,
\* and a trader with llamas, where there is no trader yet.
PartyComes(party) ==
    /\ Step1 /\ spawner = Resting /\ deathFrom = 0
    /\ spawner' = [at |-> "party", comes |-> party]
    /\ UNCHANGED <<registry, deathFrom, failed, keeper>>
PatrolComes(size) == PartyComes([k \in 1..size |-> "official"])
TraderComes(size) == HowMany({"trader"}) = 0 /\ PartyComes([k \in 1..size |-> IF k = 1 THEN "trader" ELSE "animal"])
PartyMember(c) ==
    /\ spawner.at = "party" /\ spawner.comes # <<>> /\ Register(Newborn(Head(spawner.comes), c))
    /\ spawner' = [spawner EXCEPT !.comes = Tail(@)]
    /\ UNCHANGED <<deathFrom, failed, keeper, mobSteps>>
\* All have come (or, in the model, the ids are used up).
PartyDone ==
    /\ spawner.at = "party" /\ (spawner.comes = <<>> \/ mobNext > MobIds) /\ spawner' = Resting
    /\ UNCHANGED <<registry, deathFrom, failed, keeper, mobSteps>>
\* With a chunk, from an egg, by a command, out of a dead player: no cap.
Arrives(kind, c) ==
    /\ Step1 /\ Register(Newborn(kind, c)) /\ UNCHANGED <<deathFrom, spawner, failed, keeper>>

\* A mob walks, teleports or is carried: the index is left as it is.
Moves(i, c) ==
    /\ Step1 /\ mobs[i].where # c /\ Becomes(i, [mobs[i] EXCEPT !.where = c])
    /\ UNCHANGED <<listed, mobNext, issued, deathFrom, spawner, failed, keeper>>
\* Mobs that mobs kill stay in the map with no health.
KilledByMob(i) ==
    /\ Step1 /\ mobs[i].kind # "animal" /\ mobs[i].hp > 0 /\ Becomes(i, [mobs[i] EXCEPT !.hp = 0])
    /\ UNCHANGED <<listed, mobNext, issued, deathFrom, spawner, failed, keeper>>
DeathLoads ==
    /\ Step1 /\ spawner = Resting /\ deathFrom = 0 /\ deathFrom' = mobNext
    /\ UNCHANGED <<registry, spawner, failed, keeper>>
DeathStores(n) ==
    /\ deathFrom > 0 /\ mobNext' = deathFrom + n /\ deathFrom' = 0
    /\ UNCHANGED <<mobs, listed, issued, spawner, failed, keeper, mobSteps>>

-----------------------------------------------------------------------------
(* Players *)

Sets(p, what) == keeper' = [keeper EXCEPT ![p] = what]
Begins(p, i) == Step1 /\ keeper[p] = Resting /\ i \in DOMAIN mobs

AttackMob(p, i, amount) ==
    LET left == IF mobs[i].hp > amount THEN mobs[i].hp - amount ELSE 0
    IN /\ Begins(p, i) /\ Becomes(i, [mobs[i] EXCEPT !.hp = left])
       /\ Sets(p, IF left > 0 THEN Resting ELSE [at |-> "kills", id |-> i, seen |-> mobs[i]])
       /\ UNCHANGED <<listed, mobNext, issued, deathFrom, spawner, failed>>
\* After packets: every attacker who brought it to 0, or hit it there, kills it.
\* The drops take ids and are packets only; a large cube leaves two small ones.
Kill(p) ==
    /\ keeper[p].at = "kills" /\ RemoveMob(keeper[p].id)
    /\ IF keeper[p].seen.kind = "cube" /\ ~keeper[p].seen.small /\ keeper[p].seen.holds # "tnt"
       THEN Sets(p, [at |-> "splits", where |-> keeper[p].seen.where, left |-> 2])
       ELSE Sets(p, Resting)
    /\ \E drops \in 0..1 : (drops = 1 => keeper[p].seen.kind # "cube") /\ mobNext' = mobNext + drops
    /\ UNCHANGED <<issued, deathFrom, spawner, failed, mobSteps>>
SpawnSmall(p, c) ==
    /\ keeper[p].at = "splits"
    /\ Register([Newborn("cube", c) EXCEPT !.small = TRUE, !.hp = 1])
    /\ Sets(p, IF keeper[p].left = 1 THEN Resting ELSE [keeper[p] EXCEPT !.left = @ - 1])
    /\ UNCHANGED <<deathFrom, spawner, failed, mobSteps>>

\* Taming: the mob is read first; the last of two tamers owns it.
ReadsUntamed(p, i) ==
    /\ Begins(p, i) /\ mobs[i].kind = "animal" /\ mobs[i].owner = "nobody"
    /\ Sets(p, [at |-> "tames", id |-> i])
    /\ UNCHANGED <<registry, deathFrom, spawner, failed>>
SetTamed(p) ==
    /\ keeper[p].at = "tames" /\ Sets(p, Resting)
    /\ IF keeper[p].id \in DOMAIN mobs THEN Becomes(keeper[p].id, [mobs[keeper[p].id] EXCEPT !.owner = p]) ELSE UNCHANGED mobs
    /\ UNCHANGED <<listed, mobNext, issued, deathFrom, spawner, failed, mobSteps>>
ToggleSitting(p, i) ==
    /\ Begins(p, i) /\ mobs[i].owner = p /\ Becomes(i, [mobs[i] EXCEPT !.sits = ~@])
    /\ UNCHANGED <<listed, mobNext, issued, deathFrom, spawner, failed, keeper>>

\* Feeding: love, unless it rests; a mate is looked for in either case.
Feed(p, i) ==
    /\ Begins(p, i) /\ mobs[i].kind = "animal" /\ ~mobs[i].baby /\ ~mobs[i].love
    /\ Becomes(i, [mobs[i] EXCEPT !.love = ~mobs[i].rests]) /\ Sets(p, [at |-> "fed", id |-> i, seen |-> mobs[i]])
    /\ UNCHANGED <<listed, mobNext, issued, deathFrom, spawner, failed>>
Mates(i) == {j \in DOMAIN mobs \ {i} : mobs[j].kind = "animal" /\ mobs[j].love /\ ~mobs[j].baby}
NoMate(p) ==
    /\ keeper[p].at = "fed" /\ Mates(keeper[p].id) = {} /\ Sets(p, Resting)
    /\ UNCHANGED <<registry, deathFrom, spawner, failed, mobSteps>>
Breed(p, j, c) ==
    /\ keeper[p].at = "fed" /\ j \in Mates(keeper[p].id)
    /\ c \in {keeper[p].seen.where, mobs[j].where}
    /\ Register([Newborn("animal", c) EXCEPT !.baby = TRUE])
    /\ Sets(p, [at |-> "bred", ids |-> {keeper[p].id, j}])
    /\ UNCHANGED <<deathFrom, spawner, failed, mobSteps>>
\* Nothing counts love or rest down: who has bred never falls in love again.
RestParents(p) ==
    /\ keeper[p].at = "bred" /\ Sets(p, Resting)
    /\ mobs' = [i \in DOMAIN mobs |-> IF i \in keeper[p].ids
                                      THEN [mobs[i] EXCEPT !.love = FALSE, !.rests = TRUE] ELSE mobs[i]]
    /\ UNCHANGED <<listed, mobNext, issued, deathFrom, spawner, failed, mobSteps>>

\* Sulfur cubes: a block in, the block out, into a bucket, and growing.
OnCube(p, i, mob) ==
    /\ Begins(p, i) /\ mobs[i].kind = "cube" /\ Becomes(i, mob)
    /\ UNCHANGED <<listed, mobNext, issued, deathFrom, spawner, failed, keeper>>
Absorb(p, i, block) == ~mobs[i].small /\ mobs[i].holds = "nothing" /\ OnCube(p, i, [mobs[i] EXCEPT !.holds = block])
ShearCube(p, i) == mobs[i].holds # "nothing" /\ OnCube(p, i, [mobs[i] EXCEPT !.holds = "nothing"])
Slimeball(p, i) == mobs[i].small /\ OnCube(p, i, [mobs[i] EXCEPT !.small = FALSE, !.hp = 1])
Bucket(p, i) ==
    /\ Begins(p, i) /\ mobs[i].kind = "cube" /\ ~mobs[i].small /\ RemoveMob(i)
    /\ UNCHANGED <<mobNext, issued, deathFrom, spawner, failed, keeper>>

MobsNext ==
    \/ \E k \in Kinds : BeginSpawning(k)
    \/ \E c \in Districts :
        \/ SpawnNear(c) \/ SpawnAnimal(c) \/ PartyMember(c)
        \/ \E d \in Districts : SpawnOfficial(c, d)
        \/ \E p \in Keepers : SpawnSmall(p, c)
    \/ \E size \in PartySizes : PatrolComes(size) \/ TraderComes(size)
    \/ PartyDone
    \/ EndSpawning \/ DeathLoads \/ \E n \in 1..2 : DeathStores(n)
    \/ \E k \in Kinds, c \in Districts : Arrives(k, c)
    \/ \E i \in DOMAIN mobs, c \in Districts : Moves(i, c)
    \/ \E i \in DOMAIN mobs : KilledByMob(i)
    \/ \E p \in Keepers, i \in DOMAIN mobs :
        \/ \E a \in 0..1 : AttackMob(p, i, a)
        \/ ReadsUntamed(p, i) \/ ToggleSitting(p, i) \/ Feed(p, i)
        \/ \E b \in {"tnt", "wood"} : Absorb(p, i, b)
        \/ ShearCube(p, i) \/ Slimeball(p, i) \/ Bucket(p, i)
        \/ \E c \in Districts : Breed(p, i, c)
    \/ \E p \in Keepers : Kill(p) \/ SetTamed(p) \/ NoMate(p) \/ RestParents(p)

MobsSpec == MobsInit /\ [][MobsNext]_mobs_vars

Beast == [kind : Kinds, where : Districts, hp : 0..2, small : BOOLEAN, holds : {"nothing", "tnt", "wood"},
          owner : Keepers \cup {"nobody"}, sits : BOOLEAN, love : BOOLEAN, rests : BOOLEAN, baby : BOOLEAN]
MobsTypeOK ==
    /\ DOMAIN mobs \subseteq 1..MobIds /\ mobs \in [DOMAIN mobs -> Beast]
    /\ listed \in [Districts -> [1..MobIds -> Nat]] /\ issued \in [1..MobIds -> Nat]
    /\ mobNext \in Nat \ {0} /\ deathFrom \in Nat /\ failed \in [Districts -> 0..Skipped]
    /\ mobSteps \in 0..MobSteps

\* Every mob is listed once, so that counting near a player and ranges see it and
\* see it once; more than once only if its id was issued again.
Entries(i) == UNION {{c} \X (1..listed[c][i]) : c \in Districts}
TrackedListed == \A i \in DOMAIN mobs : Entries(i) # {} /\ Cardinality(Entries(i)) <= issued[i]
=============================================================================
