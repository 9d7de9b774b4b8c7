-------------------------------- MODULE Paths --------------------------------
(***************************************************************************)
(* How a mob finds its way (pathfind.rs): every 40 ticks the tick loop      *)
(* lists the mobs that chase someone, with the positions of both, and gives *)
(* each a path: straight on, one kept for the same pair of chunks, or the   *)
(* one a search finds.  The mobs then walk from waypoint to waypoint.       *)
(*                                                                         *)
(* Positions are columns of blocks.  A column is blocked when feet and head *)
(* meet a block there or its chunk is not loaded; players change that while *)
(* the search runs, which reads the four columns around a node one by one   *)
(* (as one step here: they are four different columns).                     *)
(***************************************************************************)
EXTENDS Integers, FiniteSets, Sequences

CONSTANTS
    Hunters,    \* mobs that chase
    Prey,       \* Prey[m]: the player m chases
    FieldX, FieldZ, \* the loaded columns are 0..FieldX by 0..FieldZ
    Side,       \* columns along a chunk: 16
    Far,        \* max_dist: 16
    CacheMax,   \* CACHE_MAX: 64
    Buildings,    \* sets of columns that may be blocked at first
    Starts,     \* where everyone may be at first
    PathSteps   \* bound: edits, moves and passes

Field == (0..FieldX) \X (0..FieldZ)
Hunted == {Prey[m] : m \in Hunters}
ASSUME PathsAssumption ==
    /\ IsFiniteSet(Hunters) /\ {FieldX, FieldZ, Side, Far, CacheMax, PathSteps} \subseteq Nat
    /\ Side > 0 /\ CacheMax > 0
    /\ Buildings \subseteq SUBSET Field /\ Starts \subseteq [Hunters \cup Hunted -> Field]

VARIABLES
    blocked,   \* columns nobody can stand in
    spot,      \* spot[x]: the column x stands in
    route,     \* route[m]: TrackedMob.path
    pathing,   \* the stage of the tick loop: mobs to serve, and the positions it listed
    search,    \* the search that runs; clean, for the properties: nothing was changed since it began
    ways,      \* PATH_CACHE: a pair of chunks -> waypoints and uses
    pathSteps  \* bound
paths_vars == <<blocked, spot, route, pathing, search, ways, pathSteps>>

NoSearch == [mob |-> "none"]
Distance(a, b) == IF a < b THEN b - a ELSE a - b
\* The cost still ahead, never more than the way is long.
Heuristic(c, d) == Distance(c[1], d[1]) + Distance(c[2], d[2])
Passable(c) == c \in Field \ blocked
Neighbours(c) == {<<c[1] + 1, c[2]>>, <<c[1] - 1, c[2]>>, <<c[1], c[2] + 1>>, <<c[1], c[2] - 1>>}
ChunkAt(c) == <<c[1] \div Side, c[2] \div Side>>
CacheKey(c, d) == <<ChunkAt(c), ChunkAt(d)>>

PathsInit ==
    /\ blocked \in Buildings /\ spot \in Starts
    /\ route = [m \in Hunters |-> <<>>] /\ ways = <<>>
    /\ pathing = [todo |-> {}, seen |-> spot] /\ search = NoSearch /\ pathSteps = 0

Counts1 == pathSteps < PathSteps /\ pathSteps' = pathSteps + 1
From(m) == pathing.seen[m]
Goal(m) == pathing.seen[Prey[m]]
Serves(m, way) ==
    /\ route' = [route EXCEPT ![m] = way] /\ pathing' = [pathing EXCEPT !.todo = @ \ {m}]
    /\ search' = NoSearch

BeginPathing ==
    /\ Counts1 /\ pathing.todo = {}
    /\ pathing' = [todo |-> Hunters, seen |-> spot]
    /\ UNCHANGED <<blocked, spot, route, search, ways>>
Straight(m) ==
    LET gaps == {Distance(From(m)[i], Goal(m)[i]) : i \in 1..2}
    IN gaps \subseteq 0..1 \/ \E g \in gaps : g > Far
\* One column away or too far: straight on.
GoStraight(m) ==
    /\ m \in pathing.todo /\ search = NoSearch /\ Straight(m) /\ Serves(m, <<Goal(m)>>)
    /\ UNCHANGED <<blocked, spot, ways, pathSteps>>
\* Whatever the path was found for, within the two chunks, and whatever has been built since.
FromCache(m) ==
    LET key == CacheKey(From(m), Goal(m))
    IN /\ m \in pathing.todo /\ search = NoSearch /\ ~Straight(m) /\ key \in DOMAIN ways
       /\ Serves(m, ways[key].way) /\ ways' = [ways EXCEPT ![key].uses = @ + 1]
       /\ UNCHANGED <<blocked, spot, pathSteps>>

Node(c, f) == [cell |-> c, f |-> f]
BeginSearch(m) ==
    /\ m \in pathing.todo /\ search = NoSearch /\ ~Straight(m)
    /\ CacheKey(From(m), Goal(m)) \notin DOMAIN ways
    /\ search' = [mob |-> m, open |-> {Node(From(m), Heuristic(From(m), Goal(m)))}, clean |-> TRUE,
                  cost |-> [c \in {From(m)} |-> 0], came |-> <<>>]
    /\ UNCHANGED <<blocked, spot, route, pathing, ways, pathSteps>>
\* Mutant of Cheapest: BinaryHeap as it is, a heap of the largest.
Cheapest_Dearest == {n \in search.open : \A o \in search.open : o.f <= n.f}
\* The heap gives any one of the cheapest.
Cheapest == {n \in search.open : \A o \in search.open : n.f <= o.f}
Closer(n) ==
    {c \in Neighbours(n.cell) : Passable(c) /\ (c \in DOMAIN search.cost => search.cost[n.cell] + 1 < search.cost[c])}
Expand(n) ==
    LET goal == Goal(search.mob)
        stale == search.cost[n.cell] < n.f - Heuristic(n.cell, goal)
        news == IF stale THEN {} ELSE Closer(n)
        g == search.cost[n.cell] + 1
    IN /\ search # NoSearch /\ n \in Cheapest /\ n.cell # goal
       /\ search' = [search EXCEPT
            !.open = (@ \ {n}) \cup {Node(c, g + Heuristic(c, goal)) : c \in news},
            !.cost = [c \in DOMAIN @ \cup news |-> IF c \in news THEN g ELSE @[c]],
            !.came = [c \in DOMAIN @ \cup news |-> IF c \in news THEN n.cell ELSE @[c]]]
       /\ UNCHANGED <<blocked, spot, route, pathing, ways, pathSteps>>
\* Back from the goal, and turned round.
Reconstructed(came, from, goal) ==
    LET back[k \in 0..Cardinality(Field)] ==
            IF k = 0 THEN goal ELSE IF back[k - 1] \in DOMAIN came THEN came[back[k - 1]] ELSE from
        n == CHOOSE k \in DOMAIN back : back[k] = from /\ \A j \in 0..(k - 1) : back[j] # from
    IN [k \in 1..n |-> back[n - k]]
\* In a full cache one of the least used makes room.
Kept(key, way) ==
    LET given == [way |-> way, uses |-> 1]
        rest(keys) == [k \in keys \cup {key} |-> IF k = key THEN given ELSE ways[k]]
        least == {k \in DOMAIN ways : \A j \in DOMAIN ways : ways[k].uses <= ways[j].uses}
    IN IF Cardinality(DOMAIN ways) < CacheMax THEN {rest(DOMAIN ways)}
       ELSE {rest(DOMAIN ways \ {k}) : k \in least}
Reaches(n) ==
    LET m == search.mob
        way == Reconstructed(search.came, From(m), Goal(m))
    IN /\ search # NoSearch /\ n \in Cheapest /\ n.cell = Goal(m)
       /\ Serves(m, way) /\ ways' \in Kept(CacheKey(From(m), Goal(m)), way)
       /\ UNCHANGED <<blocked, spot, pathSteps>>
\* Only an empty heap ends a search without a path; nothing is kept of it.
GiveUp ==
    /\ search # NoSearch /\ search.open = {} /\ Serves(search.mob, <<Goal(search.mob)>>)
    /\ UNCHANGED <<blocked, spot, ways, pathSteps>>

-----------------------------------------------------------------------------
(* Meanwhile *)

\* A block is placed or broken, or a chunk unloaded or loaded, by another task.
Alters(c) ==
    /\ Counts1 /\ blocked' = IF c \in blocked THEN blocked \ {c} ELSE blocked \cup {c}
    /\ search' = IF search = NoSearch THEN search ELSE [search EXCEPT !.clean = FALSE]
    /\ UNCHANGED <<spot, route, pathing, ways>>
PreyMoves(p, c) ==
    /\ Counts1 /\ spot[p] # c /\ spot' = [spot EXCEPT ![p] = c]
    /\ UNCHANGED <<blocked, route, pathing, search, ways>>
\* tick_ai: waypoints reached are dropped, then straight to the next, or to the prey: blocks
\* are not looked at.
Left(m) ==
    LET ahead == {k \in DOMAIN route[m] : \A j \in 1..k : route[m][j] = spot[m]}
    IN SubSeq(route[m], Cardinality(ahead) + 1, Len(route[m]))
Towards(a, b) == IF a < b THEN {a, a + 1} ELSE IF a > b THEN {a, a - 1} ELSE {a}
Follow(m) ==
    LET next == IF Left(m) # <<>> THEN Left(m)[1] ELSE spot[Prey[m]]
    IN /\ Counts1 /\ pathing.todo = {} /\ spot[m] # spot[Prey[m]]
       /\ route' = [route EXCEPT ![m] = Left(m)]
       /\ \E x \in Towards(spot[m][1], next[1]), z \in Towards(spot[m][2], next[2]) : spot' = [spot EXCEPT ![m] = <<x, z>>]
       /\ UNCHANGED <<blocked, pathing, search, ways>>

PathsNext ==
    \/ BeginPathing \/ GiveUp
    \/ \E m \in Hunters : GoStraight(m) \/ FromCache(m) \/ BeginSearch(m) \/ Follow(m)
    \/ search # NoSearch /\ \E n \in search.open : Expand(n) \/ Reaches(n)
    \/ \E c \in Field : Alters(c) \/ \E p \in Hunted : PreyMoves(p, c)

PathsSpec == PathsInit /\ [][PathsNext]_paths_vars

PathsTypeOK ==
    /\ blocked \subseteq Field /\ pathing.todo \subseteq Hunters /\ Cardinality(DOMAIN ways) <= CacheMax
    /\ \A key \in DOMAIN ways : Len(ways[key].way) > 0 /\ ChunkAt(ways[key].way[Len(ways[key].way)]) = key[2]

\* What is found is a shortest walk round the blocks, and straight on means that there is
\* none, however the heap orders its equals: as long as nobody built in the meantime.
Within(from) ==
    LET ball[n \in 0..Cardinality(Field)] ==
            IF n = 0 THEN {from} ELSE ball[n - 1] \cup {c \in Field : Passable(c) /\ Neighbours(c) \cap ball[n - 1] # {}}
    IN ball
ShortestWalk(way, from, goal) ==
    /\ way[Len(way)] = goal /\ way[1] \in Neighbours(from)
    /\ \A k \in DOMAIN way : Passable(way[k]) /\ (k > 1 => way[k] \in Neighbours(way[k - 1]))
    /\ goal \notin Within(from)[Len(way) - 1]
PathsShortest ==
    [][search # NoSearch /\ search' = NoSearch /\ search.clean =>
       LET m == search.mob
       IN IF Goal(m) \in Within(From(m))[Cardinality(Field)]
          THEN ShortestWalk(route'[m], From(m), Goal(m)) ELSE route'[m] = <<Goal(m)>>]_paths_vars
=============================================================================
