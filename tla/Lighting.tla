------------------------------ MODULE Lighting ------------------------------
(***************************************************************************)
(* Blocks that players break and place, and the light of their chunks      *)
(* (lighting.rs; block_break in c2s_handlers.rs and the placement at the   *)
(* end of 0x42 in play_loop.rs).  A play loop keeps its get_mut guard of   *)
(* the chunk, and with it the shard of the chunk map, until its handler is *)
(* done: over the packets it awaits, and while it asks for the guard of    *)
(* the chunk next door.                                                    *)
(*                                                                         *)
(* Chunks stand in a row and are one block deep; a cell is <<x, y>>.       *)
(***************************************************************************)
EXTENDS Integers, Sequences, FiniteSets

CONSTANTS
    Builders,        \* players
    Row,             \* the chunks, a set of integers
    Width, Height,   \* of a chunk (16, 384)
    SectionHeight,   \* 16
    MaxLight,        \* 15
    ShardOf,         \* ShardOf[c]: the shard of the chunk map c is in
    MaxBuilds        \* bound: blocks broken or placed

ASSUME LightingAssumption ==
    /\ Row \subseteq Int /\ Row # {}
    /\ {Width, Height, SectionHeight, MaxLight} \subseteq Nat \ {0}
    /\ DOMAIN ShardOf = Row
    /\ MaxBuilds \in Nat

VARIABLES
    land,       \* land[c]: the blocks of c, the sections it has, and its light
    packet,     \* packet[c]: cached_packet, {} or what it shows
    holder,     \* holder[s]: the play loop that has a guard on shard s, or {}
    builder,    \* builder[p]: the handler p's play loop is in
    relit,      \* history: lit from next door since the packet was made
    sources,    \* history: every light source there has been, <<c, cell, level>>
    builds      \* bound

lighting_vars == <<land, packet, holder, builder, relit, sources, builds>>

Cell == (0..Width - 1) \X (0..Height - 1)
SectionOf(y) == y \div SectionHeight

Kinds == {"air", "stone", "torch", "ember"}
Opaque(kind) == kind = "stone"
Emission(kind) == CASE kind = "torch" -> MaxLight [] kind = "ember" -> MaxLight - 1 [] OTHER -> 0

Minus1(level) == IF level = 0 THEN 0 ELSE level - 1

(* Cells of the column x whose section is there.                           *)
Column(k, x) == {v \in 0..Height - 1 : SectionOf(v) \in k.sections}
OpaqueIn(k, x, ys) == {v \in ys \cap Column(k, x) : Opaque(k.block[<<x, v>>])}

-----------------------------------------------------------------------------
(* Sky light.  Both functions go up from the block that changed, although  *)
(* their comments say down.                                                *)

SetSky(k, x, value, ys) ==
    [k EXCEPT !.sky = [cell \in Cell |->
        IF cell[1] = x /\ cell[2] \in ys \cap Column(k, x) THEN value[cell[2]] ELSE @[cell]]]

Topmost(ys) == CHOOSE v \in ys : \A u \in ys : u <= v

(* From y up each opaque block takes one level, and the last one ends it.  *)
RecalcOnRemove(k, x, y) ==
    LET roof == OpaqueIn(k, x, (y + 1)..(Height - 1))
        first == IF roof = {} THEN MaxLight ELSE Minus1(k.sky[<<x, Topmost(roof)>>])
        passed == [v \in y..(Height - 1) |-> Cardinality(OpaqueIn(k, x, y..(v - 1)))]
    IN  SetSky(k, x, [v \in y..(Height - 1) |-> IF passed[v] < first THEN first - passed[v] ELSE 0],
               {v \in y..(Height - 1) : passed[v] = 0 \/ passed[v] < first})

(* Dark from y up to the first opaque block above it.                      *)
RecalcOnPlace(k, x, y) ==
    SetSky(k, x, [v \in y..(Height - 1) |-> 0],
           {v \in y..(Height - 1) : OpaqueIn(k, x, (y + 1)..(v - 1)) = {}})

-----------------------------------------------------------------------------
(* Block light: a flood from all sources of a chunk at once.  A cell is    *)
(* taken by the first wave that comes to it, whatever its level, and light *)
(* is never taken away.                                                    *)

SourceCells(k) == {cell \in Cell : SectionOf(cell[2]) \in k.sections /\ Emission(k.block[cell]) > 0}

(* The sources in the order of the loops, x first, as nodes of the queue.  *)
Scanned(n) == <<(n - 1) \div Height, (n - 1) % Height>>
Seeds(k) ==
    LET seeds[n \in 0..Width * Height] ==
            IF n = 0 THEN <<>>
            ELSE IF Scanned(n) \in SourceCells(k)
                 THEN Append(seeds[n - 1], <<Scanned(n), Emission(k.block[Scanned(n)])>>) ELSE seeds[n - 1]
    IN  seeds[Width * Height]

BrightLevel(level) == level      \* mutant
NextLevel(level) == level - 1

(* One neighbour of a node: r has the glow, the cells seen and the queue.  *)
Light(k, level, r, cell) ==
    IF cell \notin Cell \ r.seen THEN r
    ELSE LET reached == [r EXCEPT !.seen = @ \cup {cell}]
         IN  IF SectionOf(cell[2]) \in k.sections /\ ~Opaque(k.block[cell]) /\ level > r.glow[cell]
             THEN [reached EXCEPT !.glow[cell] = level, !.queue = Append(@, <<cell, level>>)]
             ELSE reached

(* One node of the queue, and its neighbours in their order.               *)
Wave(k, r) ==
    LET node == Head(r.queue)
        x == node[1][1]
        y == node[1][2]
        To(q, cell) == Light(k, NextLevel(node[2]), q, cell)
        rest == [r EXCEPT !.queue = Tail(@)]
    IN  IF r.queue = <<>> THEN r
        ELSE IF node[2] <= 1 THEN rest
        ELSE To(To(To(To(rest, <<x - 1, y>>), <<x + 1, y>>), <<x, y - 1>>), <<x, y + 1>>)

(* A cell is in the queue once at most, so it is empty in the end.         *)
Flood(k, r) ==
    LET waves[n \in 0..Width * Height] == IF n = 0 THEN r ELSE Wave(k, waves[n - 1])
    IN  waves[Width * Height].glow

PropagateBlockLight(k) ==
    [k EXCEPT !.glow = Flood(k, [glow |-> k.glow, seen |-> SourceCells(k), queue |-> Seeds(k)])]

-----------------------------------------------------------------------------
(* The handlers                                                            *)

Idle0 == [stage |-> "idle", c |-> CHOOSE c \in Row : TRUE, cell |-> <<0, 0>>, remove |-> TRUE]
Stages0 == {"idle", "sending", "crossing", "done"}

(* A generated chunk has some sections, no source and the sky everywhere.  *)
Flat(sections) ==
    [block |-> [cell \in Cell |-> "air"], sections |-> sections,
     sky |-> [cell \in Cell |-> MaxLight], glow |-> [cell \in Cell |-> 0]]

LightingInit ==
    /\ land = [c \in Row |-> Flat({0})]
    /\ packet = [c \in Row |-> {}]
    /\ holder = [s \in {ShardOf[c] : c \in Row} |-> {}]
    /\ builder = [p \in Builders |-> Idle0]
    /\ relit = {}
    /\ sources = {}
    /\ builds = 0

Unheld(c) == holder[ShardOf[c]] = {}

SetBlockIn(k, cell, kind) ==
    [k EXCEPT !.block[cell] = kind, !.sections = @ \cup {SectionOf(cell[2])}]

Build(p, c, cell, kind, lit) ==
    /\ builder[p].stage = "idle"
    /\ Unheld(c)
    /\ builds < MaxBuilds
    /\ builds' = builds + 1
    /\ land' = [land EXCEPT ![c] = PropagateBlockLight(lit)]
    /\ packet' = [packet EXCEPT ![c] = {}]
    /\ relit' = relit \ {c}
    /\ sources' = sources \cup (IF Emission(kind) > 0 THEN {<<c, cell, Emission(kind)>>} ELSE {})
    /\ holder' = [holder EXCEPT ![ShardOf[c]] = {p}]
    /\ builder' = [builder EXCEPT ![p] =
            [stage |-> "sending", c |-> c, cell |-> cell, remove |-> kind = "air"]]

BlockBreak(p, c, cell) ==
    Build(p, c, cell, "air", RecalcOnRemove(SetBlockIn(land[c], cell, "air"), cell[1], cell[2]))

PlaceBlock(p, c, cell, kind) ==
    LET k == SetBlockIn(land[c], cell, kind)
    IN  Build(p, c, cell, kind, IF Opaque(kind) THEN RecalcOnPlace(k, cell[1], cell[2]) ELSE k)

(* What a packet of c shows.                                               *)
Shows(c) == [block |-> land[c].block, sky |-> land[c].sky, glow |-> land[c].glow]

(* send_chunk_data_cached.                                                 *)
Cached(c) ==
    /\ packet' = [packet EXCEPT ![c] = IF @ = {} THEN {Shows(c)} ELSE @]
    /\ relit' = IF packet[c] = {} THEN relit \ {c} ELSE relit

SendOwn(p) ==
    /\ builder[p].stage = "sending"
    /\ Cached(builder[p].c)
    /\ builder' = [builder EXCEPT ![p].stage = "crossing"]
    /\ UNCHANGED <<land, holder, sources, builds>>

(* propagate_lighting_cross_chunk: the chunk next door, if it is loaded,   *)
(* and the column of it that the changed block touches.                    *)
NextDoor(p) ==
    LET c == builder[p].c
        x == builder[p].cell[1]
    IN  {n \in Row : (x = 0 /\ n = c - 1) \/ (x = Width - 1 /\ n = c + 1)}
FacingX(p, n) == IF n < builder[p].c THEN Width - 1 ELSE 0

Relit(p, n) ==
    LET y == builder[p].cell[2]
    IN  PropagateBlockLight(IF builder[p].remove THEN RecalcOnRemove(land[n], FacingX(p, n), y)
                                                 ELSE RecalcOnPlace(land[n], FacingX(p, n), y))

Cross(p) ==
    /\ builder[p].stage = "crossing"
    /\ \A n \in NextDoor(p) : Unheld(n)
    /\ land' = [c \in Row |-> IF c \in NextDoor(p) THEN Relit(p, c) ELSE land[c]]
    /\ relit' = relit \cup NextDoor(p)
    /\ builder' = [builder EXCEPT ![p].stage = "done"]
    /\ UNCHANGED <<packet, holder, sources, builds>>

EndBuild(p) ==
    /\ builder[p].stage = "done"
    /\ holder' = [holder EXCEPT ![ShardOf[builder[p].c]] = {}]
    /\ builder' = [builder EXCEPT ![p] = Idle0]
    /\ UNCHANGED <<land, packet, relit, sources, builds>>

(* Another client is sent the chunk.                                       *)
Serve(c) ==
    /\ Unheld(c)
    /\ Cached(c)
    /\ UNCHANGED <<land, holder, builder, sources, builds>>

Handler(p) == SendOwn(p) \/ Cross(p) \/ EndBuild(p)

LightingNext ==
    \/ \E p \in Builders : Handler(p)
    \/ \E p \in Builders, c \in Row, cell \in Cell :
        BlockBreak(p, c, cell) \/ \E kind \in Kinds : PlaceBlock(p, c, cell, kind)
    \/ \E c \in Row : Serve(c)

LightingSpec == LightingInit /\ [][LightingNext]_lighting_vars
FairLighting == LightingSpec /\ \A p \in Builders : WF_lighting_vars(Handler(p))

-----------------------------------------------------------------------------
(* Properties                                                              *)

(* Every variable has its type.                                            *)
LightingTypeOK ==
    /\ \A c \in Row :
        /\ land[c].block \in [Cell -> Kinds]
        /\ land[c].sections \subseteq {SectionOf(y) : y \in 0..Height - 1}
        /\ land[c].sky \in [Cell -> 0..MaxLight] /\ land[c].glow \in [Cell -> 0..MaxLight]
    /\ DOMAIN packet = Row
    /\ \A s \in DOMAIN holder : holder[s] \subseteq Builders
    /\ \A p \in Builders : builder[p].stage \in Stages0 /\ builder[p].c \in Row /\ builder[p].cell \in Cell
    /\ relit \subseteq Row
    /\ \A s \in sources : s[1] \in Row /\ s[2] \in Cell /\ s[3] \in 1..MaxLight
    /\ builds \in 0..MaxBuilds

Apart(a, b) ==
    LET Gap0(m, n) == IF m < n THEN n - m ELSE m - n
    IN  Gap0(a[1], b[1]) + Gap0(a[2], b[2])

(* Whatever was built, broken and lit from next door in between, a glow is *)
(* no more than what some source of that chunk gave at its distance, and   *)
(* the packet that is sent again shows the blocks as they are and the      *)
(* light as it is, but for light that came from next door afterwards.      *)
LightExplained ==
    /\ \A c \in Row, cell \in Cell : land[c].glow[cell] > 0 =>
            \E s \in sources : s[1] = c /\ land[c].glow[cell] <= s[3] - Apart(s[2], cell)
    /\ \A c \in Row : \A sent \in packet[c] :
            sent.block = land[c].block /\ (c \in relit \/ sent = Shows(c))

(* The light of a change at the border of a chunk gets to the chunk next   *)
(* door, and the handler ends (lighting.rs, "propagates light to adjacent  *)
(* chunks after a block change").                                          *)
BorderIsLit ==
    \A p \in Builders : builder[p].stage = "crossing" ~> builder[p].stage = "idle"
=============================================================================
