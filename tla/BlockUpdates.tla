---------------------------- MODULE BlockUpdates ----------------------------
(***************************************************************************)
(* How a changed block gets to the clients: the DirtyBlockTracker and the  *)
(* set dirty_chunks_broadcast (connection.rs), filled by the play loops    *)
(* and by the tick loop (main.rs, tick.rs) and read by every play loop     *)
(* when its own clock allows it (play_loop.rs).                            *)
(*                                                                         *)
(* Values of a block are numbered by the change that wrote them.  A chunk  *)
(* is its DashMap entry: get_mut keeps a guard on it, and the code that    *)
(* changes a block and marks it does both under that guard.  Players stand *)
(* still (crossing a chunk border is in ChunkStreaming); a client keeps    *)
(* every chunk near it.                                                    *)
(***************************************************************************)
EXTENDS Integers, Sequences, FiniteSets

CONSTANTS
    Players, Chunks,
    Cells,          \* the blocks of one chunk (one section)
    Near,           \* Near[pl]: the chunks within view_distance + 2 of pl
    Period,         \* a flush is tried when tick_count is a multiple of it (20)
    Interval,       \* the keep-alive interval in read timeouts (1 s / 250 ms)
    MaxSections,    \* cleanup_stale clears the tracker above it (1024)
    MaxChanges      \* bound: changes made

ASSUME UpdatesAssumption ==
    /\ Near \in [Players -> SUBSET Chunks]
    /\ {Period, Interval} \subseteq Nat \ {0}
    /\ {MaxSections, MaxChanges} \subseteq Nat

VARIABLES
    block,         \* the world: the last change of each block
    guard,         \* guard[c]: the player whose get_mut guard is on chunk c, or {}
    pending,       \* DirtyBlockTracker.pending: section -> entries <<cell, value>>
    broadcast,     \* dirty_chunks_broadcast
    client,        \* client[pl]: the blocks pl's client displays
    task,          \* task[pl]: the play loop of pl
    affected,      \* the tick loop: chunks of the explosion in progress
    overflow,      \* the tick loop has seen more than MaxSections sections
    how,           \* history: how the last change of a block is made known
    cleared,       \* history: blocks whose mark cleanup_stale dropped
    changes        \* bound

world_vars == <<block, guard, how, changes>>
tick_vars == <<affected, overflow>>
vars == <<world_vars, pending, broadcast, client, task, tick_vars, cleared>>

Block == Chunks \X Cells
ChunkOf(b) == b[1]
CellsOf(c) == {b \in Block : ChunkOf(b) = c}
Value == 0..MaxChanges
Stages == {"reading", "handled", "placing", "shown", "marking",
           "draining", "choosing", "taking", "resending"}

(* A play loop: the block it places, the sections or chunks left in its    *)
(* flush, tick_count modulo Period, the time since its last keep-alive,    *)
(* and (history) when its last flush began and which chunks were free.     *)
Reading == [stage |-> "reading", target |-> {}, todo |-> {}, count |-> 1 % Period,
            elapsed |-> 0, since |-> 0, free |-> {}]

Init ==
    /\ block = [b \in Block |-> 0]
    /\ guard = [c \in Chunks |-> {}]
    /\ pending = [c \in Chunks |-> <<>>]
    /\ broadcast = {}
    /\ client = [pl \in Players |-> block]
    /\ task = [pl \in Players |-> Reading]
    /\ affected = {}
    /\ overflow = FALSE
    /\ how = [b \in Block |-> "marked"]
    /\ cleared = {}
    /\ changes = 0

Update(pl, t) == task' = [task EXCEPT ![pl] = t]
ToStage(pl, stage) == Update(pl, [task[pl] EXCEPT !.stage = stage])

Free(c) == guard[c] = {}

(* set_block on the blocks B of one chunk.                                 *)
Change(B, kind) ==
    /\ changes < MaxChanges
    /\ changes' = changes + 1
    /\ block' = [b \in Block |-> IF b \in B THEN changes + 1 ELSE block[b]]
    /\ how' = [b \in Block |-> IF b \in B THEN kind ELSE how[b]]

(* DirtyBlockTracker::mark_block.                                          *)
Mark(b, v) ==
    /\ pending' = [pending EXCEPT ![ChunkOf(b)] = Append(@, <<b, v>>)]
    /\ cleared' = cleared \ {b}

-----------------------------------------------------------------------------
(* A player places a block (0x42): the guard is held over every step, the  *)
(* await of send_chunk_data_cached included.                               *)

Place(pl, b) ==
    /\ task[pl].stage = "reading"
    /\ Free(ChunkOf(b))
    /\ ChunkOf(b) \in Near[pl]
    /\ Change({b}, "marked")
    /\ guard' = [guard EXCEPT ![ChunkOf(b)] = {pl}]
    /\ Update(pl, [task[pl] EXCEPT !.stage = "placing", !.target = {b}])
    /\ UNCHANGED <<pending, broadcast, client, tick_vars, cleared>>

Snapshot(pl, c) ==
    client' = [client EXCEPT ![pl] = [b \in Block |->
                 IF ChunkOf(b) = c THEN block[b] ELSE @[b]]]

SendOwnChunk(pl, b) ==
    /\ task[pl].stage = "placing"
    /\ b \in task[pl].target
    /\ Snapshot(pl, ChunkOf(b))
    /\ ToStage(pl, "shown")
    /\ UNCHANGED <<world_vars, pending, broadcast, tick_vars, cleared>>

MarkChunk(pl, b) ==
    /\ task[pl].stage = "shown"
    /\ b \in task[pl].target
    /\ broadcast' = broadcast \cup {ChunkOf(b)}
    /\ ToStage(pl, "marking")
    /\ UNCHANGED <<world_vars, pending, client, tick_vars, cleared>>

MarkPlaced(pl, b) ==
    /\ task[pl].stage = "marking"
    /\ b \in task[pl].target
    /\ Mark(b, block[b])
    /\ guard' = [guard EXCEPT ![ChunkOf(b)] = {}]
    /\ Update(pl, [task[pl] EXCEPT !.stage = "handled", !.target = {}])
    /\ UNCHANGED <<block, how, changes, broadcast, client, tick_vars>>

(* Frost Walker (0x1F) and the cobwebs of a death: changed and marked      *)
(* under one guard.                                                        *)
FrostWalk(pl, b) ==
    /\ task[pl].stage = "reading"
    /\ Free(ChunkOf(b))
    /\ Change({b}, "marked")
    /\ Mark(b, changes + 1)
    /\ ToStage(pl, "handled")
    /\ UNCHANGED <<guard, broadcast, client, tick_vars>>

-----------------------------------------------------------------------------
(* The tick loop                                                           *)

ExplodeUnmarked(b) ==     \* mutant: the mark is forgotten
    /\ Free(ChunkOf(b))
    /\ Change({b}, "marked")
    /\ affected' = affected \cup {ChunkOf(b)}
    /\ UNCHANGED <<guard, pending, broadcast, client, task, overflow, cleared>>
Explode(b) ==
    /\ Free(ChunkOf(b))
    /\ Change({b}, "marked")
    /\ Mark(b, changes + 1)
    /\ affected' = affected \cup {ChunkOf(b)}
    /\ UNCHANGED <<guard, broadcast, client, task, overflow>>

EndExplosion ==
    /\ affected # {}
    /\ broadcast' = broadcast \cup affected
    /\ affected' = {}
    /\ UNCHANGED <<world_vars, pending, client, task, overflow, cleared>>

(* tick_copper_oxidation marks the chunk only.                             *)
Oxidize(c) ==
    /\ affected = {}
    /\ Free(c)
    /\ Change(CellsOf(c), "chunk")
    /\ broadcast' = broadcast \cup {c}
    /\ UNCHANGED <<guard, pending, client, task, tick_vars, cleared>>

(* Fluids, crops, pistons, falling blocks and fire mark nothing.           *)
ChangeSilently(b) ==
    /\ affected = {}
    /\ Free(ChunkOf(b))
    /\ Change({b}, "silent")
    /\ UNCHANGED <<guard, pending, broadcast, client, task, tick_vars, cleared>>

(* cleanup_stale: len() > 1024, and then clear().                          *)
SeeOverflow ==
    /\ affected = {}
    /\ ~overflow
    /\ Cardinality({c \in Chunks : pending[c] # <<>>}) > MaxSections
    /\ overflow' = TRUE
    /\ UNCHANGED <<world_vars, pending, broadcast, client, task, affected, cleared>>

ClearAll ==
    /\ overflow
    /\ overflow' = FALSE
    /\ pending' = [c \in Chunks |-> <<>>]
    /\ cleared' = {b \in Block : pending[ChunkOf(b)] # <<>>} \cup cleared
    /\ UNCHANGED <<world_vars, broadcast, client, task, affected>>

-----------------------------------------------------------------------------
(* The play loop reads a packet, or gives up after 250 ms.                 *)

Read(pl) ==
    /\ task[pl].stage = "reading"
    /\ ToStage(pl, "handled")
    /\ UNCHANGED <<world_vars, pending, broadcast, client, tick_vars, cleared>>

TimeOut(pl) ==
    /\ task[pl].stage = "reading"
    /\ Update(pl, [task[pl] EXCEPT !.stage = "handled", !.elapsed = @ + 1])
    /\ UNCHANGED <<world_vars, pending, broadcast, client, tick_vars, cleared>>

(* The top of the loop: a keep-alive is sent when the interval is over,    *)
(* and in that very iteration the tick count decides about the flush.      *)
TopUnclocked(pl) ==    \* mutant: last_keep_alive_sent is not set again
    /\ task[pl].stage = "handled"
    /\ Update(pl, [task[pl] EXCEPT !.stage = "reading", !.count = (@ + 1) % Period])
    /\ UNCHANGED <<world_vars, pending, broadcast, client, tick_vars, cleared>>
Top(pl) ==
    LET t == task[pl]
        count == (t.count + 1) % Period
    IN  /\ t.stage = "handled"
        /\ \/ /\ t.elapsed < Interval
              /\ Update(pl, [t EXCEPT !.stage = "reading", !.count = count])
           \/ /\ t.elapsed >= Interval /\ count # 0
              /\ Update(pl, [t EXCEPT !.stage = "reading", !.count = count, !.elapsed = 0])
           \/ /\ t.elapsed >= Interval /\ count = 0
              /\ Update(pl, [t EXCEPT !.stage = "draining", !.count = count, !.elapsed = 0,
                             !.todo = Near[pl], !.since = changes,
                             !.free = {c \in Chunks : Free(c)}])
        /\ UNCHANGED <<world_vars, pending, broadcast, client, tick_vars, cleared>>

-----------------------------------------------------------------------------
(* The flush                                                               *)

Marked(b) == {i \in DOMAIN pending[ChunkOf(b)] : pending[ChunkOf(b)][i][1] = b}
LastMark(b) ==
    LET i == CHOOSE i \in Marked(b) : \A j \in Marked(b) : j <= i
    IN  pending[ChunkOf(b)][i][2]

(* drain_nearby clones the entries of a section; UpdateSectionBlocks shows *)
(* them to the client, one after the other.                                *)
DrainSectionOut(pl, c) ==    \* mutant: the entries are taken out
    /\ task[pl].stage = "draining"
    /\ c \in task[pl].todo
    /\ client' = [client EXCEPT ![pl] = [b \in Block |->
                   IF ChunkOf(b) = c /\ Marked(b) # {} THEN LastMark(b) ELSE @[b]]]
    /\ pending' = [pending EXCEPT ![c] = <<>>]
    /\ Update(pl, [task[pl] EXCEPT !.todo = @ \ {c}])
    /\ UNCHANGED <<world_vars, broadcast, tick_vars, cleared>>
DrainSection(pl, c) ==
    /\ task[pl].stage = "draining"
    /\ c \in task[pl].todo
    /\ client' = [client EXCEPT ![pl] = [b \in Block |->
                   IF ChunkOf(b) = c /\ Marked(b) # {} THEN LastMark(b) ELSE @[b]]]
    /\ Update(pl, [task[pl] EXCEPT !.todo = @ \ {c}])
    /\ UNCHANGED <<world_vars, pending, broadcast, tick_vars, cleared>>

ChooseChunks(pl) ==
    /\ task[pl].stage = "draining"
    /\ task[pl].todo = {}
    /\ Update(pl, [task[pl] EXCEPT !.stage = "taking", !.todo = broadcast \cap Near[pl]])
    /\ UNCHANGED <<world_vars, pending, broadcast, client, tick_vars, cleared>>

(* The chunks are removed from the set, for every player.                  *)
TakeChunks(pl) ==
    /\ task[pl].stage = "taking"
    /\ broadcast' = broadcast \ task[pl].todo
    /\ ToStage(pl, "resending")
    /\ UNCHANGED <<world_vars, pending, client, tick_vars, cleared>>

Resend(pl, c) ==
    /\ task[pl].stage = "resending"
    /\ c \in task[pl].todo
    /\ Free(c)
    /\ Snapshot(pl, c)
    /\ Update(pl, [task[pl] EXCEPT !.todo = @ \ {c}])
    /\ UNCHANGED <<world_vars, pending, broadcast, tick_vars, cleared>>

EndFlush(pl) ==
    /\ task[pl].stage = "resending"
    /\ task[pl].todo = {}
    /\ ToStage(pl, "reading")
    /\ UNCHANGED <<world_vars, pending, broadcast, client, tick_vars, cleared>>

-----------------------------------------------------------------------------
(* The steps a play loop takes without its client.                         *)
Iterate(pl) ==
    \/ TimeOut(pl)
    \/ Top(pl)
    \/ \E b \in Block : SendOwnChunk(pl, b) \/ MarkChunk(pl, b) \/ MarkPlaced(pl, b)
    \/ \E c \in Chunks : DrainSection(pl, c) \/ Resend(pl, c)
    \/ ChooseChunks(pl) \/ TakeChunks(pl) \/ EndFlush(pl)

Next ==
    \/ \E pl \in Players :
        \/ Read(pl)
        \/ \E b \in Block : Place(pl, b) \/ FrostWalk(pl, b)
        \/ Iterate(pl)
    \/ \E b \in Block : Explode(b) \/ ChangeSilently(b)
    \/ EndExplosion
    \/ \E c \in Chunks : Oxidize(c)
    \/ SeeOverflow \/ ClearAll

Spec == Init /\ [][Next]_vars

-----------------------------------------------------------------------------
(* Properties                                                              *)

(* Every variable has its type.                                            *)
TypeOK ==
    /\ block \in [Block -> Value]
    /\ guard \in [Chunks -> SUBSET Players]
    /\ \A c \in Chunks : pending[c] \in Seq(CellsOf(c) \X Value)
    /\ broadcast \subseteq Chunks /\ affected \subseteq Chunks
    /\ client \in [Players -> [Block -> Value]]
    /\ task \in [Players -> [stage: Stages, target: SUBSET Block, todo: SUBSET Chunks,
                             count: 0..Period - 1, elapsed: 0..Interval,
                             since: Value, free: SUBSET Chunks]]
    /\ overflow \in BOOLEAN
    /\ how \in [Block -> {"marked", "chunk", "silent"}]
    /\ cleared \subseteq Block
    /\ changes \in Value

(* The last entry of a block in the tracker is the block, as long as every *)
(* change of it is marked and no one holds its chunk: marks are made in    *)
(* the order of the changes, and only cleanup_stale removes one.           *)
LastMarkIsBlock ==
    \A b \in Block :
        Free(ChunkOf(b)) /\ how[b] = "marked" /\ b \notin cleared /\ block[b] # 0
            => Marked(b) # {} /\ LastMark(b) = block[b]

(* After its flush a client displays every block near it that was marked   *)
(* when the flush began and has not changed since, whoever flushed before. *)
FlushShowsMarked ==
    \A pl \in Players : \A b \in Block :
        /\ task[pl].stage = "resending" /\ task[pl].todo = {}
        /\ ChunkOf(b) \in Near[pl] \cap task[pl].free
        /\ how[b] = "marked" /\ b \notin cleared /\ block[b] <= task[pl].since
        => client[pl][b] = block[b]

=============================================================================
