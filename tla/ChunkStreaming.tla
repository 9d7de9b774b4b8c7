--------------------------- MODULE ChunkStreaming ---------------------------
(***************************************************************************)
(* How chunks reach the store and the clients: the spawn area a joining    *)
(* player generates (connection.rs, handle_play), the chunks a moving      *)
(* player streams (stream_new_chunks), and the background loader that the  *)
(* tick loop feeds (mc-server/src/async_chunk.rs).  All of them insert     *)
(* freshly generated chunks into one store that players edit.              *)
(*                                                                         *)
(* The world is one row of chunk positions inside one Anvil region.  A     *)
(* chunk is the set of edits it holds: it is dirty when it holds any.      *)
(* The LRU eviction of the store is in ChunkStore and does not happen      *)
(* here (the store is below max_chunks).  Each step is one access to the   *)
(* shared store or one .await of a connection task.                        *)
(***************************************************************************)
EXTENDS Integers, FiniteSets

CONSTANTS
    ChunkPositions,  \* a finite set of integers
    Viewers,       \* players
    Jobs,          \* bound: blocking tasks of the loader at the same time
    Spawn,         \* the chunk where players join
    MaxView,       \* max_view_distance
    MinView,       \* the smallest dynamic view distance (4 in the program)
    Ahead,         \* chunks loaded beyond the view distance (2)
    SendLimit,     \* MAX_CHUNKS_PER_SEND (6)
    BatchSize,     \* positions handed to one loader job (32)
    Near, Mid,     \* distances of the priorities (2 and 6)
    MaxEdits,      \* bound: edits made at one position
    MaxCrossings   \* bound: joins and chunk crossings together

ASSUME StreamingAssumption ==
    /\ ChunkPositions \subseteq Int /\ IsFiniteSet(ChunkPositions) /\ Spawn \in ChunkPositions
    /\ {Ahead, Near, Mid, MaxEdits, MaxCrossings} \subseteq Nat
    /\ {MaxView, MinView, SendLimit, BatchSize} \subseteq Nat \ {0}

VARIABLES
    store,       \* the chunks in the store: position -> the edits it holds
    region,      \* region[p]: the edits of p in the region file
    connection,  \* connection[pl]: the connection task of pl
    held,        \* held[pl]: the chunks pl's client holds
    needed,      \* the positions of a spawned enqueue task, with priorities
    pending,     \* AsyncChunkBridge.pending
    job,         \* job[j]: a blocking task of the loader
    completed,   \* AsyncChunkBridge.completed (every chunk in it is pristine)
    draining,    \* the keys drain_completed has still to install
    edits,       \* edits[p]: edits made at p
    exposed,     \* history: edits that met one of the windows named below
    crossings    \* bound: joins and crossings so far

store_vars  == <<store, region, edits, exposed>>
loader_vars == <<needed, pending, job, completed, draining>>
streaming_vars == <<store_vars, connection, held, loader_vars, crossings>>

Edit == 1..MaxEdits
Queued == [pos: ChunkPositions, priority: 0..2]
StreamingStages == {"away", "spawning", "entering", "playing", "sending", "forgetting"}
Away == [stage |-> "away", at |-> Spawn, center |-> Spawn, radius |-> MaxView,
         loaded |-> {}, todo |-> {}, streamed |-> FALSE]

ChunkDistance(p, q) == IF p < q THEN q - p ELSE p - q
Larger(a, b) == IF a < b THEN b ELSE a
View(c, r) == {p \in ChunkPositions : ChunkDistance(p, c) <= r}

Loaded == DOMAIN store
Content(p) == IF p \in Loaded THEN store[p] ELSE {}

(* The players PlayerManager knows.                                        *)
Online == {pl \in Viewers : connection[pl].stage \notin {"away", "spawning"}}

(* The more players online, the smaller the view.                          *)
UnclampedView == IF Cardinality(Online) <= 1 THEN MaxView ELSE MaxView - 2  \* mutant
EffectiveView ==
    LET online == Cardinality(Online)
    IN  IF online <= 1 THEN MaxView
        ELSE IF online <= 3 THEN Larger(MaxView - 1, MinView)
        ELSE IF online <= 6 THEN Larger(MaxView - 2, MinView)
        ELSE Larger(MaxView - 3, MinView)

StreamingInit ==
    /\ store = [p \in {} |-> {}]
    /\ region = [p \in ChunkPositions |-> {}]
    /\ connection = [pl \in Viewers |-> Away]
    /\ held = [pl \in Viewers |-> {}]
    /\ needed = {}
    /\ pending = {}
    /\ job = [j \in Jobs |-> {}]
    /\ completed = {}
    /\ draining = {}
    /\ edits = [p \in ChunkPositions |-> 0]
    /\ exposed = [p \in ChunkPositions |-> {}]
    /\ crossings = 0

SetConnection(pl, s) == connection' = [connection EXCEPT ![pl] = s]

(* chunk_store.insert of generated chunks: what was there is gone.         *)
InsertPristine(P) ==
    /\ store' = [p \in Loaded \cup P |-> IF p \in P THEN {} ELSE store[p]]
    /\ exposed' = [p \in ChunkPositions |->
                     IF p \in P THEN exposed[p] \cup Content(p) ELSE exposed[p]]
    /\ UNCHANGED <<region, edits>>

-----------------------------------------------------------------------------
(* Joining: handle_play                                                    *)

BeginJoin(pl) ==
    /\ connection[pl].stage = "away"
    /\ crossings < MaxCrossings
    /\ crossings' = crossings + 1
    /\ SetConnection(pl, [Away EXCEPT !.stage = "spawning",
                                      !.todo = View(Spawn, EffectiveView)])
    /\ UNCHANGED <<store_vars, held, loader_vars>>

InsertSpawnChunk(pl, p) ==
    /\ connection[pl].stage = "spawning"
    /\ p \in connection[pl].todo
    /\ InsertPristine({p})
    /\ SetConnection(pl, [connection[pl] EXCEPT !.todo = @ \ {p}, !.loaded = @ \cup {p}])
    /\ UNCHANGED <<held, loader_vars, crossings>>

(* add_player, and the saved position (any) if there is one.               *)
RegisterPlayer(pl) ==
    /\ connection[pl].stage = "spawning"
    /\ connection[pl].todo = {}
    /\ \E c \in ChunkPositions :
        SetConnection(pl, [connection[pl] EXCEPT !.stage = "entering", !.at = c,
                                                 !.todo = connection[pl].loaded])
    /\ UNCHANGED <<store_vars, held, loader_vars, crossings>>

SendSpawnChunk(pl, p) ==
    /\ connection[pl].stage = "entering"
    /\ p \in connection[pl].todo
    /\ held' = [held EXCEPT ![pl] = @ \cup {p}]
    /\ SetConnection(pl, [connection[pl] EXCEPT !.todo = @ \ {p}])
    /\ UNCHANGED <<store_vars, loader_vars, crossings>>

(* play_loop takes its view radius once, and the origin as player_chunk.   *)
EnterPlay(pl) ==
    /\ connection[pl].stage = "entering"
    /\ connection[pl].todo = {}
    /\ SetConnection(pl, [connection[pl] EXCEPT !.stage = "playing", !.radius = EffectiveView])
    /\ UNCHANGED <<store_vars, held, loader_vars, crossings>>

(* The connection ends: rejected because the server is full, broken while  *)
(* the chunks are sent, or closed in play.  No chunk is unloaded.          *)
Leave(pl) ==
    /\ \/ connection[pl].stage = "spawning" /\ connection[pl].todo = {}
       \/ connection[pl].stage \in {"entering", "playing"}
    /\ SetConnection(pl, Away)
    /\ held' = [held EXCEPT ![pl] = {}]
    /\ UNCHANGED <<store_vars, loader_vars, crossings>>

-----------------------------------------------------------------------------
(* Moving: stream_new_chunks                                               *)

NewChunks(pl, c) == View(c, connection[pl].radius) \ connection[pl].loaded

(* The chunks of one crossing that are sent: the SendLimit nearest ones.   *)
NearestSends(c, new, S) ==
    /\ Cardinality(S) = IF Cardinality(new) < SendLimit THEN Cardinality(new)
                                                        ELSE SendLimit
    /\ \A p \in S, q \in new \ S : ChunkDistance(p, c) <= ChunkDistance(q, c)

(* One chunk beyond the view, in the direction of the crossing.            *)
Predicted(pl, c) ==
    LET step == (connection[pl].radius + 1) *
                IF c > connection[pl].center THEN 1 ELSE -1
    IN  IF NewChunks(pl, c) = {} THEN {}
        ELSE ({c + step} \cap ChunkPositions) \ connection[pl].loaded

(* A movement packet that stays in the chunk streams nothing.              *)
Arrive(pl, c) ==
    /\ connection[pl].stage = "playing"
    /\ c = connection[pl].center
    /\ c # connection[pl].at
    /\ crossings < MaxCrossings
    /\ crossings' = crossings + 1
    /\ SetConnection(pl, [connection[pl] EXCEPT !.at = c])
    /\ UNCHANGED <<store_vars, held, loader_vars>>

Cross(pl, c) ==
    /\ connection[pl].stage = "playing"
    /\ c # connection[pl].center
    /\ crossings < MaxCrossings
    /\ crossings' = crossings + 1
    /\ InsertPristine(Predicted(pl, c))
    /\ \E S \in SUBSET NewChunks(pl, c) :
        /\ NearestSends(c, NewChunks(pl, c), S)
        /\ SetConnection(pl, [connection[pl] EXCEPT !.stage = "sending", !.at = c,
                                                    !.center = c, !.todo = S])
    /\ UNCHANGED <<held, loader_vars>>

(* The chunk sent is generated anew, and then stored.                      *)
SendChunk(pl, p) ==
    LET s == connection[pl]
    IN  /\ s.stage = "sending"
        /\ p \in s.todo
        /\ \A q \in s.todo : ChunkDistance(p, s.center) <= ChunkDistance(q, s.center)
        /\ held' = [held EXCEPT ![pl] = @ \cup {p}]
        /\ InsertPristine({p})
        /\ SetConnection(pl, [s EXCEPT !.todo = @ \ {p}])
        /\ UNCHANGED <<loader_vars, crossings>>

Evicted(pl) == connection[pl].loaded \ View(connection[pl].center, connection[pl].radius)

(* write_region creates the file anew with the given chunks only.          *)
Rewritten(saved) == [p \in ChunkPositions |-> IF p \in saved THEN store[p] ELSE {}]

CleanEvicted(pl) == {p \in Evicted(pl) \cap Loaded : store[p] = {}}    \* mutant
DirtyEvicted(pl) == {p \in Evicted(pl) \cap Loaded : store[p] # {}}

(* The dirty chunks that leave the view are cloned and written, or the     *)
(* write fails, before or after the file was created.                      *)
SaveEvicted(pl) ==
    LET dirty == DirtyEvicted(pl)
    IN  /\ connection[pl].stage = "sending"
        /\ connection[pl].todo = {}
        /\ \/ dirty = {} /\ region' = region
           \/ dirty # {} /\ region' = Rewritten(dirty)
           \/ dirty # {} /\ region' = Rewritten({})
           \/ dirty # {} /\ region' = region
        /\ exposed' = [p \in ChunkPositions |->
             exposed[p] \cup ((region[p] \cup IF p \in dirty THEN store[p] ELSE {})
                                \ region'[p])]
        /\ SetConnection(pl, [connection[pl] EXCEPT !.stage = "forgetting",
                                                    !.todo = Evicted(pl)])
        /\ UNCHANGED <<store, edits, held, loader_vars, crossings>>

(* ForgetLevelChunk, and the chunk is removed whoever else sees it.        *)
Kept(pl, p) == held[pl]    \* mutant
Forgotten(pl, p) == held[pl] \ {p}

Forget(pl, p) ==
    /\ connection[pl].stage = "forgetting"
    /\ p \in connection[pl].todo
    /\ held' = [held EXCEPT ![pl] = Forgotten(pl, p)]
    /\ store' = [q \in Loaded \ {p} |-> store[q]]
    /\ SetConnection(pl, [connection[pl] EXCEPT !.todo = @ \ {p}])
    /\ UNCHANGED <<region, edits, exposed, loader_vars, crossings>>

(* Every new chunk is marked loaded, the deferred ones too.                *)
Tracked(s) == View(s.center, s.radius)

FinishCrossing(pl) ==
    /\ connection[pl].stage = "forgetting"
    /\ connection[pl].todo = {}
    /\ SetConnection(pl, [connection[pl] EXCEPT !.stage = "playing", !.streamed = TRUE,
                                                !.loaded = Tracked(connection[pl])])
    /\ UNCHANGED <<store_vars, held, loader_vars, crossings>>

-----------------------------------------------------------------------------
(* The background loader                                                   *)

Priority(d) == IF d <= Near THEN 2 ELSE IF d <= Mid THEN 1 ELSE 0

NeededInView(pl) ==    \* mutant: nothing is loaded ahead
    {[pos |-> p, priority |-> Priority(ChunkDistance(p, connection[pl].at))] :
        p \in View(connection[pl].at, MaxView)}
NeededBy(pl) ==
    {[pos |-> p, priority |-> Priority(ChunkDistance(p, connection[pl].at))] :
        p \in View(connection[pl].at, MaxView + Ahead)}

(* Every tenth tick a task is spawned with the positions players need.     *)
Request ==
    /\ draining = {}
    /\ needed = {}
    /\ needed' = UNION {NeededBy(pl) : pl \in Online}
    /\ needed' # {}
    /\ UNCHANGED <<store_vars, connection, held, pending, job, completed, draining, crossings>>

(* The first entry for a position counts, whichever player it came from.   *)
Fresh(S) ==
    /\ S \subseteq needed
    /\ \A x, y \in S : x.pos = y.pos => x = y
    /\ {x.pos : x \in S}
         = {x.pos : x \in needed} \ (Loaded \cup {x.pos : x \in pending})

(* The batch holds the highest priorities.                                 *)
Batch(B, queue) ==
    /\ B \subseteq queue
    /\ Cardinality(B) = IF Cardinality(queue) < BatchSize THEN Cardinality(queue)
                                                          ELSE BatchSize
    /\ \A x \in B, y \in queue \ B : y.priority <= x.priority

Slot(p, made) == [pos |-> p, made |-> made]

Enqueue ==
    /\ needed # {}
    /\ needed' = {}
    /\ \E S \in SUBSET needed :
        /\ Fresh(S)
        /\ \E B \in SUBSET (pending \cup S) :
            /\ Batch(B, pending \cup S)
            /\ pending' = (pending \cup S) \ B
            /\ \/ B = {} /\ job' = job
               \/ /\ B # {}
                  /\ \E j \in Jobs :
                      /\ job[j] = {}
                      /\ job' = [job EXCEPT ![j] = {Slot(x.pos, FALSE) : x \in B}]
    /\ UNCHANGED <<store_vars, connection, held, completed, draining, crossings>>

(* par_iter: a position already in the store is skipped, any other is      *)
(* generated (a Linear file reads back without its edits).                 *)
Generate(j, p) ==
    /\ Slot(p, FALSE) \in job[j]
    /\ job' = [job EXCEPT ![j] = (@ \ {Slot(p, FALSE)}) \cup
                 IF p \in Loaded THEN {} ELSE {Slot(p, TRUE)}]
    /\ UNCHANGED <<store_vars, connection, held, needed, pending, completed, draining, crossings>>

(* The job publishes its chunks when all of them are generated.            *)
CompleteJob(j, p) ==
    /\ Slot(p, TRUE) \in job[j]
    /\ \A x \in job[j] : x.made
    /\ job' = [job EXCEPT ![j] = @ \ {Slot(p, TRUE)}]
    /\ completed' = completed \cup {p}
    /\ UNCHANGED <<store_vars, connection, held, needed, pending, draining, crossings>>

(* drain_completed, at the start of every tick.                            *)
DrainCompleted ==
    /\ draining = {}
    /\ completed # {}
    /\ draining' = completed
    /\ UNCHANGED <<store_vars, connection, held, needed, pending, job, completed, crossings>>

Install(p) ==
    /\ p \in draining
    /\ draining' = draining \ {p}
    /\ completed' = completed \ {p}
    /\ InsertPristine({p})
    /\ UNCHANGED <<connection, held, needed, pending, job, crossings>>

-----------------------------------------------------------------------------
(* A player with the chunk on screen changes a block of it: get_mut and    *)
(* set_block.  Without the chunk in the store the packet has no effect.    *)
SetBlock(p) ==
    /\ p \in Loaded
    /\ \E pl \in Viewers : connection[pl].stage = "playing" /\ p \in held[pl]
    /\ edits[p] < MaxEdits
    /\ LET e == edits[p] + 1
       IN  /\ edits' = [edits EXCEPT ![p] = e]
           /\ store' = [store EXCEPT ![p] = @ \cup {e}]
           /\ exposed' = [exposed EXCEPT ![p] =
                IF \E pl \in Viewers : connection[pl].stage = "forgetting"
                                       /\ p \in connection[pl].todo
                THEN @ \cup {e} ELSE @]
    /\ UNCHANGED <<region, connection, held, loader_vars, crossings>>

-----------------------------------------------------------------------------
(* The steps a connection takes without its client.                        *)
Proceed(pl) ==
    \/ \E p \in ChunkPositions :
        \/ InsertSpawnChunk(pl, p)
        \/ SendSpawnChunk(pl, p)
        \/ SendChunk(pl, p)
        \/ Forget(pl, p)
    \/ RegisterPlayer(pl)
    \/ EnterPlay(pl)
    \/ SaveEvicted(pl)
    \/ FinishCrossing(pl)

Work(j) == \E p \in ChunkPositions : Generate(j, p) \/ CompleteJob(j, p)
Drain == DrainCompleted \/ \E p \in ChunkPositions : Install(p)

StreamingNext ==
    \/ \E pl \in Viewers :
        \/ BeginJoin(pl)
        \/ Leave(pl)
        \/ \E c \in ChunkPositions : Arrive(pl, c) \/ Cross(pl, c)
        \/ Proceed(pl)
    \/ Request
    \/ Enqueue
    \/ \E j \in Jobs : Work(j)
    \/ Drain
    \/ \E p \in ChunkPositions : SetBlock(p)

StreamingSpec == StreamingInit /\ [][StreamingNext]_streaming_vars

(* The tick loop, the task it spawns, the blocking pool and a connection   *)
(* task run on: tokio polls every ready task.                              *)
FairStreaming ==
    /\ StreamingSpec
    /\ WF_streaming_vars(Request) /\ WF_streaming_vars(Enqueue) /\ WF_streaming_vars(Drain)
    /\ \A j \in Jobs : WF_streaming_vars(Work(j))
    /\ \A pl \in Viewers : WF_streaming_vars(Proceed(pl))

-----------------------------------------------------------------------------
(* Properties                                                              *)

(* Every variable has its type.                                            *)
StreamingTypeOK ==
    /\ Loaded \subseteq ChunkPositions /\ store \in [Loaded -> SUBSET Edit]
    /\ region \in [ChunkPositions -> SUBSET Edit]
    /\ connection \in [Viewers -> [stage: StreamingStages, at: ChunkPositions, center: ChunkPositions,
                                   radius: {MaxView} \cup (MinView..Larger(MaxView, MinView)),
                                   loaded: SUBSET ChunkPositions,
                                   todo: SUBSET ChunkPositions, streamed: BOOLEAN]]
    /\ held \in [Viewers -> SUBSET ChunkPositions]
    /\ needed \in SUBSET Queued
    /\ pending \in SUBSET Queued
    /\ job \in [Jobs -> SUBSET [pos: ChunkPositions, made: BOOLEAN]]
    /\ completed \in SUBSET ChunkPositions
    /\ draining \in SUBSET completed
    /\ edits \in [ChunkPositions -> 0..MaxEdits]
    /\ exposed \in [ChunkPositions -> SUBSET Edit]
    /\ crossings \in 0..MaxCrossings

(* A player's edit is in the store or in the region file, unless a         *)
(* generated chunk replaced it, the region was written without it, its     *)
(* save failed, or it was made while its chunk was being forgotten: no     *)
(* other interleaving of joins, crossings and the loader loses one.        *)
EditsAccountedFor ==
    \A p \in ChunkPositions : \A e \in 1..edits[p] :
        e \in Content(p) \cup region[p] \cup exposed[p]

(* Between two crossings, loaded_chunks is exactly the view of the chunk   *)
(* the player is in, however the crossings and their evictions overlap     *)
(* those of other players (stream_new_chunks).                             *)
TrackerIsView ==
    \A pl \in Viewers :
        connection[pl].stage = "playing" /\ connection[pl].streamed
            => connection[pl].loaded = View(connection[pl].center, connection[pl].radius)

(* A client in play never keeps a chunk that the server no longer tracks   *)
(* for it (every eviction sends ForgetLevelChunk).                         *)
ClientForgets ==
    \A pl \in Viewers :
        connection[pl].stage = "playing" => held[pl] \subseteq connection[pl].loaded

(* The server's list of what a client holds is right: it is the view when  *)
(* the player has crossed a border, and covers the client's chunks.        *)
ViewsAgree == TrackerIsView /\ ClientForgets

(* When the players stop moving, every chunk within their view and the     *)
(* margin ahead of it gets into the store and stays: the loader neither    *)
(* forgets a queued position nor starves it behind nearer ones.            *)
NeededArrives ==
    <>[](\A pl \in Online :
            View(connection[pl].at, MaxView + Ahead) \subseteq Loaded)

=============================================================================
