----------------------------- MODULE MCLiveness ------------------------------
(***************************************************************************)
(* What must happen in the end: the loader of ChunkStreaming and the       *)
(* events of EntitySync, on small instances beside each other.  `part` is  *)
(* the one that moves in a behaviour; the other stays as it began.         *)
(***************************************************************************)
EXTENDS ChunkStreaming, Sequences, TLC

CONSTANTS Watchers, Places, Origin, PlayerRange, Capacity, MaxJoins, MaxWalks

VARIABLES part, visit, position, mob, queue, lagged, known, displayed, lost, told, joins, walks

sync_vars == <<visit, position, mob, queue, lagged, known, displayed, lost, told, joins, walks>>

Sync == INSTANCE EntitySync WITH
    Players <- Watchers, Mobs <- {}, Positions <- Places, MobRange <- 0, MaxMoves <- MaxWalks,
    session <- visit, shown <- displayed, moves <- walks

Row == 0..2
Line == 0..1

LiveInit == part \in {"chunks", "entities"} /\ StreamingInit /\ Sync!Init

LiveNext ==
    \/ part = "chunks" /\ StreamingNext /\ UNCHANGED <<part, sync_vars>>
    \/ part = "entities" /\ Sync!Next /\ UNCHANGED <<part, streaming_vars>>

(* The fairness of both modules, each for the part that moves.             *)
LiveSpec ==
    /\ LiveInit /\ [][LiveNext]_<<part, streaming_vars, sync_vars>>
    /\ WF_streaming_vars(part = "chunks" /\ Request)
    /\ WF_streaming_vars(part = "chunks" /\ Enqueue)
    /\ WF_streaming_vars(part = "chunks" /\ Drain)
    /\ \A j \in Jobs : WF_streaming_vars(part = "chunks" /\ Work(j))
    /\ \A pl \in Viewers : WF_streaming_vars(part = "chunks" /\ Proceed(pl))
    /\ \A pl \in Watchers : WF_sync_vars(part = "entities" /\ Sync!Iterate(pl))

-----------------------------------------------------------------------------
(* An entity that went while a client knew it is removed from that client  *)
(* in the end, unless its receiver lagged or the client left.              *)
GoneDisappears == Sync!GoneDisappears
==============================================================================
