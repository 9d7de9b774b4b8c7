------------------------------- MODULE MCViews --------------------------------
(***************************************************************************)
(* What the server and its clients know of each other, in small instances  *)
(* beside each other: the chunks (ChunkStreaming) and the entities         *)
(* (EntitySync) a client is shown, and the packets it sends (Frames).      *)
(* `part` is the one that moves in a behaviour; the others stay as they    *)
(* began.                                                                  *)
(***************************************************************************)
EXTENDS ChunkStreaming, EntitySync, Frames, TLC

VARIABLE part

Row == 0..2
Line3 == 0..2
SomePayloads == {<<>>, <<1, 7, 3>>}

Symmetry == Permutations(Players) \cup Permutations(Viewers) \cup Permutations(Jobs)

ViewsInit == part \in {"chunks", "entities", "frames"} /\ StreamingInit /\ Init /\ FramesInit

ViewsNext ==
    /\ part' = part
    /\ \/ part = "chunks" /\ StreamingNext /\ UNCHANGED <<vars, frames_vars>>
       \/ part = "entities" /\ Next /\ UNCHANGED <<streaming_vars, frames_vars>>
       \/ part = "frames" /\ FramesNext /\ UNCHANGED <<streaming_vars, vars>>

ViewsSpec == ViewsInit /\ [][ViewsNext]_<<part, streaming_vars, vars, frames_vars>>

-----------------------------------------------------------------------------
(* Every variable of the three modules has its type, and the bounds those  *)
(* types state are kept.                                                   *)
ViewsTypeOK == StreamingTypeOK /\ TypeOK /\ FramesTypeOK
==============================================================================
