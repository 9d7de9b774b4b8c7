----------------------------- MODULE MCChunkFile -----------------------------
(* A chunk and its file on a small instance.                               *)
EXTENDS ChunkFile

OneWet == {[id |-> i, props |-> 0] : i \in 0..3} \cup {[id |-> 1, props |-> 1]}
==============================================================================
