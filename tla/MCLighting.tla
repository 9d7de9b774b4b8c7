----------------------------- MODULE MCLighting ------------------------------
(* Two players at the border of two chunks, each in a shard of its own.    *)
EXTENDS Lighting

Pair == 0..1
OwnShards == [c \in Pair |-> c]
==============================================================================
