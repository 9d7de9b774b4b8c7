--------------------------- MODULE MCPlayerShards ---------------------------
(* PlayerShards on a small instance: two players whose entries share a shard. *)
EXTENDS PlayerShards, TLC

OneShard == [p \in Players |-> "shard"]
=============================================================================
