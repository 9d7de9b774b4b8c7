---------------------------- MODULE MCChunkStore ----------------------------
(***************************************************************************)
(* ChunkStore on small instances.  Every task inserts, or one does while   *)
(* the others only edit: what evict_lru promises of the order of eviction  *)
(* holds for one inserting task.                                           *)
(***************************************************************************)
EXTENDS ChunkStore, TLC

VARIABLE inserting

Symmetry == Permutations(Pos) \cup Permutations(Threads)
Alone == Cardinality(inserting) = 1

StoreInit == Init /\ inserting \in {Threads} \cup {{t} : t \in Threads}
StoreNext ==
    /\ \/ \E t \in inserting : Step(t)
       \/ \E p \in Pos : SetBlock(p)
       \/ \E p \in Pos : ~Alone /\ Unload(p)
    /\ UNCHANGED inserting
StoreSpec == StoreInit /\ [][StoreNext]_<<vars, inserting>>

-----------------------------------------------------------------------------
(* One inserting task flushes a dirty chunk only when no clean chunk is    *)
(* left, whatever is edited between its two phases; and what it evicts in  *)
(* phase 1 is older than every clean chunk that stays, whatever is touched *)
(* between choosing and removing.                                          *)
EvictsInOrder == [][Alone => CleanFirst' /\ OldestGoes]_<<vars, inserting>>
=============================================================================
