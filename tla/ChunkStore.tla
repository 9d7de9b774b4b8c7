----------------------------- MODULE ChunkStore -----------------------------
(***************************************************************************)
(* The in-memory chunk store of the server, crates/mc-world/src/           *)
(* chunk_store.rs: a DashMap of chunks shared by every connection task and *)
(* the tick loop, an AtomicUsize that counts them, and the LRU eviction    *)
(* that `insert` runs when the count passes max_chunks.                    *)
(*                                                                         *)
(* The map locks one shard at a time, so each map or counter access is one *)
(* step and everything between two of them can interleave with the other   *)
(* tasks.  A chunk's content is the set of player edits it holds; blocks,  *)
(* light and biomes are not told apart.  A chunk that is generated holds   *)
(* no edit, and neither does one read back from a Linear file:             *)
(* deserialize_chunk_binary takes the bytes of the position, which the     *)
(* writer puts first, for the number of sections.  So every inserted chunk *)
(* is clean and empty of edits.                                            *)
(***************************************************************************)
EXTENDS Integers, FiniteSets

CONSTANTS
    Pos,         \* chunk positions
    Threads,     \* tasks that call insert at the same time
    MaxChunks,   \* max_chunks
    MaxEdits,    \* bound: block edits made at one position
    MaxUnloads,  \* bound: calls of remove
    UsizeRange,  \* the counter is read modulo this (2^64 in the program)
    NoChunk      \* the map has no entry

ASSUME StoreAssumption ==
    /\ IsFiniteSet(Pos)
    /\ IsFiniteSet(Threads)
    /\ MaxChunks \in Nat \ {0}
    /\ MaxEdits \in Nat
    /\ MaxUnloads \in Nat
    /\ UsizeRange \in Nat \ {0}
    /\ NoChunk \notin Pos
    /\ NoChunk \notin [edits: SUBSET (1..MaxEdits), dirty: BOOLEAN]

(* 2^64 is more than all the chunks, tasks and unloads there can be.       *)
ASSUME RangeAssumption ==
    Cardinality(Pos) + Cardinality(Threads) + MaxUnloads < UsizeRange

VARIABLES
    chunks,      \* DashMap<ChunkPos, Chunk>
    lru,         \* lru[p]: the loaded positions whose lru_order is below p's
    count,       \* the AtomicUsize: additions minus subtractions
    disk,        \* disk[p]: the edits held by p's Linear file
    thread,      \* thread[t]: where t is inside insert
    edits,       \* edits[p]: how many edits players made at p
    exposed,     \* history: edits that met one of the windows named below
    leaked       \* history: chunks taken out of the map but still counted

vars == <<chunks, lru, count, disk, thread, edits, exposed, leaked>>

Edit == 1..MaxEdits

Chunk == [edits: SUBSET Edit, dirty: BOOLEAN]

(* insert counts the new key, compares, then evicts clean victims and, if  *)
(* still needed, flushes dirty ones; "uncount" is the fetch_sub that       *)
(* follows a remove.                                                       *)
Stage == {"idle", "count", "check", "pickClean", "evictClean",
          "pickDirty", "clone", "write", "evictDirty", "uncount"}

Thread == [stage: Stage,
           then: {"evictClean", "clone"},     \* where uncount returns to
           need: Nat,                         \* chunks still to evict
           victims: SUBSET Pos,               \* candidates.iter().take(n)
           victim: Pos \cup {NoChunk},        \* the candidate in hand
           held: SUBSET Edit]                 \* the clone being written

Idle == [stage |-> "idle", then |-> "evictClean", need |-> 0,
         victims |-> {}, victim |-> NoChunk, held |-> {}]

Loaded == {p \in Pos : chunks[p] # NoChunk}

AnyLoaded == Loaded    \* mutant of Clean: the dirty flag is not looked at
Clean == {p \in Loaded : ~chunks[p].dirty}
Dirty == {p \in Loaded : chunks[p].dirty}

(* The edits that p's chunk in memory holds.                                *)
Content(p) == IF p \in Loaded THEN chunks[p].edits ELSE {}

(* The n members of S with the lowest lru_order.                           *)
Newest(S, n) == {p \in S : Cardinality({q \in S : p \in lru[q]}) < n}  \* mutant
Oldest(S, n) == {p \in S : Cardinality(lru[p] \cap S) < n}

Becomes(t, r) == thread' = [thread EXCEPT ![t] = r]

Init ==
    /\ chunks = [p \in Pos |-> NoChunk]
    /\ lru = [p \in Pos |-> {}]
    /\ count = 0
    /\ disk = [p \in Pos |-> {}]
    /\ thread = [t \in Threads |-> Idle]
    /\ edits = [p \in Pos |-> 0]
    /\ exposed = [p \in Pos |-> {}]
    /\ leaked = 0

-----------------------------------------------------------------------------
(* lru_order                                                               *)

(* touch: p gets the highest stamp.                                        *)
Touch(p) ==
    lru' = [q \in Pos |-> IF q = p THEN Loaded \ {p} ELSE lru[q] \ {p}]

(* Chunk::new drew the stamp when the chunk was generated, which may be    *)
(* long before it is inserted: the chunks older than it are any prefix.    *)
Stamp(p) ==
    \E older \in SUBSET (Loaded \ {p}) :
        /\ \A q \in older : lru[q] \ {p} \subseteq older
        /\ lru' = [q \in Pos |->
                     IF q = p THEN older
                     ELSE IF q \in older \/ q \notin Loaded THEN lru[q] \ {p}
                     ELSE lru[q] \cup {p}]

Unstamp(p) == lru' = [q \in Pos |-> IF q = p THEN {} ELSE lru[q] \ {p}]

-----------------------------------------------------------------------------
(* insert                                                                  *)

(* Only a key that was not in the map is counted.                          *)
CountEveryInsert(p) == "count"    \* mutant
AfterInsert(p) == IF p \in Loaded THEN "check" ELSE "count"

(* chunks.insert(pos, chunk): replaces whatever is there.                  *)
InsertChunk(t, p) ==
    /\ thread[t].stage = "idle"
    /\ chunks' = [chunks EXCEPT ![p] = [edits |-> {}, dirty |-> FALSE]]
    /\ Stamp(p)
    /\ Becomes(t, [thread[t] EXCEPT !.stage = AfterInsert(p)])
    /\ exposed' = [exposed EXCEPT ![p] = @ \cup Content(p)]
    /\ UNCHANGED <<count, disk, edits, leaked>>

(* count.fetch_add(1): the key was new.                                    *)
CountInserted(t) ==
    /\ thread[t].stage = "count"
    /\ count' = count + 1
    /\ Becomes(t, [thread[t] EXCEPT !.stage = "check"])
    /\ UNCHANGED <<chunks, lru, disk, edits, exposed, leaked>>

(* What count.load() returns: fetch_sub wraps below zero.                  *)
Current == count % UsizeRange

(* How many chunks insert asks evict_lru to take out.                      *)
ExcessLate == IF Current > MaxChunks + 1 THEN Current - MaxChunks ELSE 0     \* mutant
Excess == IF Current > MaxChunks THEN Current - MaxChunks ELSE 0

(* Clean chunks go first.                                                  *)
FirstPhase == "pickClean"

(* count.load(), and evict_lru(current - max_chunks) if it is too high.    *)
CheckCapacity(t) ==
    /\ thread[t].stage = "check"
    /\ Becomes(t, IF Excess > 0
                  THEN [Idle EXCEPT !.stage = FirstPhase, !.need = Excess]
                  ELSE Idle)
    /\ UNCHANGED <<chunks, lru, count, disk, edits, exposed, leaked>>

-----------------------------------------------------------------------------
(* evict_lru, phase 1: clean chunks                                        *)

Greater(a, b) == IF a < b THEN b ELSE a    \* mutant
Lesser(a, b) == IF a < b THEN a ELSE b

(* The candidates are a snapshot: nothing keeps them clean afterwards.     *)
PickClean(t) ==
    /\ thread[t].stage = "pickClean"
    /\ LET n == Lesser(thread[t].need, Cardinality(Clean))
       IN  Becomes(t, [thread[t] EXCEPT !.stage = "evictClean",
                                        !.victims = Oldest(Clean, n),
                                        !.need = @ - n])
    /\ UNCHANGED <<chunks, lru, count, disk, edits, exposed, leaked>>

(* chunks.remove(key): only a chunk that was still there is uncounted.     *)
Remove(t, p, after) ==
    /\ chunks' = [chunks EXCEPT ![p] = NoChunk]
    /\ Unstamp(p)
    /\ Becomes(t, [thread[t] EXCEPT
                     !.victims = @ \ {p},
                     !.victim = NoChunk,
                     !.held = {},
                     !.then = after,
                     !.stage = IF p \in Loaded THEN "uncount" ELSE after])

EvictClean(t) ==
    /\ thread[t].stage = "evictClean"
    /\ \E p \in thread[t].victims : Remove(t, p, "evictClean")
    /\ UNCHANGED <<count, disk, edits, exposed, leaked>>

(* count.fetch_sub(1).                                                     *)
Uncount(t) ==
    /\ thread[t].stage = "uncount"
    /\ count' = count - 1
    /\ Becomes(t, [thread[t] EXCEPT !.stage = thread[t].then])
    /\ UNCHANGED <<chunks, lru, disk, edits, exposed, leaked>>

CleanPhaseDone(t) ==
    /\ thread[t].stage = "evictClean"
    /\ thread[t].victims = {}
    /\ Becomes(t, IF thread[t].need > 0
                  THEN [thread[t] EXCEPT !.stage = "pickDirty"]
                  ELSE Idle)
    /\ UNCHANGED <<chunks, lru, count, disk, edits, exposed, leaked>>

-----------------------------------------------------------------------------
(* evict_lru, phase 2: flush_dirty_lru                                     *)

PickDirty(t) ==
    /\ thread[t].stage = "pickDirty"
    /\ LET n == Lesser(thread[t].need, Cardinality(Dirty))
       IN  Becomes(t, [thread[t] EXCEPT !.stage = "clone",
                                        !.victims = Oldest(Dirty, n),
                                        !.need = 0])
    /\ UNCHANGED <<chunks, lru, count, disk, edits, exposed, leaked>>

(* chunks.get(key).map(clone): a chunk already gone is not written.        *)
CloneVictim(t) ==
    /\ thread[t].stage = "clone"
    /\ \E p \in thread[t].victims :
        Becomes(t, [thread[t] EXCEPT
            !.victim = p,
            !.held = Content(p),
            !.stage = IF p \in Loaded THEN "write" ELSE "evictDirty"])
    /\ UNCHANGED <<chunks, lru, count, disk, edits, exposed, leaked>>

(* save_chunk_linear succeeds: the file holds the clone and nothing else.  *)
WriteVictim(t) ==
    /\ thread[t].stage = "write"
    /\ LET p == thread[t].victim
       IN  /\ disk' = [disk EXCEPT ![p] = thread[t].held]
           /\ exposed' = [exposed EXCEPT ![p] =
                            @ \cup (disk[p] \ thread[t].held)]
    /\ Becomes(t, [thread[t] EXCEPT !.stage = "evictDirty"])
    /\ UNCHANGED <<chunks, lru, count, edits, leaked>>

(* save_chunk_linear fails, before or after File::create truncated the     *)
(* file; the chunk is evicted all the same.                                *)
WriteVictimFails(t) ==
    /\ thread[t].stage = "write"
    /\ LET p == thread[t].victim
       IN  /\ \/ disk' = disk
              \/ disk' = [disk EXCEPT ![p] = {}]
           /\ exposed' = [exposed EXCEPT ![p] =
                            @ \cup thread[t].held \cup disk[p]]
    /\ Becomes(t, [thread[t] EXCEPT !.stage = "evictDirty"])
    /\ UNCHANGED <<chunks, lru, count, edits, leaked>>

EvictDirty(t) ==
    /\ thread[t].stage = "evictDirty"
    /\ Remove(t, thread[t].victim, "clone")
    /\ UNCHANGED <<count, disk, edits, exposed, leaked>>

DirtyPhaseDone(t) ==
    /\ thread[t].stage = "clone"
    /\ thread[t].victims = {}
    /\ Becomes(t, Idle)
    /\ UNCHANGED <<chunks, lru, count, disk, edits, exposed, leaked>>

-----------------------------------------------------------------------------
(* The other tasks                                                         *)

(* An evictor is past the point where it would notice an edit at p.        *)
Doomed(p) ==
    \E t \in Threads :
        \/ thread[t].stage = "evictClean" /\ p \in thread[t].victims
        \/ /\ thread[t].stage = "uncount" /\ thread[t].then = "evictClean"
           /\ p \in thread[t].victims
        \/ thread[t].stage \in {"write", "evictDirty"} /\ p = thread[t].victim

(* get_mut(pos) and Chunk::set_block, under the shard's lock.              *)
SetBlock(p) ==
    /\ p \in Loaded
    /\ edits[p] < MaxEdits
    /\ LET e == edits[p] + 1
       IN  /\ edits' = [edits EXCEPT ![p] = e]
           /\ chunks' = [chunks EXCEPT ![p] =
                           [edits |-> @.edits \cup {e}, dirty |-> TRUE]]
           /\ exposed' = [exposed EXCEPT ![p] =
                            IF Doomed(p) THEN @ \cup {e} ELSE @]
    /\ Touch(p)
    /\ UNCHANGED <<count, disk, thread, leaked>>

(* remove: called when a player's view moves on.  It leaves `count` alone. *)
Unload(p) ==
    /\ p \in Loaded
    /\ leaked < MaxUnloads
    /\ chunks' = [chunks EXCEPT ![p] = NoChunk]
    /\ Unstamp(p)
    /\ exposed' = [exposed EXCEPT ![p] = @ \cup chunks[p].edits]
    /\ leaked' = leaked + 1
    /\ UNCHANGED <<count, disk, thread, edits>>

-----------------------------------------------------------------------------
Step(t) ==
    \/ \E p \in Pos : InsertChunk(t, p)
    \/ CountInserted(t)
    \/ CheckCapacity(t)
    \/ PickClean(t)
    \/ EvictClean(t)
    \/ Uncount(t)
    \/ CleanPhaseDone(t)
    \/ PickDirty(t)
    \/ CloneVictim(t)
    \/ WriteVictim(t)
    \/ WriteVictimFails(t)
    \/ EvictDirty(t)
    \/ DirtyPhaseDone(t)

Next ==
    \/ \E t \in Threads : Step(t)
    \/ \E p \in Pos : SetBlock(p) \/ Unload(p)

Spec == Init /\ [][Next]_vars

-----------------------------------------------------------------------------
(* Properties                                                              *)

(* Every variable has its type.                                            *)
TypeOK ==
    /\ chunks \in [Pos -> Chunk \cup {NoChunk}]
    /\ lru \in [Pos -> SUBSET Pos]
    /\ count \in Int
    /\ disk \in [Pos -> SUBSET Edit]
    /\ thread \in [Threads -> Thread]
    /\ edits \in [Pos -> 0..MaxEdits]
    /\ exposed \in [Pos -> SUBSET Edit]
    /\ leaked \in Nat

Uncounted    == {t \in Threads : thread[t].stage = "count"}
Unsubtracted == {t \in Threads : thread[t].stage = "uncount"}

(* The counter is exact up to the increments and decrements under way and  *)
(* the chunks that `remove` took without telling it: insert and evict_lru  *)
(* never count a chunk twice or forget one, however they interleave.       *)
CountAccounting ==
    count + Cardinality(Uncounted)
        = Cardinality(Loaded) + leaked + Cardinality(Unsubtracted)

(* When no insert is under way the store is within max_chunks, although    *)
(* each evictor works from a count and a candidate list that others have   *)
(* made stale (evict_lru, "to stay within capacity").                      *)
SettledCapacity ==
    (\A t \in Threads : thread[t].stage = "idle")
        => Cardinality(Loaded) <= MaxChunks

(* An edit is in memory or in the Linear file unless it met one of five    *)
(* windows: its chunk was replaced by an insert, unloaded by a player's    *)
(* move, met a failed write, had its file replaced by a chunk that no      *)
(* longer held it, or was edited after the evictor had looked at it.       *)
EditsAccountedFor ==
    \A p \in Pos : \A e \in 1..edits[p] :
        e \in Content(p) \cup disk[p] \cup exposed[p]

(* The two parts below are about one inserting task.                       *)

(* evict_lru flushes a dirty chunk only when no clean chunk is left.       *)
CleanFirst ==
    \A t \in Threads :
        thread[t].stage \in {"clone", "write", "evictDirty"} => Clean = {}

(* A step that an evictor takes out of the map.                            *)
Evicts(t, p) ==
    /\ thread[t].stage \in {"evictClean", "evictDirty"}
    /\ p \in Loaded
    /\ chunks'[p] = NoChunk

(* The chunk evicted by phase 1 is older than every clean chunk that stays *)
(* (the victims of one pass are removed in any order).                     *)
OldestGoes ==
    \A t \in Threads, p \in Pos :
        Evicts(t, p) /\ thread'[t] # thread[t] /\ thread[t].stage = "evictClean"
            /\ p \in Clean
            => \A q \in Clean \ thread[t].victims : q \notin lru[p]

=============================================================================
