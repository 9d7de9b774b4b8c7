------------------------------ MODULE BlocksProofs ------------------------------
(* Proofs about BlockUpdates, for every set of players, chunks and cells,  *)
(* every view of the chunks and every value of the clocks and bounds;      *)
(* about Terrain, for a chunk of any size and landscape; about Column, for *)
(* sections and words of any size and every set of block states; about     *)
(* Paths, for a field of any size, however it is built up; about Lighting, *)
(* for chunks of any size; and about the five beside each other.           *)
EXTENDS MCBlocks, Descent, SequenceTheorems, FiniteSetTheorems, TLAPS

-----------------------------------------------------------------------------
(* The inductive invariant                                                 *)

Task == [stage: Stages, target: SUBSET Block, todo: SUBSET Chunks,
         count: 0..Period - 1, elapsed: 0..Interval, since: Value, free: SUBSET Chunks]

(* The last entry of a block in the tracker.                               *)
IsLast(b, i) == i \in Marked(b) /\ \A j \in Marked(b) : j <= i
MarksAs(b, v) == \E i \in Marked(b) : IsLast(b, i) /\ pending[ChunkOf(b)][i][2] = v

WorldOK ==
    /\ block \in [Block -> Value]
    /\ how \in [Block -> {"marked", "chunk", "silent"}]
    /\ guard \in [Chunks -> SUBSET Players]
    /\ changes \in Value

TrackerOK ==
    /\ pending = [c \in Chunks |-> pending[c]]
    /\ \A c \in Chunks : pending[c] \in Seq(CellsOf(c) \X Value)
    /\ \A b \in Block : Marked(b) # {} => \E i \in Marked(b) : IsLast(b, i)
    /\ cleared \subseteq Block
    /\ broadcast \subseteq Chunks /\ affected \subseteq Chunks
    /\ overflow \in BOOLEAN

LoopsOK ==
    /\ client \in [Players -> [Block -> Value]]
    /\ task \in [Players -> Task]
    /\ \A pl \in Players : task[pl].stage # "handled" => task[pl].elapsed < Interval

TypeInv == WorldOK /\ TrackerOK /\ LoopsOK

(* A player holds the guard of a chunk from the change of a block in it to *)
(* the mark of that block, and nobody else holds one.                      *)
Placing(pl) == task[pl].stage \in {"placing", "shown", "marking"}
Targets == UNION {task[pl].target : pl \in Players}

GuardInv ==
    /\ \A pl \in Players : \A b \in task[pl].target :
          Placing(pl) /\ guard[ChunkOf(b)] = {pl} /\ block[b] # 0 /\ how[b] = "marked"
    /\ \A pl \in Players : \A b, d \in task[pl].target : b = d
    /\ \A c \in Chunks : guard[c] # {} =>
          \E pl \in Players : guard[c] = {pl} /\ \E b \in task[pl].target : ChunkOf(b) = c

MarkInv ==
    \A b \in Block \ Targets :
        how[b] = "marked" /\ b \notin cleared /\ block[b] # 0 => MarksAs(b, block[b])

(* A block nobody has changed is marked nowhere, and shown as it began.    *)
UntouchedInv ==
    \A b \in Block : block[b] = 0 => Marked(b) = {} /\ \A pl \in Players : client[pl][b] = 0

(* The blocks a flush owes its client, and those it has shown already.     *)
Flushing(pl) == task[pl].stage \in {"draining", "taking", "resending"}
Owed(pl, b) ==
    /\ Flushing(pl)
    /\ ChunkOf(b) \in Near[pl] \cap task[pl].free
    /\ how[b] = "marked" /\ b \notin cleared /\ block[b] <= task[pl].since
Undrained(pl, b) == task[pl].stage = "draining" /\ ChunkOf(b) \in task[pl].todo

FlushInv ==
    /\ \A pl \in Players : Flushing(pl) => task[pl].since <= changes
    /\ \A pl \in Players : \A b \in Targets :
          Flushing(pl) /\ ChunkOf(b) \in task[pl].free => block[b] > task[pl].since
    /\ \A pl \in Players : \A b \in Block :
          Owed(pl, b) /\ ~Undrained(pl, b) => client[pl][b] = block[b]

-----------------------------------------------------------------------------
(* Type correctness                                                        *)

LEMMA BlockType ==
    /\ \A b \in Block : ChunkOf(b) \in Chunks /\ b \in CellsOf(ChunkOf(b))
    /\ \A c : CellsOf(c) \subseteq Block
  BY DEF Block, ChunkOf, CellsOf

LEMMA Updated ==
    ASSUME task \in [Players -> Task], NEW pl \in Players, NEW t, Update(pl, t)
    PROVE  /\ task'[pl] = t
           /\ \A q \in Players \ {pl} : task'[q] = task[q]
           /\ t \in Task => task' \in [Players -> Task]
  BY DEF Update

LEMMA TaskFields ==
    ASSUME task \in [Players -> Task], NEW pl \in Players
    PROVE  /\ task[pl] \in Task
           /\ task[pl].stage \in Stages /\ task[pl].target \subseteq Block
           /\ task[pl].todo \subseteq Chunks /\ task[pl].count \in 0..Period - 1
           /\ task[pl].elapsed \in 0..Interval /\ task[pl].since \in Value
           /\ task[pl].free \subseteq Chunks
  BY DEF Task

LEMMA LoopStep ==
    ASSUME LoopsOK, NEW pl \in Players, NEW t \in Task, Update(pl, t),
           t.stage # "handled" => t.elapsed < Interval,
           client' \in [Players -> [Block -> Value]]
    PROVE  LoopsOK'
  BY Updated DEF LoopsOK

LEMMA Changed ==
    ASSUME WorldOK, NEW B \in SUBSET Block, NEW kind \in {"marked", "chunk", "silent"},
           Change(B, kind)
    PROVE  /\ block' \in [Block -> Value] /\ changes' \in Value
           /\ how' \in [Block -> {"marked", "chunk", "silent"}]
           /\ changes' = changes + 1 /\ changes + 1 \in Value /\ changes + 1 # 0
           /\ \A b \in B : block'[b] = changes + 1 /\ how'[b] = kind
           /\ \A b \in Block \ B : block'[b] = block[b] /\ how'[b] = how[b]
  <1>1. changes + 1 \in Value /\ changes + 1 # 0 /\ changes' = changes + 1
    BY UpdatesAssumption DEF Change, WorldOK, Value
  <1> QED
    BY <1>1 DEF Change, WorldOK

LEMMA SnapshotType ==
    ASSUME WorldOK, LoopsOK, NEW pl \in Players, NEW c \in Chunks, Snapshot(pl, c)
    PROVE  /\ client' \in [Players -> [Block -> Value]]
           /\ \A q \in Players \ {pl} : client'[q] = client[q]
           /\ \A b \in Block : client'[pl][b] = IF ChunkOf(b) = c THEN block[b] ELSE client[pl][b]
  <1> DEFINE seen == [b \in Block |-> IF ChunkOf(b) = c THEN block[b] ELSE client[pl][b]]
  <1>1. client' = [client EXCEPT ![pl] = seen]
    BY DEF Snapshot
  <1>2. seen \in [Block -> Value]
    BY DEF WorldOK, LoopsOK
  <1>3. \A b \in Block : seen[b] = IF ChunkOf(b) = c THEN block[b] ELSE client[pl][b]
    OBVIOUS
  <1> HIDE DEF seen
  <1> QED
    BY <1>1, <1>2, <1>3 DEF LoopsOK

LEMMA MarkedPlaces ==
    ASSUME TrackerOK, NEW b \in Block
    PROVE  /\ pending[ChunkOf(b)] \in Seq(CellsOf(ChunkOf(b)) \X Value)
           /\ Len(pending[ChunkOf(b)]) \in Nat
           /\ Marked(b) = {i \in 1..Len(pending[ChunkOf(b)]) : pending[ChunkOf(b)][i][1] = b}
           /\ \A i \in Marked(b) : i \in Nat /\ pending[ChunkOf(b)][i][2] \in Value
  <1>1. ChunkOf(b) \in Chunks
    BY BlockType
  <1>2. pending[ChunkOf(b)] \in Seq(CellsOf(ChunkOf(b)) \X Value)
    BY <1>1 DEF TrackerOK
  <1>3. Marked(b) = {i \in 1..Len(pending[ChunkOf(b)]) : pending[ChunkOf(b)][i][1] = b}
    BY <1>2 DEF Marked
  <1>4. \A i \in 1..Len(pending[ChunkOf(b)]) : pending[ChunkOf(b)][i] \in CellsOf(ChunkOf(b)) \X Value
    BY <1>2
  <1> QED
    BY <1>2, <1>3, <1>4

LEMMA LastIs ==
    ASSUME TrackerOK, NEW b \in Block, NEW v, MarksAs(b, v)
    PROVE  Marked(b) # {} /\ LastMark(b) = v
  <1>1. PICK i \in Marked(b) : IsLast(b, i) /\ pending[ChunkOf(b)][i][2] = v
    BY DEF MarksAs
  <1>2. \A k \in Marked(b) : k \in Nat
    BY MarkedPlaces
  <1>3. \A k \in Marked(b) : (\A j \in Marked(b) : j <= k) => k = i
    BY <1>1, <1>2 DEF IsLast
  <1>4. (CHOOSE k \in Marked(b) : \A j \in Marked(b) : j <= k) = i
    BY <1>1, <1>3 DEF IsLast
  <1> QED
    BY <1>1, <1>4 DEF LastMark

LEMMA LastMarkType ==
    ASSUME TrackerOK, NEW b \in Block, Marked(b) # {}
    PROVE  LastMark(b) \in Value /\ MarksAs(b, LastMark(b))
  <1>1. PICK i \in Marked(b) : IsLast(b, i)
    BY DEF TrackerOK
  <1>2. MarksAs(b, pending[ChunkOf(b)][i][2])
    BY <1>1 DEF MarksAs
  <1> QED
    BY <1>1, <1>2, LastIs, MarkedPlaces

(* A mark is the last of its block, and of no other.                       *)
LEMMA MarkedType ==
    ASSUME TrackerOK, NEW b \in Block, NEW v \in Value, Mark(b, v),
           broadcast' \subseteq Chunks, affected' \subseteq Chunks, overflow' \in BOOLEAN
    PROVE  /\ TrackerOK' /\ MarksAs(b, v)'
           /\ \A d \in Block \ {b}, w \in Value : MarksAs(d, w) => MarksAs(d, w)'
           /\ \A d \in Block \ {b} : Marked(d)' = Marked(d)
           /\ cleared' = cleared \ {b}
  <1> DEFINE c == ChunkOf(b)
  <1>1. c \in Chunks /\ <<b, v>> \in CellsOf(c) \X Value
    BY BlockType
  <1>2. DOMAIN pending = Chunks /\ pending[c] \in Seq(CellsOf(c) \X Value)
    BY <1>1 DEF TrackerOK
  <1>3. PICK n \in Nat : n = Len(pending[c])
    BY <1>2
  <1>4. /\ pending'[c] = Append(pending[c], <<b, v>>)
        /\ \A e \in Chunks \ {c} : pending'[e] = pending[e]
        /\ pending' = [e \in Chunks |-> pending'[e]]
    BY <1>1, <1>2 DEF Mark, TrackerOK
  <1>5. \A e \in Chunks : pending'[e] \in Seq(CellsOf(e) \X Value)
    BY <1>1, <1>4, SMTT(40) DEF TrackerOK
  <1>6. /\ Len(pending'[c]) = n + 1 /\ pending'[c][n + 1] = <<b, v>>
        /\ \A i \in 1..n : pending'[c][i] = pending[c][i]
        /\ DOMAIN pending[c] = 1..n /\ DOMAIN pending'[c] = 1..(n + 1)
    BY <1>3, <1>1, <1>2, <1>4
  <1>7. Marked(b)' = Marked(b) \cup {n + 1} /\ \A i \in Marked(b) : i \in 1..n
    <2>1. Marked(b) = {i \in 1..n : pending[c][i][1] = b}
      BY <1>6 DEF Marked
    <2>2. Marked(b)' = {i \in 1..(n + 1) : pending'[c][i][1] = b}
      BY <1>6 DEF Marked
    <2>3. \A i : i \in 1..(n + 1) <=> i \in 1..n \/ i = n + 1
      BY <1>3
    <2> QED
      BY <1>6, <2>1, <2>2, <2>3
  <1>8. ASSUME NEW d \in Block \ {b}
        PROVE  /\ Marked(d)' = Marked(d)
               /\ \A i \in Marked(d) : pending'[ChunkOf(d)][i] = pending[ChunkOf(d)][i]
    <2>1. CASE ChunkOf(d) # c
      <3>1. pending'[ChunkOf(d)] = pending[ChunkOf(d)]
        BY <1>4, <2>1, BlockType
      <3> QED
        BY <3>1 DEF Marked
    <2>2. CASE ChunkOf(d) = c
      <3>1. Marked(d) = {i \in 1..n : pending[c][i][1] = d}
        BY <1>6, <2>2 DEF Marked
      <3>2. Marked(d)' = {i \in 1..(n + 1) : pending'[c][i][1] = d}
        BY <1>6, <2>2 DEF Marked
      <3>3. \A i : i \in 1..(n + 1) <=> i \in 1..n \/ i = n + 1
        BY <1>3
      <3>4. pending'[c][n + 1][1] # d
        BY <1>6
      <3> QED
        BY <1>6, <2>2, <3>1, <3>2, <3>3, <3>4
    <2> QED
      BY <2>1, <2>2
  <1>9. MarksAs(b, v)' /\ IsLast(b, n + 1)' /\ n + 1 \in Marked(b)'
    <2>1. IsLast(b, n + 1)'
      BY <1>3, <1>7 DEF IsLast
    <2>2. pending'[c][n + 1][2] = v /\ n + 1 \in Marked(b)'
      BY <1>6, <1>7
    <2> QED
      BY <2>1, <2>2 DEF MarksAs
  <1>10. ASSUME NEW d \in Block \ {b}, NEW i, IsLast(d, i)
        PROVE  IsLast(d, i)'
    BY <1>8, <1>10 DEF IsLast
  <1>11. \A d \in Block \ {b}, w \in Value : MarksAs(d, w) => MarksAs(d, w)'
    BY <1>8, <1>10 DEF MarksAs
  <1>12. \A d \in Block : Marked(d)' # {} => \E i \in Marked(d)' : IsLast(d, i)'
    BY <1>8, <1>9, <1>10 DEF TrackerOK
  <1>13. TrackerOK'
    BY <1>4, <1>5, <1>12 DEF Mark, TrackerOK
  <1> QED
    BY <1>8, <1>9, <1>11, <1>13 DEF Mark

(* The actions of one play loop move its task, and only it.                *)
LEMMA TaskMoves ==
    ASSUME LoopsOK, NEW pl \in Players,
           \/ Read(pl) \/ TimeOut(pl) \/ Top(pl)
           \/ \E b \in Block : Place(pl, b) \/ SendOwnChunk(pl, b) \/ MarkChunk(pl, b)
                               \/ MarkPlaced(pl, b) \/ FrostWalk(pl, b)
           \/ \E c \in Chunks : DrainSection(pl, c) \/ Resend(pl, c)
           \/ ChooseChunks(pl) \/ TakeChunks(pl) \/ EndFlush(pl),
           broadcast \subseteq Chunks, changes \in Value
    PROVE  \E t \in Task : Update(pl, t) /\ (t.stage # "handled" => t.elapsed < Interval)
  <1>1. /\ task[pl] \in Task /\ task[pl].stage \in Stages /\ task[pl].target \subseteq Block
        /\ task[pl].todo \subseteq Chunks /\ task[pl].count \in 0..Period - 1
        /\ task[pl].elapsed \in 0..Interval /\ task[pl].since \in Value
        /\ task[pl].free \subseteq Chunks
        /\ task[pl].stage # "handled" => task[pl].elapsed < Interval
    BY TaskFields DEF LoopsOK
  <1>2. /\ Period \in Nat \ {0} /\ Interval \in Nat \ {0} /\ Near[pl] \subseteq Chunks
        /\ MaxChanges \in Nat
    BY UpdatesAssumption
  <1>3. ASSUME NEW st \in Stages, ToStage(pl, st), task[pl].stage # "handled"
        PROVE  \E t \in Task : Update(pl, t) /\ (t.stage # "handled" => t.elapsed < Interval)
    <2> DEFINE t == [task[pl] EXCEPT !.stage = st]
    <2>1. t \in Task /\ t.elapsed < Interval
      BY <1>1, <1>3 DEF Task
    <2>2. Update(pl, t)
      BY <1>3 DEF ToStage
    <2> HIDE DEF t
    <2> QED
      BY <2>1, <2>2
  <1>4. CASE \/ Read(pl) \/ TakeChunks(pl) \/ EndFlush(pl)
             \/ \E b \in Block : SendOwnChunk(pl, b) \/ MarkChunk(pl, b) \/ FrostWalk(pl, b)
    BY <1>3, <1>4 DEF Read, TakeChunks, EndFlush, SendOwnChunk, MarkChunk, FrostWalk, Stages
  <1>5. CASE TimeOut(pl)
    <2> DEFINE t == [task[pl] EXCEPT !.stage = "handled", !.elapsed = @ + 1]
    <2>1. task[pl].elapsed + 1 \in 0..Interval
      BY <1>1, <1>2, <1>5 DEF TimeOut
    <2>2. t \in Task /\ t.stage = "handled"
      BY <1>1, <2>1 DEF Task, Stages
    <2>3. Update(pl, t)
      BY <1>5 DEF TimeOut
    <2> HIDE DEF t
    <2> QED
      BY <2>2, <2>3
  <1>6. CASE Top(pl)
    <2> DEFINE count == (task[pl].count + 1) % Period
               t1 == [task[pl] EXCEPT !.stage = "reading", !.count = count]
               t2 == [task[pl] EXCEPT !.stage = "reading", !.count = count, !.elapsed = 0]
               t3 == [task[pl] EXCEPT !.stage = "draining", !.count = count, !.elapsed = 0,
                             !.todo = Near[pl], !.since = changes,
                             !.free = {c \in Chunks : Free(c)}]
    <2>1. count \in 0..Period - 1 /\ 0 \in 0..Interval /\ 0 < Interval
      BY <1>1, <1>2
    <2>2. {c \in Chunks : Free(c)} \subseteq Chunks
      OBVIOUS
    <2>3. \/ task[pl].elapsed < Interval /\ Update(pl, t1)
          \/ Update(pl, t2) \/ Update(pl, t3)
      BY <1>6 DEF Top
    <2> HIDE DEF count
    <2>4. t1 \in Task /\ t1.elapsed = task[pl].elapsed
      BY <1>1, <2>1 DEF Task, Stages
    <2>5. t2 \in Task /\ t2.elapsed = 0
      BY <1>1, <2>1 DEF Task, Stages
    <2>6. t3 \in Task /\ t3.elapsed = 0
      BY <1>1, <1>2, <2>1, <2>2 DEF Task, Stages
    <2> HIDE DEF t1, t2, t3
    <2> QED
      BY <2>1, <2>3, <2>4, <2>5, <2>6
  <1>7. ASSUME NEW b \in Block, Place(pl, b)
        PROVE  \E t \in Task : Update(pl, t) /\ (t.stage # "handled" => t.elapsed < Interval)
    <2> DEFINE t == [task[pl] EXCEPT !.stage = "placing", !.target = {b}]
    <2>1. t \in Task /\ t.elapsed = task[pl].elapsed
      BY <1>1 DEF Task, Stages
    <2>2. Update(pl, t) /\ task[pl].stage = "reading"
      BY <1>7 DEF Place
    <2> HIDE DEF t
    <2> QED
      BY <1>1, <2>1, <2>2
  <1>8. ASSUME NEW b \in Block, MarkPlaced(pl, b)
        PROVE  \E t \in Task : Update(pl, t) /\ (t.stage # "handled" => t.elapsed < Interval)
    <2> DEFINE t == [task[pl] EXCEPT !.stage = "handled", !.target = {}]
    <2>1. t \in Task /\ t.stage = "handled"
      BY <1>1 DEF Task, Stages
    <2>2. Update(pl, t)
      BY <1>8 DEF MarkPlaced
    <2> HIDE DEF t
    <2> QED
      BY <2>1, <2>2
  <1>9. ASSUME NEW c \in Chunks, DrainSection(pl, c) \/ Resend(pl, c)
        PROVE  \E t \in Task : Update(pl, t) /\ (t.stage # "handled" => t.elapsed < Interval)
    <2> DEFINE t == [task[pl] EXCEPT !.todo = @ \ {c}]
    <2>1. t \in Task /\ t.elapsed = task[pl].elapsed
      BY <1>1 DEF Task
    <2>2. Update(pl, t) /\ task[pl].stage # "handled"
      BY <1>9 DEF DrainSection, Resend
    <2> HIDE DEF t
    <2> QED
      BY <1>1, <2>1, <2>2
  <1>10. CASE ChooseChunks(pl)
    <2> DEFINE t == [task[pl] EXCEPT !.stage = "taking", !.todo = broadcast \cap Near[pl]]
    <2>1. t \in Task /\ t.elapsed = task[pl].elapsed
      BY <1>1, <1>2 DEF Task, Stages
    <2>2. Update(pl, t) /\ task[pl].stage # "handled"
      BY <1>10 DEF ChooseChunks
    <2> HIDE DEF t
    <2> QED
      BY <1>1, <2>1, <2>2
  <1> QED
    BY <1>4, <1>5, <1>6, <1>7, <1>8, <1>9, <1>10

(* What a flush shows of one section: the last entry of each block in it.  *)
LEMMA Drained ==
    ASSUME TrackerOK, LoopsOK, NEW pl \in Players, NEW c \in Chunks, DrainSection(pl, c)
    PROVE  /\ client' \in [Players -> [Block -> Value]]
           /\ \A q \in Players \ {pl} : client'[q] = client[q]
           /\ \A b \in Block : client'[pl][b] =
                 IF ChunkOf(b) = c /\ Marked(b) # {} THEN LastMark(b) ELSE client[pl][b]
  <1> DEFINE seen == [b \in Block |->
                 IF ChunkOf(b) = c /\ Marked(b) # {} THEN LastMark(b) ELSE client[pl][b]]
  <1>1. client' = [client EXCEPT ![pl] = seen]
    BY DEF DrainSection
  <1>2. \A b \in Block : seen[b] \in Value
    BY LastMarkType DEF LoopsOK
  <1>3. seen \in [Block -> Value]
    BY <1>2
  <1>4. \A b \in Block : seen[b] =
          IF ChunkOf(b) = c /\ Marked(b) # {} THEN LastMark(b) ELSE client[pl][b]
    OBVIOUS
  <1> HIDE DEF seen
  <1> QED
    BY <1>1, <1>3, <1>4 DEF LoopsOK

LEMMA TrackerKept ==
    ASSUME TrackerOK, pending' = pending, cleared' = cleared,
           broadcast' \subseteq Chunks, affected' \subseteq Chunks, overflow' \in BOOLEAN
    PROVE  TrackerOK' /\ \A b \in Block, v \in Value : MarksAs(b, v) => MarksAs(b, v)'
  <1>1. \A b \in Block : Marked(b)' = Marked(b)
    BY DEF Marked
  <1>2. ASSUME NEW b \in Block, NEW i
        PROVE  IsLast(b, i)' <=> IsLast(b, i)
    BY <1>1 DEF IsLast
  <1>3. \A b \in Block, v \in Value : MarksAs(b, v) => MarksAs(b, v)'
    BY <1>1, <1>2 DEF MarksAs
  <1>4. \A b \in Block : Marked(b)' # {} => \E i \in Marked(b)' : IsLast(b, i)'
    BY <1>1, <1>2 DEF TrackerOK
  <1> QED
    BY <1>3, <1>4 DEF TrackerOK

LEMMA TypeNext == TypeInv /\ Next => TypeInv'
  <1> SUFFICES ASSUME TypeInv, Next
               PROVE  TypeInv'
    OBVIOUS
  <1>1. /\ WorldOK /\ TrackerOK /\ LoopsOK /\ broadcast \subseteq Chunks /\ changes \in Value
        /\ affected \subseteq Chunks /\ overflow \in BOOLEAN
        /\ \A b \in Block : ChunkOf(b) \in Chunks
        /\ client \in [Players -> [Block -> Value]]
    BY BlockType DEF TypeInv, WorldOK, TrackerOK, LoopsOK
  <1>a. ASSUME UNCHANGED world_vars
        PROVE  WorldOK'
    BY <1>1, <1>a DEF world_vars, WorldOK
  <1>b. ASSUME UNCHANGED <<client, task>>
        PROVE  LoopsOK'
    BY <1>1, <1>b DEF LoopsOK
  <1>c. ASSUME NEW B \in SUBSET Block, NEW kind \in {"marked", "chunk", "silent"},
               Change(B, kind), guard' \in [Chunks -> SUBSET Players]
        PROVE  WorldOK' /\ changes + 1 \in Value
    BY <1>1, <1>c, Changed DEF WorldOK
  <1>2. ASSUME NEW pl \in Players, NEW b \in Block, Place(pl, b)
        PROVE  TypeInv'
    <2>1. guard' \in [Chunks -> SUBSET Players] /\ {b} \in SUBSET Block
      BY <1>1, <1>2 DEF Place, WorldOK
    <2>2. WorldOK'
      BY <1>2, <1>c, <2>1 DEF Place
    <2>3. TrackerOK'
      BY <1>1, <1>2, TrackerKept DEF Place, tick_vars
    <2>4. LoopsOK'
      BY <1>1, <1>2, TaskMoves, LoopStep DEF Place
    <2> QED
      BY <2>2, <2>3, <2>4 DEF TypeInv
  <1>3. ASSUME NEW pl \in Players, NEW b \in Block, SendOwnChunk(pl, b) \/ MarkChunk(pl, b)
        PROVE  TypeInv'
    <2>1. WorldOK'
      BY <1>3, <1>a DEF SendOwnChunk, MarkChunk
    <2>2. TrackerOK'
      BY <1>1, <1>3, TrackerKept DEF SendOwnChunk, MarkChunk, tick_vars
    <2>3. client' \in [Players -> [Block -> Value]]
      BY <1>1, <1>3, SnapshotType DEF SendOwnChunk, MarkChunk
    <2>4. LoopsOK'
      BY <1>1, <1>3, <2>3, TaskMoves, LoopStep
    <2> QED
      BY <2>1, <2>2, <2>4 DEF TypeInv
  <1>4. ASSUME NEW pl \in Players, NEW b \in Block, MarkPlaced(pl, b)
        PROVE  TypeInv'
    <2>1. WorldOK'
      BY <1>1, <1>4 DEF MarkPlaced, WorldOK
    <2>2. block[b] \in Value
      BY <1>1 DEF WorldOK
    <2>3. TrackerOK'
      BY <1>1, <1>4, <2>2, MarkedType DEF MarkPlaced, tick_vars
    <2>4. LoopsOK'
      BY <1>1, <1>4, TaskMoves, LoopStep DEF MarkPlaced
    <2> QED
      BY <2>1, <2>3, <2>4 DEF TypeInv
  <1>5. ASSUME NEW pl \in Players, NEW b \in Block, FrostWalk(pl, b)
        PROVE  TypeInv'
    <2>1. guard' \in [Chunks -> SUBSET Players] /\ {b} \in SUBSET Block
      BY <1>1, <1>5 DEF FrostWalk, WorldOK
    <2>2. WorldOK' /\ changes + 1 \in Value
      BY <1>5, <1>c, <2>1 DEF FrostWalk
    <2>3. TrackerOK'
      BY <1>1, <1>5, <2>2, MarkedType DEF FrostWalk, tick_vars
    <2>4. LoopsOK'
      BY <1>1, <1>5, TaskMoves, LoopStep DEF FrostWalk
    <2> QED
      BY <2>2, <2>3, <2>4 DEF TypeInv
  <1>6. ASSUME NEW b \in Block, Explode(b)
        PROVE  TypeInv'
    <2>1. guard' \in [Chunks -> SUBSET Players] /\ {b} \in SUBSET Block
      BY <1>1, <1>6 DEF Explode, WorldOK
    <2>2. WorldOK' /\ changes + 1 \in Value
      BY <1>6, <1>c, <2>1 DEF Explode
    <2>3. TrackerOK'
      BY <1>1, <1>6, <2>2, MarkedType DEF Explode
    <2>4. LoopsOK'
      BY <1>6, <1>b DEF Explode
    <2> QED
      BY <2>2, <2>3, <2>4 DEF TypeInv
  <1>7. ASSUME NEW b \in Block, ChangeSilently(b)
        PROVE  TypeInv'
    <2>1. guard' \in [Chunks -> SUBSET Players] /\ {b} \in SUBSET Block
      BY <1>1, <1>7 DEF ChangeSilently, WorldOK
    <2>2. WorldOK'
      BY <1>7, <1>c, <2>1 DEF ChangeSilently
    <2> QED
      BY <1>1, <1>7, <1>b, <2>2, TrackerKept DEF ChangeSilently, tick_vars, TypeInv
  <1>8. ASSUME NEW c \in Chunks, Oxidize(c)
        PROVE  TypeInv'
    <2>1. guard' \in [Chunks -> SUBSET Players] /\ CellsOf(c) \in SUBSET Block
      BY <1>1, <1>8, BlockType DEF Oxidize, WorldOK
    <2>2. WorldOK'
      BY <1>8, <1>c, <2>1 DEF Oxidize
    <2> QED
      BY <1>1, <1>8, <1>b, <2>2, TrackerKept DEF Oxidize, tick_vars, TypeInv
  <1>9. CASE EndExplosion
    <2>1. UNCHANGED <<pending, cleared, overflow>> /\ affected' = {} /\ broadcast' \subseteq Chunks
      BY <1>1, <1>9 DEF EndExplosion
    <2>2. TrackerOK'
      BY <1>1, <2>1, TrackerKept
    <2> QED
      BY <1>9, <1>a, <1>b, <2>2 DEF EndExplosion, TypeInv
  <1>10. CASE SeeOverflow
    <2>1. TrackerOK'
      BY <1>1, <1>10, TrackerKept DEF SeeOverflow
    <2> QED
      BY <1>10, <1>a, <1>b, <2>1 DEF SeeOverflow, TypeInv
  <1>11. CASE ClearAll
    <2>1. pending' = [c \in Chunks |-> <<>>]
      BY <1>11 DEF ClearAll
    <2>2. \A c \in Chunks : pending'[c] = <<>> /\ <<>> \in Seq(CellsOf(c) \X Value)
      BY <2>1
    <2>3. \A b \in Block : Marked(b)' = {}
      BY <1>1, <2>2 DEF Marked
    <2>4. TrackerOK'
      BY <1>1, <1>11, <2>1, <2>2, <2>3 DEF ClearAll, TrackerOK
    <2> QED
      BY <1>11, <1>a, <1>b, <2>4 DEF ClearAll, TypeInv
  <1>12. ASSUME NEW pl \in Players,
                Read(pl) \/ TimeOut(pl) \/ Top(pl) \/ ChooseChunks(pl) \/ EndFlush(pl) \/ TakeChunks(pl)
         PROVE  TypeInv'
    <2>1. UNCHANGED <<world_vars, pending, client, tick_vars, cleared>> /\ broadcast' \subseteq Chunks
      BY <1>1, <1>12 DEF Read, TimeOut, Top, ChooseChunks, EndFlush, TakeChunks
    <2>2. TrackerOK'
      BY <1>1, <2>1, TrackerKept DEF tick_vars
    <2>3. LoopsOK'
      BY <1>1, <1>12, <2>1, TaskMoves, LoopStep
    <2> QED
      BY <1>a, <2>1, <2>2, <2>3 DEF TypeInv
  <1>13. ASSUME NEW pl \in Players, NEW c \in Chunks, DrainSection(pl, c) \/ Resend(pl, c)
         PROVE  TypeInv'
    <2>1. UNCHANGED <<world_vars, pending, broadcast, tick_vars, cleared>>
      BY <1>13 DEF DrainSection, Resend
    <2>2. client' \in [Players -> [Block -> Value]]
      BY <1>1, <1>13, SnapshotType, Drained DEF Resend
    <2>3. TrackerOK'
      BY <1>1, <2>1, TrackerKept DEF tick_vars
    <2>4. LoopsOK'
      BY <1>1, <1>13, <2>2, TaskMoves, LoopStep
    <2> QED
      BY <1>a, <2>1, <2>3, <2>4 DEF TypeInv
  <1> QED
    BY <1>2, <1>3, <1>4, <1>5, <1>6, <1>7, <1>8, <1>9, <1>10, <1>11, <1>12, <1>13
    DEF Next, Iterate

LEMMA TypeInit == Init => TypeInv
  <1> SUFFICES ASSUME Init
               PROVE  TypeInv
    OBVIOUS
  <1>1. Period \in Nat \ {0} /\ Interval \in Nat \ {0} /\ MaxChanges \in Nat /\ 0 \in Value
    BY UpdatesAssumption DEF Value
  <1>2. WorldOK
    BY <1>1 DEF Init, WorldOK
  <1>3. TrackerOK
    <2>1. \A c \in Chunks : pending[c] = <<>> /\ <<>> \in Seq(CellsOf(c) \X Value)
      BY DEF Init
    <2>2. \A b \in Block : Marked(b) = {}
      BY <2>1, BlockType DEF Marked
    <2> QED
      BY <2>1, <2>2 DEF Init, TrackerOK
  <1>4. LoopsOK
    <2>1. 1 % Period \in 0..Period - 1
      BY <1>1
    <2>2. Reading \in Task /\ Reading.elapsed = 0
      BY <1>1, <2>1 DEF Reading, Task, Stages
    <2> QED
      BY <1>1, <2>2 DEF Init, LoopsOK
  <1> QED
    BY <1>2, <1>3, <1>4 DEF TypeInv

LEMMA TypeStep == TypeInv /\ [Next]_vars => TypeInv'
  <1> SUFFICES ASSUME TypeInv, [Next]_vars
               PROVE  TypeInv'
    OBVIOUS
  <1>1. CASE UNCHANGED vars
    <2>1. /\ UNCHANGED <<block, guard, how, changes, pending, broadcast, client, task,
                         affected, overflow, cleared>>
      BY <1>1 DEF vars, world_vars, tick_vars
    <2>2. TrackerOK'
      BY <2>1, TrackerKept DEF TypeInv, TrackerOK
    <2> QED
      BY <2>1, <2>2 DEF TypeInv, WorldOK, LoopsOK
  <1>2. CASE Next
    BY <1>2, TypeNext
  <1> QED
    BY <1>1, <1>2

LEMMA UpdatesTyped == TypeInv => TypeOK
  BY DEF TypeInv, WorldOK, TrackerOK, LoopsOK, Task, TypeOK

(* Every variable keeps its type; an entry of the tracker is about a block *)
(* of its own section, and the clock of a play loop never runs past the    *)
(* keep-alive interval.                                                    *)
THEOREM UpdatesTypeCorrect == Spec => []TypeOK
  <1>1. TypeInv => TypeOK
    BY UpdatesTyped
  <1> QED
    BY <1>1, TypeInit, TypeStep, PTL DEF Spec

-----------------------------------------------------------------------------
(* Guards                                                                  *)

(* What a step does to the blocks that are being placed: nothing, one      *)
(* more under a guard of its own, or one less once it is marked.           *)
Targeting ==
    \/ /\ UNCHANGED guard
       /\ \A pl \in Players : task'[pl].target = task[pl].target /\ Placing(pl)' = Placing(pl)
       /\ \A b \in Block : ~Free(ChunkOf(b)) => block'[b] = block[b] /\ how'[b] = how[b]
    \/ \E pl \in Players, b \in Block : Place(pl, b) \/ MarkPlaced(pl, b)

LEMMA ChangeFrees ==
    ASSUME WorldOK, NEW B \in SUBSET Block, NEW kind \in {"marked", "chunk", "silent"},
           Change(B, kind), \A b \in B : Free(ChunkOf(b))
    PROVE  \A b \in Block : ~Free(ChunkOf(b)) => block'[b] = block[b] /\ how'[b] = how[b]
  BY Changed

LEMMA Targets1 ==
    ASSUME TypeInv, [Next]_vars
    PROVE  Targeting
  <1>1. WorldOK /\ LoopsOK /\ task \in [Players -> Task] /\ \A b \in Block : {b} \in SUBSET Block
    BY DEF TypeInv, LoopsOK
  <1>2. ASSUME UNCHANGED world_vars, NEW pl \in Players, NEW t, Update(pl, t),
               t.target = task[pl].target,
               t.stage \in {"placing", "shown", "marking"} <=> Placing(pl)
        PROVE  Targeting
    BY <1>1, <1>2, Updated DEF Targeting, world_vars, Placing
  <1>3. ASSUME NEW pl \in Players, NEW st \in Stages, ToStage(pl, st), UNCHANGED world_vars,
               st \in {"placing", "shown", "marking"} <=> Placing(pl)
        PROVE  Targeting
    <2> DEFINE t == [task[pl] EXCEPT !.stage = st]
    <2>1. t.target = task[pl].target /\ t.stage = st
      BY <1>1, TaskFields DEF Task
    <2>2. Update(pl, t)
      BY <1>3 DEF ToStage
    <2> HIDE DEF t
    <2> QED
      BY <1>2, <1>3, <2>1, <2>2
  <1>4. ASSUME NEW pl \in Players,
               \/ Read(pl) \/ TakeChunks(pl) \/ EndFlush(pl)
               \/ \E b \in Block : SendOwnChunk(pl, b) \/ MarkChunk(pl, b)
        PROVE  Targeting
    BY <1>3, <1>4 DEF Read, TakeChunks, EndFlush, SendOwnChunk, MarkChunk, Stages, Placing
  <1>5. ASSUME NEW pl \in Players, TimeOut(pl)
        PROVE  Targeting
    <2> DEFINE t == [task[pl] EXCEPT !.stage = "handled", !.elapsed = @ + 1]
    <2>1. t.target = task[pl].target /\ t.stage = "handled"
      BY <1>1, TaskFields DEF Task
    <2>2. Update(pl, t) /\ UNCHANGED world_vars /\ ~Placing(pl)
      BY <1>5 DEF TimeOut, Placing
    <2> HIDE DEF t
    <2> QED
      BY <1>2, <2>1, <2>2
  <1>6. ASSUME NEW pl \in Players, Top(pl)
        PROVE  Targeting
    <2> DEFINE count == (task[pl].count + 1) % Period
               t1 == [task[pl] EXCEPT !.stage = "reading", !.count = count]
               t2 == [task[pl] EXCEPT !.stage = "reading", !.count = count, !.elapsed = 0]
               t3 == [task[pl] EXCEPT !.stage = "draining", !.count = count, !.elapsed = 0,
                             !.todo = Near[pl], !.since = changes,
                             !.free = {c \in Chunks : Free(c)}]
    <2>1. /\ Update(pl, t1) \/ Update(pl, t2) \/ Update(pl, t3)
          /\ UNCHANGED world_vars /\ ~Placing(pl)
      BY <1>6 DEF Top, Placing
    <2> HIDE DEF count
    <2>2. /\ t1.target = task[pl].target /\ t1.stage = "reading"
          /\ t2.target = task[pl].target /\ t2.stage = "reading"
          /\ t3.target = task[pl].target /\ t3.stage = "draining"
      BY <1>1, TaskFields DEF Task
    <2> HIDE DEF t1, t2, t3
    <2> QED
      BY <1>2, <2>1, <2>2
  <1>7. ASSUME NEW pl \in Players, NEW c \in Chunks, DrainSection(pl, c) \/ Resend(pl, c)
        PROVE  Targeting
    <2> DEFINE t == [task[pl] EXCEPT !.todo = @ \ {c}]
    <2>1. t.target = task[pl].target /\ t.stage = task[pl].stage
      BY <1>1, TaskFields DEF Task
    <2>2. Update(pl, t) /\ UNCHANGED world_vars
      BY <1>7 DEF DrainSection, Resend
    <2> HIDE DEF t
    <2> QED
      BY <1>2, <2>1, <2>2 DEF Placing
  <1>8. ASSUME NEW pl \in Players, ChooseChunks(pl)
        PROVE  Targeting
    <2> DEFINE t == [task[pl] EXCEPT !.stage = "taking", !.todo = broadcast \cap Near[pl]]
    <2>1. t.target = task[pl].target /\ t.stage = "taking"
      BY <1>1, TaskFields DEF Task
    <2>2. Update(pl, t) /\ UNCHANGED world_vars /\ ~Placing(pl)
      BY <1>8 DEF ChooseChunks, Placing
    <2> HIDE DEF t
    <2> QED
      BY <1>2, <2>1, <2>2
  <1>9. ASSUME NEW pl \in Players, NEW b \in Block, FrostWalk(pl, b)
        PROVE  Targeting
    <2> DEFINE t == [task[pl] EXCEPT !.stage = "handled"]
    <2>1. t.target = task[pl].target /\ t.stage = "handled"
      BY <1>1, TaskFields DEF Task
    <2>2. Update(pl, t) /\ UNCHANGED guard /\ ~Placing(pl) /\ Change({b}, "marked") /\ Free(ChunkOf(b))
      BY <1>9 DEF FrostWalk, ToStage, Placing
    <2> HIDE DEF t
    <2>3. \A q \in Players : task'[q].target = task[q].target /\ Placing(q)' = Placing(q)
      BY <1>1, <2>1, <2>2, Updated DEF Placing
    <2>4. \A d \in Block : ~Free(ChunkOf(d)) => block'[d] = block[d] /\ how'[d] = how[d]
      BY <1>1, <2>2, ChangeFrees
    <2> QED
      BY <2>2, <2>3, <2>4 DEF Targeting
  <1>10. ASSUME NEW B \in SUBSET Block, NEW kind \in {"marked", "chunk", "silent"},
               Change(B, kind), \A b \in B : Free(ChunkOf(b)), UNCHANGED <<guard, task>>
        PROVE  Targeting
    <2>1. \A d \in Block : ~Free(ChunkOf(d)) => block'[d] = block[d] /\ how'[d] = how[d]
      BY <1>1, <1>10, ChangeFrees
    <2> QED
      BY <1>10, <2>1 DEF Targeting, Placing
  <1>11. ASSUME NEW b \in Block, Explode(b) \/ ChangeSilently(b)
         PROVE  Targeting
    BY <1>1, <1>10, <1>11 DEF Explode, ChangeSilently
  <1>12. ASSUME NEW c \in Chunks, Oxidize(c)
         PROVE  Targeting
    <2>1. CellsOf(c) \in SUBSET Block /\ \A b \in CellsOf(c) : Free(ChunkOf(b))
      BY <1>12, BlockType DEF Oxidize, CellsOf
    <2> QED
      BY <1>10, <1>12, <2>1 DEF Oxidize
  <1>13. CASE EndExplosion \/ SeeOverflow \/ ClearAll \/ UNCHANGED vars
    <2>1. UNCHANGED <<block, how, guard, task>>
      BY <1>13 DEF EndExplosion, SeeOverflow, ClearAll, vars, world_vars
    <2> QED
      BY <2>1 DEF Targeting, Placing
  <1> QED
    BY <1>4, <1>5, <1>6, <1>7, <1>8, <1>9, <1>11, <1>12, <1>13 DEF Next, Iterate, Targeting

LEMMA Placed ==
    ASSUME TypeInv, NEW pl \in Players, NEW b \in Block, Place(pl, b)
    PROVE  /\ task'[pl].target = {b} /\ Placing(pl)' /\ ~Placing(pl)
           /\ \A q \in Players \ {pl} : task'[q] = task[q]
           /\ Free(ChunkOf(b)) /\ guard'[ChunkOf(b)] = {pl}
           /\ \A c \in Chunks \ {ChunkOf(b)} : guard'[c] = guard[c]
           /\ block'[b] = changes + 1 /\ how'[b] = "marked" /\ changes' = changes + 1
           /\ \A d \in Block \ {b} : block'[d] = block[d] /\ how'[d] = how[d]
           /\ UNCHANGED <<pending, cleared, client>>
           /\ ~Flushing(pl)'
  <1> DEFINE t == [task[pl] EXCEPT !.stage = "placing", !.target = {b}]
  <1>1. task[pl] \in Task /\ task \in [Players -> Task] /\ WorldOK /\ ChunkOf(b) \in Chunks
    BY TaskFields, BlockType DEF TypeInv, LoopsOK
  <1>2. t.target = {b} /\ t.stage = "placing"
    BY <1>1 DEF Task
  <1>3. Update(pl, t) /\ task[pl].stage = "reading"
    BY DEF Place
  <1> HIDE DEF t
  <1>4. task'[pl] = t /\ \A q \in Players \ {pl} : task'[q] = task[q]
    BY <1>1, <1>3, Updated
  <1>5. Change({b}, "marked") /\ {b} \in SUBSET Block
    BY DEF Place
  <1>6. /\ block'[b] = changes + 1 /\ how'[b] = "marked" /\ changes' = changes + 1
        /\ \A d \in Block \ {b} : block'[d] = block[d] /\ how'[d] = how[d]
    BY <1>1, <1>5, Changed
  <1>7. /\ guard'[ChunkOf(b)] = {pl}
        /\ \A c \in Chunks \ {ChunkOf(b)} : guard'[c] = guard[c]
    BY <1>1 DEF Place, WorldOK
  <1> QED
    BY <1>2, <1>3, <1>4, <1>6, <1>7 DEF Place, Placing, Flushing

LEMMA MarkPlacedIs ==
    ASSUME TypeInv, NEW pl \in Players, NEW b \in Block, MarkPlaced(pl, b)
    PROVE  /\ b \in task[pl].target /\ task'[pl].target = {} /\ Mark(b, block[b])
           /\ \A q \in Players \ {pl} : task'[q] = task[q]
           /\ guard'[ChunkOf(b)] = {}
           /\ \A c \in Chunks \ {ChunkOf(b)} : guard'[c] = guard[c]
           /\ UNCHANGED <<block, how, changes, client>>
           /\ ~Flushing(pl)'
  <1> DEFINE t == [task[pl] EXCEPT !.stage = "handled", !.target = {}]
  <1>1. task[pl] \in Task /\ task \in [Players -> Task] /\ WorldOK /\ ChunkOf(b) \in Chunks
    BY TaskFields, BlockType DEF TypeInv, LoopsOK
  <1>2. t.target = {} /\ t.stage = "handled"
    BY <1>1 DEF Task
  <1>3. Update(pl, t)
    BY DEF MarkPlaced
  <1> HIDE DEF t
  <1>4. task'[pl] = t /\ \A q \in Players \ {pl} : task'[q] = task[q]
    BY <1>1, <1>3, Updated
  <1>5. /\ guard'[ChunkOf(b)] = {}
        /\ \A c \in Chunks \ {ChunkOf(b)} : guard'[c] = guard[c]
    BY <1>1 DEF MarkPlaced, WorldOK
  <1> QED
    BY <1>2, <1>4, <1>5 DEF MarkPlaced, Flushing

LEMMA GuardStep ==
    ASSUME TypeInv, GuardInv, [Next]_vars
    PROVE  GuardInv'
  <1>1. \A b \in Block : ChunkOf(b) \in Chunks
    BY BlockType
  <1>t. \A pl \in Players : task[pl].target \subseteq Block
    BY TaskFields DEF TypeInv, LoopsOK
  <1>2. CASE /\ UNCHANGED guard
             /\ \A pl \in Players : task'[pl].target = task[pl].target /\ Placing(pl)' = Placing(pl)
             /\ \A b \in Block : ~Free(ChunkOf(b)) => block'[b] = block[b] /\ how'[b] = how[b]
    <2>1. ASSUME NEW pl \in Players, NEW b \in task[pl].target
          PROVE  ~Free(ChunkOf(b)) /\ b \in Block
      BY <1>t DEF GuardInv, Free
    <2> QED
      BY <1>2, <2>1 DEF GuardInv
  <1>3. ASSUME NEW pl \in Players, NEW b \in Block, Place(pl, b)
        PROVE  GuardInv'
    <2>1. /\ task'[pl].target = {b} /\ Placing(pl)' /\ ~Placing(pl)
          /\ \A q \in Players \ {pl} : task'[q] = task[q]
          /\ Free(ChunkOf(b)) /\ guard'[ChunkOf(b)] = {pl}
          /\ \A c \in Chunks \ {ChunkOf(b)} : guard'[c] = guard[c]
          /\ block'[b] = changes + 1 /\ how'[b] = "marked"
          /\ \A d \in Block \ {b} : block'[d] = block[d] /\ how'[d] = how[d]
          /\ changes + 1 # 0
      BY <1>3, Placed DEF TypeInv, WorldOK, Value
    <2>2. task[pl].target = {}
      BY <2>1 DEF GuardInv
    <2>3. ASSUME NEW q \in Players \ {pl}, NEW d \in task[q].target
          PROVE  ChunkOf(d) \in Chunks \ {ChunkOf(b)} /\ d \in Block \ {b}
      BY <1>1, <1>t, <2>1 DEF GuardInv, Free
    <2>4. ASSUME NEW q \in Players, NEW d \in task'[q].target
          PROVE  Placing(q)' /\ guard'[ChunkOf(d)] = {q} /\ block'[d] # 0 /\ how'[d] = "marked"
      <3>1. CASE q = pl
        BY <2>1, <2>4, <3>1
      <3>2. CASE q # pl
        <4>1. task'[q] = task[q] /\ d \in task[q].target
          BY <2>1, <2>4, <3>2
        <4>2. Placing(q) /\ guard[ChunkOf(d)] = {q} /\ block[d] # 0 /\ how[d] = "marked"
          BY <4>1 DEF GuardInv
        <4>3. ChunkOf(d) \in Chunks \ {ChunkOf(b)} /\ d \in Block \ {b}
          BY <2>3, <3>2, <4>1
        <4> QED
          BY <2>1, <4>1, <4>2, <4>3 DEF Placing
      <3> QED
        BY <3>1, <3>2
    <2>5. \A q \in Players : \A x, y \in task'[q].target : x = y
      BY <2>1 DEF GuardInv
    <2>6. ASSUME NEW c \in Chunks, guard'[c] # {}
          PROVE  \E q \in Players : guard'[c] = {q} /\ \E d \in task'[q].target : ChunkOf(d) = c
      <3>1. CASE c = ChunkOf(b)
        BY <2>1, <3>1
      <3>2. CASE c # ChunkOf(b)
        <4>1. PICK q \in Players : guard[c] = {q} /\ \E d \in task[q].target : ChunkOf(d) = c
          BY <2>1, <2>6, <3>2 DEF GuardInv
        <4>2. q # pl
          BY <2>2, <4>1
        <4> QED
          BY <2>1, <3>2, <4>1, <4>2
      <3> QED
        BY <3>1, <3>2
    <2> QED
      BY <2>4, <2>5, <2>6 DEF GuardInv
  <1>4. ASSUME NEW pl \in Players, NEW b \in Block, MarkPlaced(pl, b)
        PROVE  GuardInv'
    <2>1. /\ b \in task[pl].target /\ task'[pl].target = {}
          /\ \A q \in Players \ {pl} : task'[q] = task[q]
          /\ guard'[ChunkOf(b)] = {}
          /\ \A c \in Chunks \ {ChunkOf(b)} : guard'[c] = guard[c]
          /\ UNCHANGED <<block, how>>
      BY <1>4, MarkPlacedIs
    <2>2. guard[ChunkOf(b)] = {pl} /\ \A d \in task[pl].target : d = b
      BY <2>1 DEF GuardInv
    <2>3. ASSUME NEW q \in Players, NEW d \in task'[q].target
          PROVE  Placing(q)' /\ guard'[ChunkOf(d)] = {q} /\ block'[d] # 0 /\ how'[d] = "marked"
      <3>1. q # pl /\ task'[q] = task[q] /\ d \in task[q].target
        BY <2>1, <2>3
      <3>2. Placing(q) /\ guard[ChunkOf(d)] = {q} /\ block[d] # 0 /\ how[d] = "marked"
        BY <3>1 DEF GuardInv
      <3>3. ChunkOf(d) \in Chunks \ {ChunkOf(b)}
        BY <1>1, <1>t, <2>2, <3>1, <3>2
      <3> QED
        BY <2>1, <3>1, <3>2, <3>3 DEF Placing
    <2>4. \A q \in Players : \A x, y \in task'[q].target : x = y
      BY <2>1 DEF GuardInv
    <2>5. ASSUME NEW c \in Chunks, guard'[c] # {}
          PROVE  \E q \in Players : guard'[c] = {q} /\ \E d \in task'[q].target : ChunkOf(d) = c
      <3>1. c # ChunkOf(b) /\ guard'[c] = guard[c]
        BY <2>1, <2>5
      <3>2. PICK q \in Players : guard[c] = {q} /\ \E d \in task[q].target : ChunkOf(d) = c
        BY <2>5, <3>1 DEF GuardInv
      <3>3. q # pl
        BY <2>2, <3>1, <3>2
      <3> QED
        BY <2>1, <3>1, <3>2, <3>3
    <2> QED
      BY <2>3, <2>4, <2>5 DEF GuardInv
  <1>5. Targeting
    BY Targets1
  <1> QED
    BY <1>2, <1>3, <1>4, <1>5 DEF Targeting

-----------------------------------------------------------------------------
(* The last mark                                                           *)

Calm == UNCHANGED <<block, how, changes, pending, cleared>>

(* Frost Walker and the explosions: a change and its mark in one step.     *)
Written(b) ==
    /\ Free(ChunkOf(b)) /\ Change({b}, "marked") /\ Mark(b, changes + 1)
    /\ UNCHANGED client

(* Oxidation and what marks nothing.                                       *)
Unmarked(B) ==
    /\ \E kind \in {"chunk", "silent"} : Change(B, kind)
    /\ UNCHANGED <<pending, cleared, client, task>>

SameTargets == \A pl \in Players : task'[pl].target = task[pl].target

LEMMA MarkKinds ==
    ASSUME TypeInv, [Next]_vars
    PROVE  \/ /\ SameTargets
              /\ \/ Calm
                 \/ \E b \in Block : Written(b)
                 \/ \E B \in SUBSET Block : Unmarked(B)
                 \/ ClearAll
           \/ \E pl \in Players, b \in Block : Place(pl, b) \/ MarkPlaced(pl, b)
  <1>1. \/ Calm \/ \E b \in Block : Written(b)
        \/ \E B \in SUBSET Block : Unmarked(B)
        \/ ClearAll
        \/ \E pl \in Players, b \in Block : Place(pl, b) \/ MarkPlaced(pl, b)
    <2>1. ASSUME NEW pl \in Players,
                 \/ Read(pl) \/ TimeOut(pl) \/ Top(pl) \/ ChooseChunks(pl) \/ TakeChunks(pl)
                 \/ EndFlush(pl)
                 \/ \E b \in Block : SendOwnChunk(pl, b) \/ MarkChunk(pl, b)
                 \/ \E c \in Chunks : DrainSection(pl, c) \/ Resend(pl, c)
          PROVE  Calm
      BY <2>1 DEF Read, TimeOut, Top, ChooseChunks, TakeChunks, EndFlush, SendOwnChunk, MarkChunk,
                  DrainSection, Resend, Calm, world_vars
    <2>2. ASSUME EndExplosion \/ SeeOverflow \/ UNCHANGED vars
          PROVE  Calm
      BY <2>2 DEF EndExplosion, SeeOverflow, vars, Calm, world_vars
    <2>3. ASSUME NEW b \in Block, Explode(b) \/ (\E pl \in Players : FrostWalk(pl, b))
          PROVE  Written(b)
      BY <2>3 DEF Explode, FrostWalk, Written
    <2>4. ASSUME NEW b \in Block, ChangeSilently(b)
          PROVE  {b} \in SUBSET Block /\ Unmarked({b})
      BY <2>4 DEF ChangeSilently, Unmarked
    <2>5. ASSUME NEW c \in Chunks, Oxidize(c)
          PROVE  CellsOf(c) \in SUBSET Block /\ Unmarked(CellsOf(c))
      BY <2>5, BlockType DEF Oxidize, Unmarked
    <2> QED
      BY <2>1, <2>2, <2>3, <2>4, <2>5 DEF Next, Iterate
  <1>2. SameTargets \/ \E pl \in Players, b \in Block : Place(pl, b) \/ MarkPlaced(pl, b)
    BY Targets1 DEF Targeting, SameTargets
  <1> QED
    BY <1>1, <1>2

LEMMA MarksKept ==
    ASSUME TypeInv, UNCHANGED <<pending, cleared>>
    PROVE  /\ \A b \in Block, v \in Value : MarksAs(b, v) => MarksAs(b, v)'
           /\ \A b \in Block : Marked(b)' = Marked(b)
  <1>1. \A b \in Block : Marked(b)' = Marked(b)
    BY DEF Marked
  <1>2. ASSUME NEW b \in Block, NEW i
        PROVE  IsLast(b, i)' <=> IsLast(b, i)
    BY <1>1 DEF IsLast
  <1> QED
    BY <1>1, <1>2 DEF MarksAs

LEMMA MarkStep ==
    ASSUME TypeInv, TypeInv', GuardInv, MarkInv, [Next]_vars
    PROVE  MarkInv'
  <1>1. /\ WorldOK /\ TrackerOK /\ changes + 1 # 0
        /\ \A b \in Block : block[b] \in Value /\ block'[b] \in Value
        /\ broadcast' \subseteq Chunks /\ affected' \subseteq Chunks /\ overflow' \in BOOLEAN
        /\ changes \in Value
    <2>1. WorldOK /\ TrackerOK /\ WorldOK' /\ TrackerOK'
      BY DEF TypeInv
    <2>2. broadcast' \subseteq Chunks /\ affected' \subseteq Chunks /\ overflow' \in BOOLEAN
      BY <2>1 DEF TrackerOK
    <2>3. \A b \in Block : block[b] \in Value /\ block'[b] \in Value
      BY <2>1 DEF WorldOK
    <2>4. changes \in Value /\ changes + 1 # 0
      BY <2>1 DEF WorldOK, Value
    <2> QED
      BY <2>1, <2>2, <2>3, <2>4
  <1> SUFFICES ASSUME NEW d \in Block, d \notin Targets',
                      how'[d] = "marked", d \notin cleared', block'[d] # 0
               PROVE  \E v \in Value : v = block'[d] /\ MarksAs(d, v)'
    BY DEF MarkInv, MarksAs
  <1>2. ASSUME d \notin Targets, how'[d] = how[d], block'[d] = block[d], d \notin cleared,
               \A v \in Value : MarksAs(d, v) => MarksAs(d, v)'
        PROVE  \E v \in Value : v = block'[d] /\ MarksAs(d, v)'
    BY <1>1, <1>2 DEF MarkInv
  <1>3. SameTargets => Targets' = Targets
    BY DEF SameTargets, Targets
  <1>4. CASE SameTargets /\ Calm
    BY <1>2, <1>3, <1>4, MarksKept DEF Calm
  <1>5. ASSUME SameTargets, NEW b \in Block, Written(b)
        PROVE  \E v \in Value : v = block'[d] /\ MarksAs(d, v)'
    <2>1. {b} \in SUBSET Block /\ Change({b}, "marked") /\ Mark(b, changes + 1)
      BY <1>5 DEF Written
    <2>2. /\ changes + 1 \in Value /\ block'[b] = changes + 1
          /\ \A e \in Block \ {b} : block'[e] = block[e] /\ how'[e] = how[e]
      BY <1>1, <2>1, Changed
    <2>3. PICK v \in Value : v = changes + 1
      BY <2>2
    <2>4. /\ MarksAs(b, v)' /\ cleared' = cleared \ {b}
          /\ \A e \in Block \ {b}, w \in Value : MarksAs(e, w) => MarksAs(e, w)'
      BY <1>1, <2>1, <2>3, MarkedType
    <2> QED
      BY <1>2, <1>3, <1>5, <2>2, <2>3, <2>4
  <1>6. ASSUME SameTargets, NEW B \in SUBSET Block, Unmarked(B)
        PROVE  \E v \in Value : v = block'[d] /\ MarksAs(d, v)'
    <2>1. PICK kind \in {"chunk", "silent"} : Change(B, kind)
      BY <1>6 DEF Unmarked
    <2>2. d \notin B /\ block'[d] = block[d] /\ how'[d] = how[d]
      BY <1>1, <2>1, Changed
    <2> QED
      BY <1>2, <1>3, <1>6, <2>2, MarksKept DEF Unmarked
  <1>7. CASE SameTargets /\ ClearAll
    <2>1. UNCHANGED <<block, how>> /\ d \notin cleared /\ pending[ChunkOf(d)] = <<>>
      BY <1>7 DEF ClearAll, world_vars
    <2>2. Marked(d) = {}
      BY <2>1 DEF Marked
    <2> QED
      BY <1>3, <1>7, <2>1, <2>2 DEF MarkInv, MarksAs
  <1>8. ASSUME NEW pl \in Players, NEW b \in Block, Place(pl, b)
        PROVE  \E v \in Value : v = block'[d] /\ MarksAs(d, v)'
    <2>1. /\ task'[pl].target = {b} /\ ~Placing(pl)
          /\ \A q \in Players \ {pl} : task'[q] = task[q]
          /\ \A e \in Block \ {b} : block'[e] = block[e] /\ how'[e] = how[e]
          /\ UNCHANGED <<pending, cleared>>
      BY <1>8, Placed
    <2>2. task[pl].target = {}
      BY <2>1 DEF GuardInv
    <2>3. d # b /\ d \notin Targets
      BY <2>1, <2>2 DEF Targets
    <2> QED
      BY <1>2, <2>1, <2>3, MarksKept
  <1>9. ASSUME NEW pl \in Players, NEW b \in Block, MarkPlaced(pl, b)
        PROVE  \E v \in Value : v = block'[d] /\ MarksAs(d, v)'
    <2>1. /\ b \in task[pl].target /\ task'[pl].target = {} /\ Mark(b, block[b])
          /\ \A q \in Players \ {pl} : task'[q] = task[q]
          /\ UNCHANGED <<block, how>>
      BY <1>9, MarkPlacedIs
    <2>2. PICK v \in Value : v = block[b]
      BY <1>1
    <2>3. /\ MarksAs(b, v)' /\ cleared' = cleared \ {b}
          /\ \A e \in Block \ {b}, w \in Value : MarksAs(e, w) => MarksAs(e, w)'
      BY <1>1, <2>1, <2>2, MarkedType
    <2>4. CASE d = b
      BY <2>1, <2>2, <2>3, <2>4
    <2>5. CASE d # b
      <3>1. \A e \in task[pl].target : e = b
        BY <2>1 DEF GuardInv
      <3>2. d \notin Targets
        BY <2>1, <2>5, <3>1 DEF Targets
      <3> QED
        BY <1>2, <2>1, <2>3, <2>5, <3>2
    <2> QED
      BY <2>4, <2>5
  <1> QED
    BY <1>4, <1>5, <1>6, <1>7, <1>8, <1>9, MarkKinds

(* The last entry of a block in the tracker is the block itself, when no   *)
(* one holds its chunk: a player who places a block keeps the guard until  *)
(* the mark, so marks are made in the order of the changes.                *)
THEOREM MarksFollowChanges == Spec => []LastMarkIsBlock
  <1>1. Init => GuardInv /\ MarkInv
    <2> SUFFICES ASSUME Init
                 PROVE  GuardInv /\ MarkInv
      OBVIOUS
    <2>1. \A pl \in Players : task[pl].target = {}
      BY DEF Init, Reading
    <2>2. \A b \in Block : block[b] = 0
      BY DEF Init
    <2> QED
      BY <2>1, <2>2 DEF Init, GuardInv, MarkInv
  <1>2. TypeInv /\ GuardInv /\ MarkInv => LastMarkIsBlock
    <2> SUFFICES ASSUME TypeInv, GuardInv, MarkInv, NEW b \in Block,
                        Free(ChunkOf(b)), how[b] = "marked", b \notin cleared, block[b] # 0
                 PROVE  Marked(b) # {} /\ LastMark(b) = block[b]
      BY DEF LastMarkIsBlock
    <2>1. b \notin Targets
      BY DEF GuardInv, Targets, Free
    <2>2. MarksAs(b, block[b])
      BY <2>1 DEF MarkInv
    <2> QED
      BY <2>2, LastIs DEF TypeInv
  <1>3. TypeInv /\ GuardInv /\ MarkInv /\ [Next]_vars => (TypeInv /\ GuardInv /\ MarkInv)'
    BY TypeStep, GuardStep, MarkStep
  <1> QED
    BY <1>1, <1>2, <1>3, TypeInit, PTL DEF Spec

-----------------------------------------------------------------------------
(* The flush                                                               *)

(* A client is only shown by its own play loop, and never in a step that   *)
(* changes the world or the tracker.                                       *)
LEMMA Views ==
    ASSUME TypeInv, [Next]_vars
    PROVE  \/ UNCHANGED client
           \/ \E pl \in Players : \E c \in Chunks : DrainSection(pl, c) \/ Resend(pl, c)
           \/ \E pl \in Players : \E b \in Block : SendOwnChunk(pl, b)
  BY DEF Next, Iterate, Read, TimeOut, Top, ChooseChunks, TakeChunks, EndFlush, MarkChunk, MarkPlaced,
         Place, FrostWalk, Explode, ChangeSilently, EndExplosion, Oxidize, SeeOverflow, ClearAll, vars

LEMMA ShownTo ==
    ASSUME TypeInv, [Next]_vars
    PROVE  \A pl \in Players, b \in Block :
              \/ client'[pl][b] = client[pl][b]
              \/ UNCHANGED block /\ client'[pl][b] = block[b]
              \/ Marked(b) # {}
  <1>1. WorldOK /\ TrackerOK /\ LoopsOK /\ \A b \in Block : ChunkOf(b) \in Chunks
    BY BlockType DEF TypeInv
  <1>2. ASSUME NEW pl \in Players, NEW c \in Chunks, Snapshot(pl, c), UNCHANGED block
        PROVE  \A q \in Players, b \in Block :
                  client'[q][b] = client[q][b] \/ (UNCHANGED block /\ client'[q][b] = block[b])
    BY <1>1, <1>2, SnapshotType
  <1>3. ASSUME NEW pl \in Players, NEW c \in Chunks, DrainSection(pl, c)
        PROVE  \A q \in Players, b \in Block :
                  client'[q][b] = client[q][b] \/ Marked(b) # {}
    BY <1>1, <1>3, Drained
  <1>4. ASSUME NEW pl \in Players, NEW c \in Chunks, Resend(pl, c)
        PROVE  Snapshot(pl, c) /\ UNCHANGED block
    BY <1>4 DEF Resend, world_vars
  <1>5. ASSUME NEW pl \in Players, NEW b \in Block, SendOwnChunk(pl, b)
        PROVE  Snapshot(pl, ChunkOf(b)) /\ UNCHANGED block
    BY <1>5 DEF SendOwnChunk, world_vars
  <1> QED
    BY <1>1, <1>2, <1>3, <1>4, <1>5, Views

LEMMA UntouchedStep ==
    ASSUME TypeInv, TypeInv', GuardInv, UntouchedInv, [Next]_vars
    PROVE  UntouchedInv'
  <1>1. /\ WorldOK /\ TrackerOK /\ changes + 1 # 0 /\ changes \in Value
        /\ \A b \in Block : block[b] \in Value
        /\ broadcast' \subseteq Chunks /\ affected' \subseteq Chunks /\ overflow' \in BOOLEAN
    <2>1. WorldOK /\ TrackerOK /\ TrackerOK'
      BY DEF TypeInv
    <2>2. broadcast' \subseteq Chunks /\ affected' \subseteq Chunks /\ overflow' \in BOOLEAN
      BY <2>1 DEF TrackerOK
    <2>3. changes \in Value /\ changes + 1 # 0 /\ \A b \in Block : block[b] \in Value
      BY <2>1 DEF WorldOK, Value
    <2> QED
      BY <2>1, <2>2, <2>3
  <1>2. ASSUME NEW b \in Block, block'[b] = 0
        PROVE  block[b] = 0 /\ Marked(b)' = {}
    <2>1. ASSUME NEW B \in SUBSET Block, NEW kind \in {"marked", "chunk", "silent"}, Change(B, kind)
          PROVE  b \notin B /\ block[b] = 0
      BY <1>1, <1>2, <2>1, Changed
    <2>2. CASE Calm
      BY <1>2, <2>2, MarksKept DEF Calm, UntouchedInv
    <2>3. ASSUME NEW d \in Block, Written(d)
          PROVE  block[b] = 0 /\ Marked(b)' = {}
      <3>1. {d} \in SUBSET Block /\ Change({d}, "marked") /\ Mark(d, changes + 1)
        BY <2>3 DEF Written
      <3>2. changes + 1 \in Value
        BY <1>1, <3>1, Changed
      <3>3. b # d /\ block[b] = 0
        BY <2>1, <3>1
      <3> QED
        BY <1>1, <3>1, <3>2, <3>3, MarkedType DEF UntouchedInv
    <2>4. ASSUME NEW B \in SUBSET Block, Unmarked(B)
          PROVE  block[b] = 0 /\ Marked(b)' = {}
      BY <2>1, <2>4, MarksKept DEF Unmarked, UntouchedInv
    <2>5. CASE ClearAll
      <3>1. UNCHANGED block /\ pending'[ChunkOf(b)] = <<>>
        BY <2>5, BlockType DEF ClearAll, world_vars
      <3> QED
        BY <1>2, <3>1 DEF Marked
    <2>6. ASSUME NEW pl \in Players, NEW d \in Block, Place(pl, d)
          PROVE  block[b] = 0 /\ Marked(b)' = {}
      <3>1. {d} \in SUBSET Block /\ Change({d}, "marked") /\ UNCHANGED <<pending, cleared>>
        BY <2>6 DEF Place
      <3> QED
        BY <2>1, <3>1, MarksKept DEF UntouchedInv
    <2>7. ASSUME NEW pl \in Players, NEW d \in Block, MarkPlaced(pl, d)
          PROVE  block[b] = 0 /\ Marked(b)' = {}
      <3>1. d \in task[pl].target /\ Mark(d, block[d]) /\ UNCHANGED block
        BY <2>7, MarkPlacedIs
      <3>2. block[b] = 0 /\ b # d
        BY <1>2, <3>1 DEF GuardInv
      <3> QED
        BY <1>1, <3>1, <3>2, MarkedType DEF UntouchedInv
    <2> QED
      BY <2>2, <2>3, <2>4, <2>5, <2>6, <2>7, MarkKinds
  <1>3. ASSUME NEW b \in Block, block'[b] = 0, NEW pl \in Players
        PROVE  client'[pl][b] = 0
    BY <1>2, <1>3, ShownTo DEF UntouchedInv
  <1> QED
    BY <1>2, <1>3 DEF UntouchedInv

(* What a step does to the flush of one play loop.                         *)
FlushBegins(pl) ==
    /\ task'[pl].stage = "draining" /\ task'[pl].todo = Near[pl]
    /\ task'[pl].since = changes /\ \A c \in task'[pl].free : Free(c)
    /\ UNCHANGED <<block, changes>> /\ SameTargets

SameFlush(pl) ==
    /\ Flushing(pl)
    /\ task'[pl].since = task[pl].since /\ task'[pl].free = task[pl].free

Continues(pl) ==
    /\ SameFlush(pl)
    /\ client'[pl] = client[pl]
    /\ \A b \in Block : Undrained(pl, b)' <=> Undrained(pl, b)

Drains(pl, c) ==
    /\ SameFlush(pl) /\ SameTargets
    /\ DrainSection(pl, c)
    /\ \A b \in Block : Undrained(pl, b) => Undrained(pl, b)' \/ ChunkOf(b) = c

Resends(pl, c) ==
    /\ SameFlush(pl) /\ SameTargets
    /\ Resend(pl, c)
    /\ \A b \in Block : ~Undrained(pl, b)

FlushMove(pl) ==
    \/ ~Flushing(pl)' \/ FlushBegins(pl) \/ Continues(pl)
    \/ \E c \in Chunks : Drains(pl, c) \/ Resends(pl, c)

LEMMA FlushMoves ==
    ASSUME TypeInv, [Next]_vars, NEW pl \in Players
    PROVE  FlushMove(pl)
  <1>1. WorldOK /\ TrackerOK /\ LoopsOK /\ task \in [Players -> Task]
    BY DEF TypeInv, LoopsOK
  <1>2. ASSUME task'[pl] = task[pl], client'[pl] = client[pl]
        PROVE  FlushMove(pl)
    BY <1>2 DEF FlushMove, Continues, SameFlush, Flushing, Undrained
  <1>3. ASSUME NEW t, Update(pl, t), t.stage \notin {"draining", "taking", "resending"}
        PROVE  FlushMove(pl)
    BY <1>1, <1>3, Updated DEF FlushMove, Flushing
  <1>4. ASSUME NEW st \in Stages, st \notin {"draining", "taking", "resending"}, ToStage(pl, st)
        PROVE  FlushMove(pl)
    <2> DEFINE t == [task[pl] EXCEPT !.stage = st]
    <2>1. t.stage = st
      BY <1>1, TaskFields DEF Task
    <2>2. Update(pl, t)
      BY <1>4 DEF ToStage
    <2> HIDE DEF t
    <2> QED
      BY <1>3, <1>4, <2>1, <2>2
  <1>5. ASSUME Read(pl) \/ EndFlush(pl)
               \/ \E b \in Block : SendOwnChunk(pl, b) \/ MarkChunk(pl, b) \/ FrostWalk(pl, b)
        PROVE  FlushMove(pl)
    <2> QED
      BY <1>4, <1>5 DEF Read, EndFlush, SendOwnChunk, MarkChunk, FrostWalk, Stages
  <1>6. CASE TimeOut(pl)
    <2> DEFINE t == [task[pl] EXCEPT !.stage = "handled", !.elapsed = @ + 1]
    <2>1. t.stage = "handled"
      BY <1>1, TaskFields DEF Task
    <2>2. Update(pl, t)
      BY <1>6 DEF TimeOut
    <2> HIDE DEF t
    <2> QED
      BY <1>3, <2>1, <2>2
  <1>7. CASE \E b \in Block : Place(pl, b) \/ MarkPlaced(pl, b)
    BY <1>7, Placed, MarkPlacedIs DEF FlushMove
  <1>8. CASE Top(pl)
    <2> DEFINE count == (task[pl].count + 1) % Period
               t1 == [task[pl] EXCEPT !.stage = "reading", !.count = count]
               t2 == [task[pl] EXCEPT !.stage = "reading", !.count = count, !.elapsed = 0]
               t3 == [task[pl] EXCEPT !.stage = "draining", !.count = count, !.elapsed = 0,
                             !.todo = Near[pl], !.since = changes,
                             !.free = {c \in Chunks : Free(c)}]
    <2>1. /\ Update(pl, t1) \/ Update(pl, t2) \/ Update(pl, t3)
          /\ UNCHANGED world_vars
      BY <1>8 DEF Top
    <2> HIDE DEF count
    <2>2. /\ t1.stage = "reading" /\ t2.stage = "reading"
          /\ t3.stage = "draining" /\ t3.todo = Near[pl] /\ t3.since = changes
          /\ t3.free = {c \in Chunks : Free(c)} /\ t3.target = task[pl].target
      BY <1>1, TaskFields DEF Task
    <2> HIDE DEF t1, t2, t3
    <2>3. CASE Update(pl, t3)
      <3>1. task'[pl] = t3 /\ \A q \in Players \ {pl} : task'[q] = task[q]
        BY <1>1, <2>3, Updated
      <3>2. SameTargets
        BY <2>2, <3>1 DEF SameTargets
      <3> QED
        BY <2>1, <2>2, <3>1, <3>2 DEF FlushMove, FlushBegins, world_vars
    <2> QED
      BY <1>3, <2>1, <2>2, <2>3
  <1>9. ASSUME NEW c \in Chunks, DrainSection(pl, c) \/ Resend(pl, c)
        PROVE  Drains(pl, c) \/ Resends(pl, c)
    <2> DEFINE t == [task[pl] EXCEPT !.todo = @ \ {c}]
    <2>1. /\ t.stage = task[pl].stage /\ t.since = task[pl].since /\ t.free = task[pl].free
          /\ t.target = task[pl].target /\ t.todo = task[pl].todo \ {c}
      BY <1>1, TaskFields DEF Task
    <2>2. Update(pl, t) /\ task[pl].stage \in {"draining", "resending"}
      BY <1>9 DEF DrainSection, Resend
    <2> HIDE DEF t
    <2>3. task'[pl] = t /\ \A q \in Players \ {pl} : task'[q] = task[q]
      BY <1>1, <2>2, Updated
    <2>4. SameTargets /\ SameFlush(pl)
      BY <2>1, <2>2, <2>3 DEF SameTargets, SameFlush, Flushing
    <2>5. DrainSection(pl, c) => Drains(pl, c)
      BY <2>1, <2>3, <2>4 DEF Drains, Undrained
    <2>6. Resend(pl, c) => Resends(pl, c)
      BY <2>4 DEF Resends, Resend, Undrained
    <2> QED
      BY <1>9, <2>5, <2>6
  <1>10. CASE ChooseChunks(pl) \/ TakeChunks(pl)
    <2> DEFINE t1 == [task[pl] EXCEPT !.stage = "taking", !.todo = broadcast \cap Near[pl]]
               t2 == [task[pl] EXCEPT !.stage = "resending"]
    <2>1. /\ t1.stage = "taking" /\ t1.since = task[pl].since /\ t1.free = task[pl].free
          /\ t2.stage = "resending" /\ t2.since = task[pl].since /\ t2.free = task[pl].free
      BY <1>1, TaskFields DEF Task
    <2>2. /\ Update(pl, t1) \/ Update(pl, t2)
          /\ UNCHANGED client /\ Flushing(pl) /\ \A b \in Block : ~Undrained(pl, b)
      BY <1>10 DEF ChooseChunks, TakeChunks, ToStage, Flushing, Undrained
    <2> HIDE DEF t1, t2
    <2>3. task'[pl] = t1 \/ task'[pl] = t2
      BY <1>1, <2>2, Updated
    <2> QED
      BY <2>1, <2>2, <2>3 DEF FlushMove, Continues, SameFlush, Undrained
  <1>11. ASSUME NEW q \in Players \ {pl},
                \/ Read(q) \/ (\E b \in Block : Place(q, b) \/ FrostWalk(q, b)) \/ Iterate(q)
         PROVE  FlushMove(pl)
    <2>1. \E t \in Task : Update(q, t)
      BY <1>1, <1>11, TaskMoves DEF Iterate, WorldOK, TrackerOK
    <2>2. task'[pl] = task[pl]
      BY <1>1, <2>1, Updated
    <2>3. client'[pl] = client[pl]
      <3>1. CASE UNCHANGED client
        BY <3>1
      <3>2. CASE \E c \in Chunks : DrainSection(q, c)
        BY <1>1, <3>2, Drained
      <3>3. CASE \E c \in Chunks : Snapshot(q, c)
        BY <1>1, <3>3, SnapshotType
      <3> QED
        BY <1>11, <3>1, <3>2, <3>3, BlockType
        DEF Iterate, Read, TimeOut, Top, ChooseChunks, TakeChunks, EndFlush, MarkChunk, MarkPlaced,
            Place, FrostWalk, Resend, SendOwnChunk
    <2> QED
      BY <1>2, <2>2, <2>3
  <1>12. CASE \/ \E b \in Block : Explode(b) \/ ChangeSilently(b)
              \/ \E c \in Chunks : Oxidize(c)
              \/ EndExplosion \/ SeeOverflow \/ ClearAll \/ UNCHANGED vars
    <2>1. UNCHANGED <<task, client>>
      BY <1>12 DEF Explode, ChangeSilently, Oxidize, EndExplosion, SeeOverflow, ClearAll, vars
    <2> QED
      BY <1>2, <2>1
  <1> QED
    BY <1>5, <1>6, <1>7, <1>8, <1>9, <1>10, <1>11, <1>12 DEF Next, Iterate, FlushMove

LEMMA Guarded ==
    ASSUME TypeInv, GuardInv
    PROVE  \A pl \in Players : \A b \in task[pl].target : b \in Block /\ ~Free(ChunkOf(b))
  <1>1. task \in [Players -> Task]
    BY DEF TypeInv, LoopsOK
  <1>2. \A pl \in Players : task[pl].target \subseteq Block
    BY <1>1, TaskFields
  <1>3. \A pl \in Players : \A b \in task[pl].target : guard[ChunkOf(b)] = {pl}
    BY DEF GuardInv
  <1> QED
    BY <1>2, <1>3 DEF Free

(* A block that is marked and not cleared after a step was so before it,   *)
(* with the same value, unless the step changed it or marked it: a changed *)
(* block is newer than every flush, and a marked one was being placed.     *)
LEMMA Settled ==
    ASSUME TypeInv, GuardInv, [Next]_vars
    PROVE  /\ changes \in Nat /\ changes' \in Nat /\ changes <= changes'
           /\ \A b \in Block : how'[b] = "marked" /\ b \notin cleared' =>
                 \/ block'[b] = changes + 1
                 \/ block'[b] = block[b] /\ b \in Targets
                 \/ block'[b] = block[b] /\ how[b] = "marked" /\ b \notin cleared
           /\ \A b \in Targets' : (b \in Targets /\ block'[b] = block[b]) \/ block'[b] = changes + 1
  <1>1. /\ WorldOK /\ TrackerOK /\ changes \in Nat
        /\ \A b \in Block : {b} \in SUBSET Block
    BY DEF TypeInv, WorldOK, Value
  <1>2. ASSUME NEW B \in SUBSET Block, NEW kind \in {"marked", "chunk", "silent"}, Change(B, kind)
        PROVE  /\ changes' = changes + 1
               /\ \A b \in B : block'[b] = changes + 1 /\ how'[b] = kind
               /\ \A b \in Block \ B : block'[b] = block[b] /\ how'[b] = how[b]
    BY <1>1, <1>2, Changed
  <1>3. \/ changes' = changes \/ changes' = changes + 1
    BY <1>1, <1>2, MarkKinds, Placed, MarkPlacedIs DEF Calm, Written, Unmarked, ClearAll, world_vars
  <1>4. ASSUME NEW b \in Block, how'[b] = "marked", b \notin cleared'
        PROVE  \/ block'[b] = changes + 1
               \/ block'[b] = block[b] /\ b \in Targets
               \/ block'[b] = block[b] /\ how[b] = "marked" /\ b \notin cleared
    <2>1. CASE Calm
      BY <1>4, <2>1 DEF Calm
    <2>2. ASSUME NEW d \in Block, Written(d)
          PROVE  \/ block'[b] = changes + 1
                 \/ block'[b] = block[b] /\ how[b] = "marked" /\ b \notin cleared
      BY <1>1, <1>2, <1>4, <2>2 DEF Written, Mark
    <2>3. ASSUME NEW B \in SUBSET Block, Unmarked(B)
          PROVE  block'[b] = block[b] /\ how[b] = "marked" /\ b \notin cleared
      BY <1>2, <1>4, <2>3 DEF Unmarked
    <2>4. CASE ClearAll
      BY <1>4, <2>4 DEF ClearAll, world_vars
    <2>5. ASSUME NEW pl \in Players, NEW d \in Block, Place(pl, d)
          PROVE  \/ block'[b] = changes + 1
                 \/ block'[b] = block[b] /\ how[b] = "marked" /\ b \notin cleared
      BY <1>4, <2>5, Placed
    <2>6. ASSUME NEW pl \in Players, NEW d \in Block, MarkPlaced(pl, d)
          PROVE  \/ block'[b] = block[b] /\ b \in Targets
                 \/ block'[b] = block[b] /\ how[b] = "marked" /\ b \notin cleared
      BY <1>4, <2>6, MarkPlacedIs DEF Targets, Mark
    <2> QED
      BY <2>1, <2>2, <2>3, <2>4, <2>5, <2>6, MarkKinds
  <1>5. ASSUME NEW b \in Targets'
        PROVE  (b \in Targets /\ block'[b] = block[b]) \/ block'[b] = changes + 1
    <2>1. PICK pl \in Players : b \in task'[pl].target
      BY <1>5 DEF Targets
    <2>2. \A q \in Players : \A d \in task[q].target : d \in Block /\ ~Free(ChunkOf(d))
      BY Guarded
    <2>3. CASE /\ \A q \in Players : task'[q].target = task[q].target
               /\ \A d \in Block : ~Free(ChunkOf(d)) => block'[d] = block[d] /\ how'[d] = how[d]
      BY <2>1, <2>2, <2>3 DEF Targets
    <2>4. ASSUME NEW q \in Players, NEW d \in Block, Place(q, d)
          PROVE  (b \in Targets /\ block'[b] = block[b]) \/ block'[b] = changes + 1
      BY <2>1, <2>2, <2>4, Placed DEF Targets
    <2>5. ASSUME NEW q \in Players, NEW d \in Block, MarkPlaced(q, d)
          PROVE  b \in Targets /\ block'[b] = block[b]
      BY <2>1, <2>5, MarkPlacedIs DEF Targets
    <2> QED
      BY <2>3, <2>4, <2>5, Targets1 DEF Targeting
  <1> QED
    BY <1>1, <1>3, <1>4, <1>5

LEMMA FlushStep ==
    ASSUME TypeInv, GuardInv, MarkInv, UntouchedInv, FlushInv, [Next]_vars
    PROVE  FlushInv'
  <1>1. WorldOK /\ TrackerOK /\ LoopsOK /\ \A b \in Block : ChunkOf(b) \in Chunks /\ block[b] \in Nat
    BY BlockType DEF TypeInv, WorldOK, Value
  <1>2. /\ changes \in Nat /\ changes' \in Nat /\ changes <= changes'
        /\ \A b \in Block : how'[b] = "marked" /\ b \notin cleared' =>
                 \/ block'[b] = changes + 1
                 \/ block'[b] = block[b] /\ b \in Targets
                 \/ block'[b] = block[b] /\ how[b] = "marked" /\ b \notin cleared
        /\ \A b \in Targets' : (b \in Targets /\ block'[b] = block[b]) \/ block'[b] = changes + 1
    BY Settled
  <1>3. \A pl \in Players : task[pl].since \in Nat
    BY <1>1, TaskFields DEF LoopsOK, Value
  <1>4. \A b \in Targets : ~Free(ChunkOf(b)) /\ b \in Block
    BY Guarded DEF Targets
  <1> SUFFICES ASSUME NEW pl \in Players, Flushing(pl)'
               PROVE  /\ task'[pl].since <= changes'
                      /\ \A b \in Targets' : ChunkOf(b) \in task'[pl].free => block'[b] > task'[pl].since
                      /\ \A b \in Block : Owed(pl, b)' /\ ~Undrained(pl, b)' => client'[pl][b] = block'[b]
    BY DEF FlushInv, Owed
  <1>5. CASE FlushBegins(pl)
    <2>1. \A b \in Targets' : ~(ChunkOf(b) \in task'[pl].free)
      BY <1>4, <1>5 DEF FlushBegins, SameTargets, Targets
    <2>2. \A b \in Block : Owed(pl, b)' => Undrained(pl, b)'
      BY <1>5 DEF FlushBegins, Owed, Undrained
    <2> QED
      BY <1>2, <1>5, <2>1, <2>2 DEF FlushBegins
  <1>6. ASSUME SameFlush(pl)
        PROVE  /\ task'[pl].since <= changes'
               /\ \A b \in Targets' : ChunkOf(b) \in task'[pl].free => block'[b] > task'[pl].since
               /\ \A b \in Block : Owed(pl, b)' =>
                     block'[b] = block[b] /\ Owed(pl, b) /\ b \notin Targets
    <2>1. task[pl].since <= changes
      BY <1>6 DEF SameFlush, FlushInv
    <2>2. task'[pl].since = task[pl].since /\ task'[pl].free = task[pl].free /\ changes + 1 > task[pl].since
      BY <1>2, <1>3, <1>6, <2>1 DEF SameFlush
    <2>3. \A b \in Targets : ChunkOf(b) \in task[pl].free => block[b] > task[pl].since
      BY <1>6 DEF SameFlush, FlushInv
    <2>4. task'[pl].since <= changes'
      BY <1>2, <1>3, <2>1, <2>2
    <2>5. ASSUME NEW b \in Block, Owed(pl, b)'
          PROVE  block'[b] = block[b] /\ Owed(pl, b) /\ b \notin Targets
      <3>1. /\ ChunkOf(b) \in Near[pl] \cap task[pl].free /\ how'[b] = "marked" /\ b \notin cleared'
            /\ block'[b] <= task[pl].since
        BY <2>2, <2>5 DEF Owed
      <3>2. block'[b] # changes + 1
        BY <1>2, <1>3, <2>2, <3>1
      <3>3. block'[b] = block[b]
        BY <1>2, <3>1, <3>2
      <3>4. b \notin Targets
        BY <1>1, <1>3, <2>3, <3>1, <3>3
      <3>5. how[b] = "marked" /\ b \notin cleared
        BY <1>2, <3>1, <3>2, <3>4
      <3> QED
        BY <1>6, <3>1, <3>3, <3>4, <3>5 DEF Owed, SameFlush
    <2> QED
      BY <1>2, <2>2, <2>3, <2>4, <2>5
  <1>7. CASE Continues(pl)
    <2>1. SameFlush(pl)
      BY <1>7 DEF Continues
    <2>2. \A b \in Block : Owed(pl, b)' /\ ~Undrained(pl, b)' => client'[pl][b] = block'[b]
      BY <1>6, <1>7, <2>1 DEF Continues, FlushInv
    <2> QED
      BY <1>6, <2>1, <2>2
  <1>8. ASSUME NEW c \in Chunks, Drains(pl, c)
        PROVE  \A b \in Block : Owed(pl, b)' /\ ~Undrained(pl, b)' => client'[pl][b] = block'[b]
    <2>1. DrainSection(pl, c) /\ SameFlush(pl)
      BY <1>8 DEF Drains
    <2> SUFFICES ASSUME NEW b \in Block, Owed(pl, b)', ~Undrained(pl, b)'
                 PROVE  client'[pl][b] = block'[b]
      OBVIOUS
    <2>2. block'[b] = block[b] /\ Owed(pl, b) /\ b \notin Targets
      BY <1>6, <2>1
    <2>3. client'[pl][b] = IF ChunkOf(b) = c /\ Marked(b) # {} THEN LastMark(b) ELSE client[pl][b]
      BY <1>1, <2>1, Drained
    <2>4. CASE ChunkOf(b) # c
      <3>1. client'[pl][b] = client[pl][b] /\ ~Undrained(pl, b)
        BY <1>8, <2>3, <2>4 DEF Drains
      <3> QED
        BY <2>2, <3>1 DEF FlushInv
    <2>5. CASE ChunkOf(b) = c /\ block[b] = 0
      BY <2>2, <2>3, <2>5 DEF UntouchedInv
    <2>6. CASE ChunkOf(b) = c /\ block[b] # 0
      <3>1. MarksAs(b, block[b])
        BY <2>2, <2>6 DEF MarkInv, Owed
      <3> QED
        BY <1>1, <2>2, <2>3, <2>6, <3>1, LastIs
    <2> QED
      BY <2>4, <2>5, <2>6
  <1>9. ASSUME NEW c \in Chunks, Resends(pl, c)
        PROVE  \A b \in Block : Owed(pl, b)' /\ ~Undrained(pl, b)' => client'[pl][b] = block'[b]
    <2>1. Snapshot(pl, c) /\ SameFlush(pl) /\ \A b \in Block : ~Undrained(pl, b)
      BY <1>9 DEF Resends, Resend
    <2>2. \A b \in Block : client'[pl][b] = IF ChunkOf(b) = c THEN block[b] ELSE client[pl][b]
      BY <1>1, <2>1, SnapshotType
    <2> QED
      BY <1>6, <2>1, <2>2 DEF FlushInv
  <1> QED
    BY <1>5, <1>6, <1>7, <1>8, <1>9, FlushMoves DEF FlushMove, Drains, Resends

(* After its flush a client shows every block near it that was marked when *)
(* the flush began and has not changed since: a mark taken in the section  *)
(* is the last one, and what was being placed then is newer than the flush.*)
THEOREM FlushesShowMarks == Spec => []FlushShowsMarked
  <1>1. Init => GuardInv /\ MarkInv /\ UntouchedInv /\ FlushInv
    <2> SUFFICES ASSUME Init
                 PROVE  GuardInv /\ MarkInv /\ UntouchedInv /\ FlushInv
      OBVIOUS
    <2>1. \A pl \in Players : task[pl].target = {} /\ ~Flushing(pl)
      BY DEF Init, Reading, Flushing
    <2>2. \A b \in Block : /\ block[b] = 0 /\ Marked(b) = {}
                           /\ \A pl \in Players : client[pl][b] = 0
      BY BlockType DEF Init, Marked
    <2> QED
      BY <2>1, <2>2 DEF Init, GuardInv, MarkInv, UntouchedInv, FlushInv, Owed
  <1>2. FlushInv => FlushShowsMarked
    BY DEF FlushInv, FlushShowsMarked, Owed, Flushing, Undrained
  <1>3. TypeInv /\ GuardInv /\ MarkInv /\ UntouchedInv /\ FlushInv /\ [Next]_vars =>
          (TypeInv /\ GuardInv /\ MarkInv /\ UntouchedInv /\ FlushInv)'
    BY TypeStep, GuardStep, MarkStep, UntouchedStep, FlushStep
  <1> QED
    BY <1>1, <1>2, <1>3, TypeInit, PTL DEF Spec

-----------------------------------------------------------------------------
(* Terrain.  Between two passes a column nobody built in has the sand and  *)
(* the crops it had.  In the middle of a pass that is not so: a block that *)
(* falls is written below before it is taken away above.  What stays the   *)
(* same is what the column comes to once every pending update is written.  *)
BlockKinds == Solids \cup {"air"}
Writes == Seq(Site \X BlockKinds)

(* The updates q, applied to l, leave a kind of block at t: the last one   *)
(* for t writes it, or none is for t and it is there already.              *)
Leaves(l, q, t, kind) ==
    \/ \E i \in DOMAIN q : q[i] = <<t, kind>> /\ \A j \in DOMAIN q : j > i => q[j][1] # t
    \/ l[t] = kind /\ \A i \in DOMAIN q : q[i][1] # t

Coming(x, kind) == {y \in 0..Tall - 1 : Leaves(ground, pass.updates, <<x, y>>, kind)}

PassStages == {"none", "weigh", "apply", "sow", "spikes"}
PassType == [stage : PassStages, todo : SUBSET Site, seen : SUBSET (Site \X BlockKinds),
             updates : Writes, resolved : SUBSET Site]

LandType ==
    /\ ground \in [Site -> BlockKinds] /\ before \in [Site -> BlockKinds]
    /\ falling \in SUBSET Site
    /\ ages \in [Site -> 0..Ripe]
    /\ pass \in PassType
    /\ touched \in SUBSET (0..Wide - 1)
    /\ built \in 0..MaxEdits0 /\ passes \in 0..MaxPasses

LEMMA SiteIs ==
    ASSUME NEW s \in Site
    PROVE  /\ s = <<s[1], s[2]>> /\ s[1] \in 0..Wide - 1 /\ s[2] \in 0..Tall - 1
           /\ s[1] \in Int /\ s[2] \in Int /\ Wide \in Nat /\ Tall \in Nat
           /\ Under(s)[1] = s[1] /\ Under(s)[2] = s[2] - 1 /\ Under(s) # s
           /\ Over(Under(s)) = s
           /\ Over(s)[1] = s[1] /\ Over(s)[2] = s[2] + 1
  BY TerrainAssumption DEF Site, Under, Over

LEMMA WriteFields ==
    ASSUME NEW q \in Writes, NEW i \in DOMAIN q
    PROVE  q[i][1] \in Site /\ q[i][2] \in BlockKinds
  BY DEF Writes

LEMMA WrittenFirst ==
    ASSUME NEW l \in [Site -> BlockKinds], NEW q \in Writes, q # <<>>, NEW t \in Site, NEW kind
    PROVE  Leaves([l EXCEPT ![Head(q)[1]] = Head(q)[2]], Tail(q), t, kind) <=> Leaves(l, q, t, kind)
<1> DEFINE m == [l EXCEPT ![Head(q)[1]] = Head(q)[2]]
<1>1. /\ Len(q) \in Nat \ {0} /\ DOMAIN q = 1..Len(q) /\ Head(q) = q[1] /\ q[1] \in Site \X BlockKinds
      /\ DOMAIN Tail(q) = 1..Len(q) - 1 /\ \A i \in 1..Len(q) - 1 : Tail(q)[i] = q[i + 1]
  BY DEF Writes
<1>2. m[t] = IF t = q[1][1] THEN q[1][2] ELSE l[t]
  BY <1>1
<1> HIDE DEF m
<1>3. ASSUME Leaves(m, Tail(q), t, kind) PROVE Leaves(l, q, t, kind)
  <2>1. ASSUME NEW i \in DOMAIN Tail(q), Tail(q)[i] = <<t, kind>>, \A j \in DOMAIN Tail(q) : j > i => Tail(q)[j][1] # t
        PROVE  Leaves(l, q, t, kind)
    <3>1. i + 1 \in DOMAIN q /\ q[i + 1] = <<t, kind>>
      BY <1>1, <2>1
    <3>2. ASSUME NEW j \in DOMAIN q, j > i + 1 PROVE q[j][1] # t
      <4>1. j - 1 \in DOMAIN Tail(q) /\ j - 1 > i /\ Tail(q)[j - 1] = q[j]
        BY <1>1, <3>2
      <4> QED BY <4>1, <2>1
    <3> QED BY <3>1, <3>2 DEF Leaves
  <2>2. ASSUME m[t] = kind, \A i \in DOMAIN Tail(q) : Tail(q)[i][1] # t
        PROVE  Leaves(l, q, t, kind)
    <3>1. ASSUME NEW j \in DOMAIN q, j > 1 PROVE q[j][1] # t
      <4>1. j - 1 \in DOMAIN Tail(q) /\ Tail(q)[j - 1] = q[j]
        BY <1>1, <3>1
      <4> QED BY <4>1, <2>2
    <3>2. CASE t = q[1][1]
      <4>1. 1 \in DOMAIN q /\ q[1] = <<t, kind>>
        BY <1>1, <1>2, <2>2, <3>2
      <4> QED BY <4>1, <3>1 DEF Leaves
    <3>3. CASE t # q[1][1]
      <4>1. l[t] = kind
        BY <1>2, <2>2, <3>3
      <4>2. ASSUME NEW j \in DOMAIN q PROVE q[j][1] # t
        BY <1>1, <3>1, <3>3
      <4> QED BY <4>1, <4>2 DEF Leaves
    <3> QED BY <3>2, <3>3
  <2> QED BY <1>3, <2>1, <2>2 DEF Leaves
<1>4. ASSUME Leaves(l, q, t, kind) PROVE Leaves(m, Tail(q), t, kind)
  <2>1. ASSUME NEW i \in DOMAIN q, q[i] = <<t, kind>>, \A j \in DOMAIN q : j > i => q[j][1] # t
        PROVE  Leaves(m, Tail(q), t, kind)
    <3>1. ASSUME NEW j \in DOMAIN Tail(q), j + 1 > i PROVE Tail(q)[j][1] # t
      BY <1>1, <2>1, <3>1
    <3>2. CASE i = 1
      <4>1. m[t] = kind
        BY <1>2, <2>1, <3>2
      <4>2. \A j \in DOMAIN Tail(q) : Tail(q)[j][1] # t
        BY <1>1, <3>1, <3>2
      <4> QED BY <4>1, <4>2 DEF Leaves
    <3>3. CASE i # 1
      <4>1. i - 1 \in DOMAIN Tail(q) /\ Tail(q)[i - 1] = <<t, kind>>
        BY <1>1, <2>1, <3>3
      <4>2. \A j \in DOMAIN Tail(q) : j > i - 1 => Tail(q)[j][1] # t
        BY <1>1, <3>1
      <4> QED BY <4>1, <4>2 DEF Leaves
    <3> QED BY <3>2, <3>3
  <2>2. ASSUME l[t] = kind, \A i \in DOMAIN q : q[i][1] # t
        PROVE  Leaves(m, Tail(q), t, kind)
    <3>1. m[t] = kind
      BY <1>1, <1>2, <2>2
    <3>2. \A j \in DOMAIN Tail(q) : Tail(q)[j][1] # t
      BY <1>1, <2>2
    <3> QED BY <3>1, <3>2 DEF Leaves
  <2> QED BY <1>4, <2>1, <2>2 DEF Leaves
<1> QED BY <1>3, <1>4 DEF m

LEMMA Joined ==
    ASSUME NEW q \in Writes, NEW r \in Writes
    PROVE  /\ q \o r \in Writes
           /\ Len(q) \in Nat /\ Len(r) \in Nat /\ DOMAIN q = 1..Len(q) /\ DOMAIN r = 1..Len(r)
           /\ DOMAIN (q \o r) = 1..Len(q) + Len(r)
           /\ \A i \in 1..Len(q) : (q \o r)[i] = q[i]
           /\ \A i \in 1..Len(r) : (q \o r)[Len(q) + i] = r[i]
  BY DEF Writes

(* A site that only the first of two sequences of updates writes, and one  *)
(* that only the second one writes.                                        *)
LEMMA WrittenBefore ==
    ASSUME NEW l, NEW q \in Writes, NEW r \in Writes, NEW t, NEW kind,
           \A i \in DOMAIN r : r[i][1] # t
    PROVE  Leaves(l, q \o r, t, kind) <=> Leaves(l, q, t, kind)
<1> DEFINE n == Len(q)
           b == q \o r
<1>1. /\ n \in Nat /\ Len(r) \in Nat /\ DOMAIN q = 1..n /\ DOMAIN r = 1..Len(r) /\ DOMAIN b = 1..n + Len(r)
      /\ \A i \in 1..n : b[i] = q[i]
      /\ \A i \in 1..Len(r) : b[n + i] = r[i]
  BY Joined
<1> HIDE DEF n, b
<1>2. ASSUME NEW j \in DOMAIN b, j \notin DOMAIN q PROVE b[j][1] # t
  <2>1. j - n \in DOMAIN r /\ b[j] = r[j - n]
    BY <1>1, <1>2
  <2> QED BY <2>1
<1>3. \A j \in DOMAIN q : j \in DOMAIN b /\ b[j] = q[j]
  BY <1>1
<1>4. ASSUME Leaves(l, b, t, kind) PROVE Leaves(l, q, t, kind)
  <2>1. ASSUME NEW i \in DOMAIN b, b[i] = <<t, kind>>, \A j \in DOMAIN b : j > i => b[j][1] # t
        PROVE  Leaves(l, q, t, kind)
    <3>1. i \in DOMAIN q
      BY <1>2, <2>1
    <3> QED BY <1>3, <2>1, <3>1 DEF Leaves
  <2> QED BY <1>3, <1>4, <2>1 DEF Leaves
<1>5. ASSUME Leaves(l, q, t, kind) PROVE Leaves(l, b, t, kind)
  <2>1. ASSUME NEW i \in DOMAIN q, q[i] = <<t, kind>>, \A j \in DOMAIN q : j > i => q[j][1] # t
        PROVE  Leaves(l, b, t, kind)
    <3>1. \A j \in DOMAIN b : j > i => b[j][1] # t
      BY <1>2, <1>3, <2>1
    <3> QED BY <1>3, <2>1, <3>1 DEF Leaves
  <2>2. ASSUME l[t] = kind, \A i \in DOMAIN q : q[i][1] # t PROVE Leaves(l, b, t, kind)
    <3>1. \A j \in DOMAIN b : b[j][1] # t
      BY <1>2, <1>3, <2>2
    <3> QED BY <2>2, <3>1 DEF Leaves
  <2> QED BY <1>5, <2>1, <2>2 DEF Leaves
<1> QED BY <1>4, <1>5 DEF b

LEMMA WrittenAfter ==
    ASSUME NEW l, NEW q \in Writes, NEW r \in Writes, NEW t, NEW kind,
           \A i \in DOMAIN q : q[i][1] # t
    PROVE  Leaves(l, q \o r, t, kind) <=> Leaves(l, r, t, kind)
<1> DEFINE n == Len(q)
           b == q \o r
<1>1. /\ n \in Nat /\ Len(r) \in Nat /\ DOMAIN q = 1..n /\ DOMAIN r = 1..Len(r) /\ DOMAIN b = 1..n + Len(r)
      /\ \A i \in 1..n : b[i] = q[i]
      /\ \A i \in 1..Len(r) : b[n + i] = r[i]
  BY Joined
<1> HIDE DEF n, b
<1>2. \A j \in 1..n : j \in DOMAIN b /\ b[j][1] # t
  BY <1>1
<1>3. \A j \in DOMAIN r : n + j \in DOMAIN b /\ b[n + j] = r[j]
  BY <1>1
<1>4. \A j \in DOMAIN b : j \in 1..n \/ (j - n \in DOMAIN r /\ j = n + (j - n) /\ b[j] = r[j - n])
  BY <1>1
<1>5. ASSUME Leaves(l, b, t, kind) PROVE Leaves(l, r, t, kind)
  <2>1. ASSUME NEW i \in DOMAIN b, b[i] = <<t, kind>>, \A j \in DOMAIN b : j > i => b[j][1] # t
        PROVE  Leaves(l, r, t, kind)
    <3>1. i - n \in DOMAIN r /\ r[i - n] = <<t, kind>>
      BY <1>2, <1>4, <2>1
    <3>2. ASSUME NEW j \in DOMAIN r, j > i - n PROVE r[j][1] # t
      <4>1. n + j > i
        BY <1>1, <3>2
      <4> QED BY <4>1, <1>3, <2>1
    <3> QED BY <3>1, <3>2 DEF Leaves
  <2> QED BY <1>3, <1>5, <2>1 DEF Leaves
<1>6. ASSUME Leaves(l, r, t, kind) PROVE Leaves(l, b, t, kind)
  <2>1. ASSUME NEW i \in DOMAIN r, r[i] = <<t, kind>>, \A j \in DOMAIN r : j > i => r[j][1] # t
        PROVE  Leaves(l, b, t, kind)
    <3>1. n + i \in DOMAIN b /\ b[n + i] = <<t, kind>>
      BY <1>3, <2>1
    <3>2. ASSUME NEW j \in DOMAIN b, j > n + i PROVE b[j][1] # t
      <4>1. j \notin 1..n /\ j - n > i
        BY <1>1, <3>2
      <4> QED BY <4>1, <1>4, <2>1
    <3> QED BY <3>1, <3>2 DEF Leaves
  <2>2. ASSUME l[t] = kind, \A i \in DOMAIN r : r[i][1] # t PROVE Leaves(l, b, t, kind)
    <3>1. \A j \in DOMAIN b : b[j][1] # t
      BY <1>2, <1>4, <2>2
    <3> QED BY <2>2, <3>1 DEF Leaves
  <2> QED BY <1>6, <2>1, <2>2 DEF Leaves
<1> QED BY <1>5, <1>6 DEF b

-----------------------------------------------------------------------------
(* Every variable has its type.  What a scan decides is finitely many      *)
(* updates, of blocks that burn, thaw or are grown over, to other blocks   *)
(* than sand and crops.                                                    *)
Weathered == {"dirt", "grass", "fire", "ice"}

LEMMA ChancesType ==
    ASSUME LandType
    PROVE  /\ IsFiniteSet(Chances)
           /\ \A d \in Chances : /\ d[2] \in Site /\ d[3] \in BlockKinds /\ d[3] \notin {"sand", "crop"}
                                 /\ ground[d[2]] \in Weathered
<1>1. Tops \subseteq Site
  BY DEF Tops
<1>2. \A d \in Chances : /\ d = <<d[1], d[2], d[3]>> /\ d[1] \in 0..Wide - 1 /\ d[2] \in Site
                         /\ d[3] \in {"fire", "grass", "air", "water"}
                         /\ ground[d[2]] \in Weathered
  <2>1. TAKE d \in Chances
  <2>2. CASE d \in Spreads("fire", {n \in Site : ground[n] \in Flammable})
    <3>1. PICK s \in Tops : d \in {<<s[1], n, "fire">> : n \in Beside(s) \cap {n \in Site : ground[n] \in Flammable}}
      BY <2>2 DEF Spreads
    <3>2. PICK n \in Site : ground[n] \in Flammable /\ d = <<s[1], n, "fire">>
      BY <3>1
    <3>3. s[1] \in 0..Wide - 1
      BY <1>1, SiteIs
    <3> QED BY <3>2, <3>3 DEF Flammable, Weathered
  <2>3. CASE d \in Spreads("grass", {n \in Site : ground[n] = "dirt" /\ Over(n) \in Site /\ At(Over(n)) = "air"})
    <3> DEFINE N == {n \in Site : ground[n] = "dirt" /\ Over(n) \in Site /\ At(Over(n)) = "air"}
    <3>1. PICK s \in Tops : d \in {<<s[1], n, "grass">> : n \in Beside(s) \cap N}
      BY <2>3 DEF Spreads
    <3>2. PICK n \in Site : ground[n] = "dirt" /\ d = <<s[1], n, "grass">>
      BY <3>1
    <3>3. s[1] \in 0..Wide - 1
      BY <1>1, SiteIs
    <3> QED BY <3>2, <3>3 DEF Weathered
  <2>4. CASE d \in Turns("fire", "air")
    <3>1. PICK s \in Tops : ground[s] = "fire" /\ d = <<s[1], s, "air">>
      BY <2>4 DEF Turns
    <3> QED BY <1>1, <3>1, SiteIs DEF Weathered
  <2>5. CASE d \in Turns("ice", "water")
    <3>1. PICK s \in Tops : ground[s] = "ice" /\ d = <<s[1], s, "water">>
      BY <2>5 DEF Turns
    <3> QED BY <1>1, <3>1, SiteIs DEF Weathered
  <2> QED BY <2>2, <2>3, <2>4, <2>5 DEF Chances
<1>3. IsFiniteSet(Chances)
  <2> DEFINE C == 0..Wide - 1
             K == {"fire", "grass", "air", "water"}
             P == (C \X Site) \X K
  <2>1. Wide \in Nat /\ Tall \in Nat
    BY TerrainAssumption
  <2>2. IsFiniteSet(C) /\ IsFiniteSet(0..Tall - 1)
    BY <2>1, FS_Interval
  <2>3. IsFiniteSet(C \X Site)
    BY <2>2, FS_Product DEF Site
  <2>4. IsFiniteSet(K)
    <3>1. IsFiniteSet({"fire", "grass", "air"} \cup {"water"})
      <4>1. IsFiniteSet({"fire"}) /\ IsFiniteSet({"fire"} \cup {"grass"})
        BY FS_Singleton, FS_AddElement
      <4>2. IsFiniteSet(({"fire"} \cup {"grass"}) \cup {"air"})
        BY <4>1, FS_AddElement
      <4>3. ({"fire"} \cup {"grass"}) \cup {"air"} = {"fire", "grass", "air"}
        OBVIOUS
      <4> QED BY <4>2, <4>3, FS_AddElement
    <3>2. {"fire", "grass", "air"} \cup {"water"} = K
      OBVIOUS
    <3> QED BY <3>1, <3>2
  <2>5. IsFiniteSet(P)
    BY <2>3, <2>4, FS_Product
  <2> DEFINE f == [p \in P |-> <<p[1][1], p[1][2], p[2]>>]
             T == {f[p] : p \in P}
  <2>6. f \in Surjection(P, T)
    <3>1. f \in [P -> T]
      OBVIOUS
    <3>2. \A t \in T : \E p \in P : f[p] = t
      OBVIOUS
    <3> QED BY <3>1, <3>2 DEF Surjection
  <2>7. ASSUME NEW d \in Chances PROVE d \in T
    <3>1. <<<<d[1], d[2]>>, d[3]>> \in P /\ d = <<d[1], d[2], d[3]>>
      BY <1>2
    <3>2. f[<<<<d[1], d[2]>>, d[3]>>] = <<d[1], d[2], d[3]>>
      BY <3>1
    <3> HIDE DEF f, P
    <3> QED BY <3>1, <3>2
  <2> HIDE DEF f, P, T
  <2>8. IsFiniteSet(T)
    BY <2>5, <2>6, FS_Surjection
  <2> QED BY <2>7, <2>8, FS_Subset
<1> QED BY <1>2, <1>3 DEF BlockKinds, Solids

LEMMA DecidedType ==
    ASSUME LandType, NEW chosen \in SUBSET Chances, NEW q \in InOrder(chosen)
    PROVE  /\ Decided(q) \in Writes
           /\ \A i \in DOMAIN Decided(q) : /\ Decided(q)[i][2] \notin {"sand", "crop"}
                                           /\ ground[Decided(q)[i][1]] \in Weathered
<1>1. IsFiniteSet(chosen)
  BY ChancesType, FS_Subset
<1>2. PICK n \in Nat : n = Cardinality(chosen)
  BY <1>1, FS_CardinalityType
<1>3. q \in [1..n -> chosen]
  BY <1>2 DEF InOrder
<1>4. Decided(q) = [i \in 1..n |-> <<q[i][2], q[i][3]>>]
  BY <1>3 DEF Decided
<1>5. \A i \in 1..n : /\ q[i][2] \in Site /\ q[i][3] \in BlockKinds /\ q[i][3] \notin {"sand", "crop"}
                      /\ ground[q[i][2]] \in Weathered
  BY <1>3, ChancesType
<1>6. Decided(q) \in Writes
  BY <1>2, <1>4, <1>5 DEF Writes
<1> QED BY <1>4, <1>5, <1>6

LEMMA RestingType ==
    /\ Resting \in PassType
    /\ \A stage \in PassStages, todo \in SUBSET Site : [Resting EXCEPT !.stage = stage, !.todo = todo] \in PassType
    /\ \A stage \in PassStages, updates \in Writes : [Resting EXCEPT !.stage = stage, !.updates = updates] \in PassType
<1>1. <<>> \in Writes
  BY DEF Writes
<1> QED BY <1>1 DEF Resting, PassType, PassStages

LEMMA PassFields ==
    ASSUME NEW p \in PassType
    PROVE  /\ p.stage \in PassStages /\ p.todo \in SUBSET Site /\ p.seen \in SUBSET (Site \X BlockKinds)
           /\ p.updates \in Writes /\ p.resolved \in SUBSET Site
           /\ \A todo \in SUBSET Site, seen \in SUBSET (Site \X BlockKinds) :
                [p EXCEPT !.seen = seen, !.todo = todo] \in PassType
           /\ \A seen \in SUBSET (Site \X BlockKinds), updates \in Writes, resolved \in SUBSET Site :
                [p EXCEPT !.seen = seen, !.updates = updates, !.resolved = resolved] \in PassType
           /\ \A updates \in Writes : [p EXCEPT !.updates = updates] \in PassType
           /\ \A updates \in Writes, todo \in SUBSET Site :
                [p EXCEPT !.updates = updates, !.todo = todo] \in PassType
  BY DEF PassType

LEMMA LandTypeInit == TerrainInit => LandType
<1> SUFFICES ASSUME TerrainInit PROVE LandType
  OBVIOUS
<1>1. ground \in [Site -> BlockKinds] /\ before \in [Site -> BlockKinds]
  BY TerrainAssumption DEF TerrainInit, BlockKinds
<1>2. pass \in PassType
  BY RestingType DEF TerrainInit
<1>3. ages \in [Site -> 0..Ripe] /\ built \in 0..MaxEdits0 /\ passes \in 0..MaxPasses
  BY TerrainAssumption DEF TerrainInit
<1> QED BY <1>1, <1>2, <1>3 DEF TerrainInit, LandType

LEMMA BeginsType ==
    ASSUME LandType, NEW p \in PassType, Begins(p)
    PROVE  /\ pass = Resting /\ pass' = p /\ pass' \in PassType /\ passes' \in 0..MaxPasses
           /\ before' = ground /\ before' \in [Site -> BlockKinds]
           /\ touched' = {} /\ touched' \in SUBSET (0..Wide - 1)
  BY TerrainAssumption DEF Begins, LandType

LEMMA Concatenated ==
    ASSUME NEW S, NEW x \in Seq(S), NEW y \in Seq(S)
    PROVE  /\ x \o y \in Seq(S) /\ Len(x \o y) = Len(x) + Len(y)
           /\ \A i \in 1..Len(x) : (x \o y)[i] = x[i]
           /\ \A i \in 1..Len(y) : (x \o y)[Len(x) + i] = y[i]
  OBVIOUS

LEMMA Pairs ==
    ASSUME NEW a, NEW b
    PROVE  <<a>> \o <<b>> = <<a, b>> /\ <<>> \o <<b>> = <<b>>
<1>1. /\ <<a>> \in Seq({a, b}) /\ Len(<<a>>) = 1 /\ <<a>>[1] = a
      /\ <<b>> \in Seq({a, b}) /\ Len(<<b>>) = 1 /\ <<b>>[1] = b
      /\ <<>> \in Seq({a, b}) /\ Len(<<>>) = 0
  OBVIOUS
<1> DEFINE x == <<a>>
           y == <<b>>
           z == <<>>
           p == x \o y
           r == z \o y
<1>2. /\ x \in Seq({a, b}) /\ Len(x) = 1 /\ x[1] = a
      /\ y \in Seq({a, b}) /\ Len(y) = 1 /\ y[1] = b
      /\ z \in Seq({a, b}) /\ Len(z) = 0
  BY <1>1
<1> HIDE DEF x, y, z
<1>a. \A u, v \in Seq({a, b}) :
        /\ u \o v \in Seq({a, b}) /\ Len(u \o v) = Len(u) + Len(v)
        /\ \A i \in 1..Len(u) : (u \o v)[i] = u[i]
        /\ \A i \in 1..Len(v) : (u \o v)[Len(u) + i] = v[i]
  BY Concatenated
<1>3. p \in Seq({a, b}) /\ Len(p) = 2 /\ p[1] = a /\ p[1 + 1] = b
  BY <1>2, <1>a
<1>4. r = y
  BY <1>2, \A u \in Seq({a, b}) : <<>> \o u = u DEF z
<1> HIDE DEF p, r
<1>5. p = <<a, b>>
  BY <1>3
<1> QED BY <1>4, <1>5 DEF p, r, x, y, z

(* The updates of a weighed block and of a spike.                          *)
LEMMA UpdatesType ==
    ASSUME NEW s \in Site
    PROVE  /\ \A kind \in BlockKinds : Under(s) \in Site => <<<<Under(s), kind>>, <<s, "air">>>> \in Writes
           /\ SpikeUpdates(s) \subseteq Writes
           /\ \A u \in SpikeUpdates(s) : \A i \in DOMAIN u : u[i][2] \in {"air", "spike"}
           /\ \A u \in SpikeUpdates(s) : \A i \in DOMAIN u :
                u[i][1] = s \/ (u[i][1] \in {Under(s), Over(s)} /\ At(u[i][1]) = "air")
<1>1. {"air", "spike"} \subseteq BlockKinds
  BY DEF BlockKinds, Solids
<1>2. \A kind \in BlockKinds : Under(s) \in Site => <<<<Under(s), kind>>, <<s, "air">>>> \in Writes
  BY <1>1 DEF Writes
<1>3. ASSUME NEW u \in SpikeUpdates(s)
      PROVE  /\ u \in Writes
             /\ \A i \in DOMAIN u : u[i][2] \in {"air", "spike"}
             /\ \A i \in DOMAIN u : u[i][1] = s \/ (u[i][1] \in {Under(s), Over(s)} /\ At(u[i][1]) = "air")
  <2> DEFINE down == <<<<Under(s), "spike">>>>
             up == <<<<Over(s), "spike">>>>
             off == <<<<s, "air">>>>
             both == <<<<Under(s), "spike">>, <<s, "air">>>>
  <2>1. down \o off = both /\ <<>> \o off = off
    BY Pairs
  <2>2. \/ u = <<>>
        \/ u = off
        \/ Under(s) \in Site /\ At(Under(s)) = "air" /\ (u = down \/ u = both)
        \/ Over(s) \in Site /\ At(Over(s)) = "air" /\ u = up
    <3>1. CASE Hangs(s)
      <4> DEFINE ds == IF At(Over(Over(s))) = "sulfur" /\ Under(s) \in Site THEN {<<>>, down} ELSE {<<>>}
      <4>1. SpikeUpdates(s) = ds \cup {d \o off : d \in ds}
        <5>1. SpikeUpdates(s) = CASE Hangs(s) -> ds \cup {d \o off : d \in ds}
                                  [] Stands(s) -> IF At(Under(Under(s))) = "sulfur" /\ Over(s) \in Site THEN {<<>>, up} ELSE {<<>>}
                                  [] OTHER -> {<<>>}
          BY DEF SpikeUpdates
        <5>2. ~Stands(s)
          BY <3>1 DEF Hangs, Stands
        <5> HIDE DEF ds, off, up
        <5> QED BY <3>1, <5>1, <5>2
      <4>2. u \in ds \/ \E d \in ds : u = d \o off
        BY <4>1
      <4>3. At(Under(s)) = "air"
        BY <3>1 DEF Hangs
      <4>4. \A d \in ds : d = <<>> \/ (d = down /\ Under(s) \in Site)
        OBVIOUS
      <4> HIDE DEF ds, down, off, both
      <4> QED BY <2>1, <4>2, <4>3, <4>4
    <3>2. CASE ~Hangs(s) /\ Stands(s)
      BY <3>2 DEF SpikeUpdates, Stands
    <3>3. CASE ~Hangs(s) /\ ~Stands(s)
      BY <3>3 DEF SpikeUpdates
    <3> QED BY <3>1, <3>2, <3>3
  <2>3. <<>> \in Writes /\ off \in Writes
    BY <1>1 DEF Writes
  <2>4. Under(s) \in Site => down \in Writes /\ both \in Writes
    BY <1>1 DEF Writes
  <2>5. Over(s) \in Site => up \in Writes
    BY <1>1 DEF Writes
  <2>6. u \in Writes
    BY <2>2, <2>3, <2>4, <2>5
  <2>7. \A i \in DOMAIN u : u[i] = <<s, "air">> \/ (At(Under(s)) = "air" /\ u[i] = <<Under(s), "spike">>)
                            \/ (At(Over(s)) = "air" /\ u[i] = <<Over(s), "spike">>)
    BY <2>2
  <2> QED BY <2>6, <2>7
<1> QED BY <1>2, <1>3

LEMMA LandTypeNext == LandType /\ TerrainNext => LandType'
<1> SUFFICES ASSUME LandType, TerrainNext PROVE LandType'
  OBVIOUS
<1> USE DEF LandType, terrain_bounds
<1>a. {"air", "sand", "crop"} \subseteq BlockKinds
  BY DEF BlockKinds, Solids
<1>1. ASSUME NEW s \in Site, NEW kind \in {"air", "sand", "crop"}, BuildAt(s, kind) PROVE LandType'
  <2>1. s[1] \in 0..Wide - 1
    BY SiteIs
  <2>2. built' \in 0..MaxEdits0
    BY <1>1, TerrainAssumption DEF BuildAt
  <2> QED BY <1>a, <1>1, <2>1, <2>2 DEF BuildAt
<1>2. CASE BeginPhysics
  <2>1. [Resting EXCEPT !.stage = "weigh", !.todo = falling] \in PassType
    BY RestingType DEF PassStages
  <2> QED BY <1>2, <2>1, BeginsType DEF BeginPhysics
<1>3. CASE BeginSpikes
  <2>1. [Resting EXCEPT !.stage = "spikes", !.todo = {s \in Site : ground[s] = "spike"}] \in PassType
    BY RestingType DEF PassStages
  <2> QED BY <1>3, <2>1, BeginsType DEF BeginSpikes
<1>4. ASSUME NEW s \in Site, LookAt(s) PROVE LandType'
  <2>1. ground[s] \in BlockKinds /\ pass.todo \in SUBSET Site
    BY PassFields
  <2>2. {<<s, ground[s]>>} \in SUBSET (Site \X BlockKinds) /\ pass.todo \ {s} \in SUBSET Site
    BY <2>1
  <2>3. pass' = [pass EXCEPT !.seen = {<<s, ground[s]>>}, !.todo = pass.todo \ {s}]
    BY <1>4 DEF LookAt
  <2> DEFINE seen == {<<s, ground[s]>>}
             todo == pass.todo \ {s}
  <2> HIDE DEF seen, todo
  <2>4. [pass EXCEPT !.seen = seen, !.todo = todo] \in PassType
    BY <2>2 DEF seen, todo, PassType
  <2>5. pass' \in PassType
    BY <2>3, <2>4 DEF seen, todo
  <2> QED BY <1>4, <2>5 DEF LookAt
<1>5. ASSUME NEW s \in Site, VisitSpike(s) PROVE LandType'
  <2>1. PICK updates \in SpikeUpdates(s) : pass' = [pass EXCEPT !.updates = updates, !.todo = @ \ {s}]
    BY <1>5 DEF VisitSpike
  <2>2. [pass EXCEPT !.updates = updates, !.todo = @ \ {s}] \in PassType
    BY PassFields, UpdatesType
  <2> QED BY <1>5, <2>1, <2>2 DEF VisitSpike
<1>6. ASSUME NEW s \in Site, NEW kind \in BlockKinds, Weigh(s, kind) PROVE LandType'
  <2> DEFINE falls == kind \in Loose /\ Yields(Under(s))
             u == <<<<Under(s), kind>>, <<s, "air">>>>
             updates == IF falls THEN pass.updates \o u ELSE pass.updates
             resolved == IF falls \/ kind \notin Loose THEN pass.resolved \cup {s} ELSE pass.resolved
  <2>1. updates \in Writes
    <3>1. CASE falls
      <4>1. u \in Writes
        BY <3>1, UpdatesType DEF Yields
      <4> HIDE DEF u
      <4> QED BY <3>1, <4>1, Joined, PassFields
    <3> QED BY <3>1, PassFields
  <2>2. resolved \in SUBSET Site
    BY PassFields
  <2>3. pass' = [pass EXCEPT !.seen = {}, !.updates = updates, !.resolved = resolved]
    BY <1>6 DEF Weigh
  <2> HIDE DEF updates, resolved
  <2>4. pass' \in PassType
    BY <2>1, <2>2, <2>3, PassFields
  <2> QED BY <1>6, <2>4 DEF Weigh
<1>7. ASSUME NEW chosen \in SUBSET Chances, Scan(chosen) PROVE LandType'
  <2>1. PICK q \in InOrder(chosen) :
            pass' = [Resting EXCEPT !.stage = "apply", !.updates = pass.updates \o Decided(q)]
    BY <1>7 DEF Scan
  <2>2. pass.updates \o Decided(q) \in Writes
    BY DecidedType, Joined, PassFields
  <2>3. pass' \in PassType
    BY <2>1, <2>2, RestingType DEF PassStages
  <2> QED BY <1>7, <2>3 DEF Scan, Tops
<1>8. CASE Apply
  <2>1. PICK q \in Writes : q = pass.updates /\ q # <<>>
    BY <1>8, PassFields DEF Apply
  <2>2. /\ Head(pass.updates) \in Site \X BlockKinds /\ Tail(pass.updates) \in Writes
    BY <2>1 DEF Writes
  <2>3. pass' \in PassType
    BY <1>8, <2>2, PassFields DEF Apply
  <2> QED BY <1>8, <2>2, <2>3 DEF Apply
<1>9. CASE EndPass
  BY <1>9, RestingType DEF EndPass
<1>10. CASE SowCrops
  BY <1>a, <1>10, RestingType DEF SowCrops
<1>11. ASSUME NEW grown \in SUBSET Tops, GrowCrops(grown) PROVE LandType'
  <2>1. grown \in SUBSET Site
    BY DEF Tops
  <2>2. [Resting EXCEPT !.stage = "sow", !.todo = grown] \in PassType
    BY <2>1, RestingType DEF PassStages
  <2>3. ages' \in [Site -> 0..Ripe]
    BY <1>11, TerrainAssumption DEF GrowCrops
  <2> QED BY <1>11, <2>2, <2>3, BeginsType DEF GrowCrops
<1> QED BY <1>1, <1>2, <1>3, <1>4, <1>5, <1>6, <1>7, <1>8, <1>9, <1>10, <1>11 DEF TerrainNext, BlockKinds

LEMMA LandTypeStep == LandType /\ [TerrainNext]_terrain_vars => LandType'
<1> SUFFICES ASSUME LandType, [TerrainNext]_terrain_vars PROVE LandType'
  OBVIOUS
<1>1. CASE UNCHANGED terrain_vars
  BY <1>1 DEF terrain_vars, terrain_bounds, LandType
<1> QED BY <1>1, LandTypeNext

LEMMA LandTyped == LandType => TerrainTypeOK
  BY PassFields DEF LandType, TerrainTypeOK, BlockKinds, PassStages

(* The blocks, the registered sites, the ages of the crops, the pass under *)
(* way and the columns players built in are what they are declared to be,  *)
(* in a chunk of any size, however its players and its passes interleave.  *)
THEOREM TerrainTypeCorrect == TerrainSpec => []TerrainTypeOK
<1>1. LandType => TerrainTypeOK
  BY LandTyped
<1> QED BY LandTypeInit, LandTypeStep, <1>1, PTL DEF TerrainSpec

-----------------------------------------------------------------------------
(* What each pass relies on in the columns nobody has built in: a block    *)
(* that was read is still there; updates are for blocks already weighed    *)
(* and for the air under them, so a block falls once; a spike of the copy  *)
(* is a spike or gone; a crop to be set again is there.                    *)
Weighed(t) == t \notin pass.todo /\ \A p \in pass.seen : p[1] # t

StillThere ==
    \A x \in (0..Wide - 1) \ touched : \A kind \in {"sand", "crop"} :
        Cardinality(Coming(x, kind)) = Amount(before, x, kind)

WeighOK ==
    pass.stage = "weigh" =>
        /\ \A p \in pass.seen : p[1] \notin pass.todo /\ (p[1][1] \notin touched => ground[p[1]] = p[2])
        /\ \A i \in DOMAIN pass.updates : pass.updates[i][1][1] \notin touched =>
              \/ ground[pass.updates[i][1]] = "sand" /\ Weighed(pass.updates[i][1])
              \/ ground[pass.updates[i][1]] = "air" /\ Weighed(Over(pass.updates[i][1]))

SpikesOK ==
    pass.stage = "spikes" =>
        /\ \A s \in pass.todo : s[1] \notin touched => ground[s] \in {"air", "spike"}
        /\ \A i \in DOMAIN pass.updates : pass.updates[i][2] \in {"air", "spike"}

SowOK ==
    pass.stage = "sow" =>
        /\ pass.updates = <<>>
        /\ \A s \in pass.todo : s[1] \notin touched => ground[s] = "crop"

Relied == StillThere /\ WeighOK /\ SpikesOK /\ SowOK

LEMMA ColumnSites ==
    ASSUME NEW x \in 0..Wide - 1, NEW y \in 0..Tall - 1
    PROVE  <<x, y>> \in Site /\ <<x, y>>[1] = x /\ <<x, y>>[2] = y
  BY DEF Site

(* A step that leaves the same at every site of the columns nobody has     *)
(* built in leaves them the same amounts.                                  *)
LEMMA KeptSame ==
    ASSUME StillThere, touched \subseteq touched', before' = before,
           \A t \in Site : \A kind \in {"sand", "crop"} : t[1] \notin touched' =>
                (Leaves(ground, pass.updates, t, kind) <=> Leaves(ground', pass'.updates, t, kind))
    PROVE  StillThere'
<1> SUFFICES ASSUME NEW x \in (0..Wide - 1) \ touched', NEW kind \in {"sand", "crop"}
             PROVE  (Cardinality(Coming(x, kind)) = Amount(before, x, kind))'
  BY DEF StillThere
<1>1. Coming(x, kind)' = Coming(x, kind)
  BY ColumnSites DEF Coming
<1>2. Cardinality(Coming(x, kind)) = Amount(before, x, kind)
  BY DEF StillThere
<1> QED BY <1>1, <1>2 DEF Amount

LEMMA NothingComes ==
    ASSUME pass.updates = <<>>, NEW x \in 0..Wide - 1, NEW kind
    PROVE  Cardinality(Coming(x, kind)) = Amount(ground, x, kind)
<1>1. \A y \in 0..Tall - 1 : Leaves(ground, pass.updates, <<x, y>>, kind) <=> ground[<<x, y>>] = kind
  BY DEF Leaves
<1> QED BY <1>1 DEF Coming, Amount

LEMMA KeptBegins ==
    ASSUME pass'.updates = <<>>, before' = ground'
    PROVE  StillThere'
<1> SUFFICES ASSUME NEW x \in (0..Wide - 1) \ touched', NEW kind \in {"sand", "crop"}
             PROVE  (Cardinality(Coming(x, kind)) = Amount(before, x, kind))'
  BY DEF StillThere
<1>1. \A y \in 0..Tall - 1 : Leaves(ground', pass'.updates, <<x, y>>, kind) <=> ground'[<<x, y>>] = kind
  BY DEF Leaves
<1> QED BY <1>1 DEF Coming, Amount

(* Updates of other kinds change nothing about a kind, if they are for     *)
(* sites where it would not have been.                                     *)
LEMMA OtherKinds ==
    ASSUME NEW l, NEW q \in Writes, NEW r \in Writes, NEW t, NEW kind,
           \A i \in DOMAIN r : r[i][2] # kind /\ (r[i][1] = t => ~Leaves(l, q, t, kind))
    PROVE  Leaves(l, q \o r, t, kind) <=> Leaves(l, q, t, kind)
<1>1. CASE \A i \in DOMAIN r : r[i][1] # t
  BY <1>1, WrittenBefore
<1>2. ASSUME NEW k \in DOMAIN r, r[k][1] = t PROVE Leaves(l, q \o r, t, kind) <=> Leaves(l, q, t, kind)
  <2> DEFINE n == Len(q)
             b == q \o r
  <2>1. /\ n \in Nat /\ Len(r) \in Nat /\ DOMAIN q = 1..n /\ DOMAIN r = 1..Len(r) /\ DOMAIN b = 1..n + Len(r)
        /\ \A i \in 1..n : b[i] = q[i]
        /\ \A i \in 1..Len(r) : b[n + i] = r[i]
    BY Joined
  <2> HIDE DEF n, b
  <2>2. n + k \in DOMAIN b /\ b[n + k][1] = t
    BY <1>2, <2>1
  <2>3. ASSUME NEW i \in DOMAIN b, b[i] = <<t, kind>>, \A j \in DOMAIN b : j > i => b[j][1] # t
        PROVE  FALSE
    <3>1. i \notin 1..n
      <4>1. SUFFICES ASSUME i \in 1..n PROVE FALSE
        OBVIOUS
      <4>2. n + k > i
        BY <2>1, <1>2, <4>1
      <4> QED BY <4>2, <2>2, <2>3
    <3>2. i - n \in 1..Len(r) /\ i = n + (i - n)
      BY <2>1, <3>1
    <3>3. r[i - n] = <<t, kind>>
      BY <2>1, <2>3, <3>2
    <3> QED BY <2>1, <3>2, <3>3
  <2>4. ~Leaves(l, b, t, kind)
    BY <2>2, <2>3 DEF Leaves
  <2> QED BY <1>2, <2>4 DEF b
<1> QED BY <1>1, <1>2

LEMMA BuildKeeps ==
    ASSUME LandType, Relied, NEW s \in Site, NEW kind \in {"air", "sand", "crop"}, BuildAt(s, kind)
    PROVE  Relied'
<1> USE DEF LandType
<1>1. /\ pass' = pass /\ before' = before /\ touched' = touched \cup {s[1]}
      /\ ground' = [ground EXCEPT ![s] = kind]
  BY DEF BuildAt
<1>2. \A t \in Site : t[1] \notin touched' => t[1] \notin touched /\ ground'[t] = ground[t]
  BY <1>1
<1>3. \A i \in DOMAIN pass.updates : pass.updates[i][1] \in Site
  BY PassFields, WriteFields
<1>4. (\A p \in pass.seen : p[1] \in Site) /\ pass.todo \subseteq Site
  BY PassFields
<1>5. StillThere'
  <2>1. \A t \in Site, kd \in {"sand", "crop"} : t[1] \notin touched' =>
            (Leaves(ground, pass.updates, t, kd) <=> Leaves(ground', pass'.updates, t, kd))
    BY <1>1, <1>2 DEF Leaves
  <2> QED BY <1>1, <2>1, KeptSame DEF Relied
<1>6. WeighOK'
  <2>1. \A t : Weighed(t)' <=> Weighed(t)
    BY <1>1 DEF Weighed
  <2> QED BY <1>1, <1>2, <1>3, <1>4, <2>1 DEF Relied, WeighOK
<1>7. SpikesOK' /\ SowOK'
  BY <1>1, <1>2, <1>4 DEF Relied, SpikesOK, SowOK
<1> QED BY <1>5, <1>6, <1>7 DEF Relied

LEMMA BeginningKeeps ==
    ASSUME LandType, NEW p, Begins(p), ground' = ground, p.updates = <<>>, p.seen = {},
           p.stage = "spikes" => \A s \in p.todo : ground[s] = "spike",
           p.stage = "sow" => \A s \in p.todo : ground[s] = "crop"
    PROVE  Relied'
<1>1. pass' = p /\ before' = ground
  BY DEF Begins
<1>2. StillThere'
  BY <1>1, KeptBegins
<1>3. WeighOK' /\ SpikesOK' /\ SowOK'
  BY <1>1 DEF WeighOK, SpikesOK, SowOK
<1> QED BY <1>2, <1>3 DEF Relied

LEMMA LookKeeps ==
    ASSUME LandType, Relied, NEW s \in Site, LookAt(s)
    PROVE  Relied'
<1> USE DEF LandType
<1>1. /\ ground' = ground /\ before' = before /\ touched' = touched
      /\ pass.stage = "weigh" /\ s \in pass.todo /\ pass.seen = {}
      /\ pass' = [pass EXCEPT !.seen = {<<s, ground[s]>>}, !.todo = @ \ {s}]
  BY DEF LookAt
<1>2. /\ pass'.stage = "weigh" /\ pass'.updates = pass.updates
      /\ pass'.seen = {<<s, ground[s]>>} /\ pass'.todo = pass.todo \ {s}
  BY <1>1 DEF PassType
<1>3. StillThere'
  BY <1>1, <1>2, KeptSame DEF Relied
<1>4. \A t : Weighed(t) => Weighed(t)'
  BY <1>1, <1>2 DEF Weighed
<1>5. WeighOK'
  BY <1>1, <1>2, <1>4 DEF Relied, WeighOK
<1> QED BY <1>2, <1>3, <1>5 DEF Relied, SpikesOK, SowOK

LEMMA VisitKeeps ==
    ASSUME LandType, Relied, NEW s \in Site, VisitSpike(s)
    PROVE  Relied'
<1> USE DEF LandType
<1>1. PICK u \in SpikeUpdates(s) : pass' = [pass EXCEPT !.updates = u, !.todo = @ \ {s}]
  BY DEF VisitSpike
<1>2. /\ ground' = ground /\ before' = before /\ touched' = touched
      /\ pass.stage = "spikes" /\ pass.updates = <<>> /\ s \in pass.todo
      /\ pass'.stage = "spikes" /\ pass'.updates = u /\ pass'.todo = pass.todo \ {s}
  BY <1>1 DEF VisitSpike, PassType
<1>3. u \in Writes /\ <<>> \in Writes /\ <<>> \o u = u
  <2>1. u \in Writes
    BY UpdatesType
  <2> QED BY <2>1 DEF Writes
<1>4. \A i \in DOMAIN u : /\ u[i][2] \in {"air", "spike"}
                          /\ u[i][1] \in Site
                          /\ u[i][1] = s \/ (u[i][1] \in {Under(s), Over(s)} /\ At(u[i][1]) = "air")
  <2>1. \A i \in DOMAIN u : u[i][1] \in Site
    BY <1>3 DEF Writes
  <2> QED BY <2>1, UpdatesType
<1>5. \A i \in DOMAIN u : u[i][1][1] \notin touched => ground[u[i][1]] \in {"air", "spike"}
  BY <1>2, <1>4 DEF Relied, SpikesOK, At
<1>6. StillThere'
  <2>1. ASSUME NEW t \in Site, NEW kind \in {"sand", "crop"}, t[1] \notin touched'
        PROVE  Leaves(ground, pass.updates, t, kind) <=> Leaves(ground', pass'.updates, t, kind)
    <3>1. Leaves(ground, <<>>, t, kind) <=> ground[t] = kind
      BY DEF Leaves
    <3>2. \A i \in DOMAIN u : u[i][2] # kind /\ (u[i][1] = t => ~Leaves(ground, <<>>, t, kind))
      BY <1>2, <1>4, <1>5, <2>1, <3>1
    <3>3. Leaves(ground, <<>> \o u, t, kind) <=> Leaves(ground, <<>>, t, kind)
      BY <1>3, <3>2, OtherKinds
    <3> QED BY <1>2, <1>3, <3>3
  <2> QED BY <1>2, <2>1, KeptSame DEF Relied
<1>7. SpikesOK'
  BY <1>2, <1>4 DEF Relied, SpikesOK
<1> QED BY <1>2, <1>6, <1>7 DEF Relied, WeighOK, SowOK

LEMMA ScanKeeps ==
    ASSUME LandType, Relied, NEW chosen \in SUBSET Chances, Scan(chosen)
    PROVE  Relied'
<1> USE DEF LandType
<1>1. PICK q \in InOrder(chosen) :
            pass' = [Resting EXCEPT !.stage = "apply", !.updates = pass.updates \o Decided(q)]
  BY DEF Scan
<1>2. /\ ground' = ground /\ before' = before /\ touched' = touched /\ pass.stage = "weigh"
      /\ pass'.stage = "apply" /\ pass'.updates = pass.updates \o Decided(q)
  BY <1>1 DEF Scan, Resting
<1>3. Decided(q) \in Writes /\ pass.updates \in Writes
  BY DecidedType, PassFields
<1>4. ASSUME NEW t \in Site, NEW kind \in {"sand", "crop"}, t[1] \notin touched'
      PROVE  Leaves(ground, pass.updates, t, kind) <=> Leaves(ground', pass'.updates, t, kind)
  <2>1. ASSUME NEW i \in DOMAIN Decided(q)
        PROVE  Decided(q)[i][2] # kind /\ (Decided(q)[i][1] = t => ~Leaves(ground, pass.updates, t, kind))
    <3>1. Decided(q)[i][2] # kind /\ ground[Decided(q)[i][1]] \in Weathered
      BY <2>1, DecidedType
    <3>2. ASSUME Decided(q)[i][1] = t PROVE ~Leaves(ground, pass.updates, t, kind)
      <4>1. ground[t] \notin {"sand", "crop", "air"}
        BY <3>1, <3>2 DEF Weathered
      <4>2. \A j \in DOMAIN pass.updates : pass.updates[j][1] # t
        BY <1>2, <1>4, <4>1 DEF Relied, WeighOK
      <4> QED BY <4>1, <4>2 DEF Leaves
    <3> QED BY <3>1, <3>2
  <2>2. Leaves(ground, pass.updates \o Decided(q), t, kind) <=> Leaves(ground, pass.updates, t, kind)
    BY <1>3, <2>1, OtherKinds
  <2> QED BY <1>2, <2>2
<1>5. StillThere'
  BY <1>2, <1>4, KeptSame DEF Relied
<1> QED BY <1>2, <1>5 DEF Relied, WeighOK, SpikesOK, SowOK

LEMMA ApplyKeeps ==
    ASSUME LandType, Relied, Apply
    PROVE  Relied'
<1> USE DEF LandType
<1>1. PICK q \in Writes : q = pass.updates /\ q # <<>>
  BY PassFields DEF Apply
<1>2. /\ ground' = [ground EXCEPT ![Head(q)[1]] = Head(q)[2]]
      /\ before' = before /\ touched' = touched /\ pass.stage \in {"apply", "spikes"}
      /\ pass'.stage = pass.stage /\ pass'.todo = pass.todo /\ pass'.updates = Tail(q)
  BY <1>1 DEF Apply, PassType
<1>3. StillThere'
  <2>1. ASSUME NEW t \in Site, NEW kind \in {"sand", "crop"}, t[1] \notin touched'
        PROVE  Leaves(ground, pass.updates, t, kind) <=> Leaves(ground', pass'.updates, t, kind)
    <3>1. Leaves([ground EXCEPT ![Head(q)[1]] = Head(q)[2]], Tail(q), t, kind) <=> Leaves(ground, q, t, kind)
      BY <1>1, WrittenFirst
    <3> QED BY <1>1, <1>2, <3>1
  <2> QED BY <1>2, <2>1, KeptSame DEF Relied
<1>4. SpikesOK'
  <2>1. /\ DOMAIN q = 1..Len(q) /\ Len(q) \in Nat \ {0} /\ Head(q) = q[1]
        /\ DOMAIN Tail(q) = 1..Len(q) - 1 /\ \A i \in 1..Len(q) - 1 : Tail(q)[i] = q[i + 1]
    BY <1>1 DEF Writes
  <2>2. ASSUME pass.stage = "spikes"
        PROVE  /\ Head(q)[2] \in {"air", "spike"}
               /\ \A i \in DOMAIN Tail(q) : Tail(q)[i][2] \in {"air", "spike"}
    <3>1. \A i \in DOMAIN q : q[i][2] \in {"air", "spike"}
      BY <1>1, <2>2 DEF Relied, SpikesOK
    <3>2. 1 \in DOMAIN q /\ \A i \in DOMAIN Tail(q) : i + 1 \in DOMAIN q
      BY <2>1
    <3> QED BY <2>1, <3>1, <3>2
  <2>3. pass.todo \subseteq Site
    BY PassFields
  <2>4. ASSUME pass.stage = "spikes", NEW s \in pass.todo, s[1] \notin touched
        PROVE  ground'[s] \in {"air", "spike"}
    BY <1>2, <2>2, <2>3, <2>4 DEF Relied, SpikesOK
  <2> QED BY <1>2, <2>2, <2>4 DEF SpikesOK
<1> QED BY <1>2, <1>3, <1>4 DEF Relied, WeighOK, SowOK

LEMMA EndKeeps ==
    ASSUME LandType, Relied, EndPass
    PROVE  Relied'
<1>1. /\ ground' = ground /\ before' = before /\ touched' = touched /\ pass.updates = <<>>
      /\ pass' = Resting
  BY DEF EndPass
<1>2. pass'.updates = <<>> /\ pass'.stage = "none"
  BY <1>1 DEF Resting
<1>3. StillThere'
  BY <1>1, <1>2, KeptSame DEF Relied
<1> QED BY <1>2, <1>3 DEF Relied, WeighOK, SpikesOK, SowOK

LEMMA SowKeeps ==
    ASSUME LandType, Relied, SowCrops
    PROVE  Relied'
<1>1. /\ ground' = [s \in Site |-> IF s \in pass.todo THEN "crop" ELSE ground[s]]
      /\ before' = before /\ touched' = touched /\ pass.stage = "sow" /\ pass' = Resting
  BY DEF SowCrops
<1>2. pass'.updates = <<>> /\ pass'.stage = "none" /\ pass.updates = <<>>
  BY <1>1 DEF Resting, Relied, SowOK
<1>3. \A t \in Site : t[1] \notin touched => ground'[t] = ground[t]
  BY <1>1 DEF Relied, SowOK
<1>4. StillThere'
  <2>1. ASSUME NEW t \in Site, NEW kind \in {"sand", "crop"}, t[1] \notin touched'
        PROVE  Leaves(ground, pass.updates, t, kind) <=> Leaves(ground', pass'.updates, t, kind)
    BY <1>1, <1>2, <1>3, <2>1 DEF Leaves
  <2> QED BY <1>1, <2>1, KeptSame DEF Relied
<1> QED BY <1>2, <1>4 DEF Relied, WeighOK, SpikesOK, SowOK

(* A block that falls is one block less above and one more below.          *)
LEMMA FallKeeps ==
    ASSUME LandType, Relied, NEW s \in Site, <<s, "sand">> \in pass.seen, pass.stage = "weigh",
           Yields(Under(s)), ground' = ground, before' = before, touched' = touched,
           pass'.stage = "weigh", pass'.todo = pass.todo, pass'.seen = {},
           pass'.updates = pass.updates \o <<<<Under(s), "sand">>, <<s, "air">>>>
    PROVE  Relied'
<1> USE DEF LandType
<1> DEFINE d == Under(s)
           u == <<<<Under(s), "sand">>, <<s, "air">>>>
<1>1. PICK q \in Writes : q = pass.updates
  BY PassFields
<1>2. d \in Site /\ ground[d] = "air" /\ d # s /\ Over(d) = s /\ d[1] = s[1] /\ d[2] = s[2] - 1
  BY SiteIs DEF Yields
<1>3. u \in Writes
  BY <1>2, UpdatesType DEF BlockKinds, Solids
<1>4. Len(u) = 2 /\ DOMAIN u = {1, 2} /\ u[1] = <<d, "sand">> /\ u[2] = <<s, "air">>
  OBVIOUS
<1>5. s \notin pass.todo
  <2>1. \A p \in pass.seen : p[1] \notin pass.todo
    BY DEF Relied, WeighOK
  <2> QED BY <2>1
<1> HIDE DEF d, u
<1>6. pass'.updates = q \o u
  BY <1>1 DEF u
<1>7. ASSUME s[1] \notin touched PROVE ground[s] = "sand" /\ \A i \in DOMAIN q : q[i][1] # s /\ q[i][1] # d
  <2>1. ground[s] = "sand"
    BY <1>7 DEF Relied, WeighOK
  <2>2. ~Weighed(s)
    BY DEF Weighed
  <2> QED BY <1>1, <1>2, <1>7, <2>1, <2>2 DEF Relied, WeighOK
<1>8. \A t, kind : t # s /\ t # d => (Leaves(ground, q \o u, t, kind) <=> Leaves(ground, q, t, kind))
  <2>1. TAKE t, kind
  <2>2. HAVE t # s /\ t # d
  <2>3. \A i \in DOMAIN u : u[i][1] # t
    BY <1>4, <2>2
  <2> QED BY <1>3, <2>3, WrittenBefore
<1>9. ASSUME s[1] \notin touched, NEW kind
      PROVE  /\ Leaves(ground, q \o u, s, kind) <=> kind = "air"
             /\ Leaves(ground, q \o u, d, kind) <=> kind = "sand"
             /\ Leaves(ground, q, s, kind) <=> kind = "sand"
             /\ Leaves(ground, q, d, kind) <=> kind = "air"
  <2>1. Leaves(ground, u, s, kind) <=> kind = "air"
    BY <1>2, <1>4 DEF Leaves
  <2>2. Leaves(ground, u, d, kind) <=> kind = "sand"
    BY <1>2, <1>4 DEF Leaves
  <2>3. (\A i \in DOMAIN q : q[i][1] # s) /\ (\A i \in DOMAIN q : q[i][1] # d)
    BY <1>7, <1>9
  <2>4. /\ Leaves(ground, q, s, kind) <=> kind = "sand"
        /\ Leaves(ground, q, d, kind) <=> kind = "air"
    BY <1>2, <1>7, <1>9, <2>3 DEF Leaves
  <2>5. Leaves(ground, q \o u, s, kind) <=> Leaves(ground, u, s, kind)
    BY <1>3, <2>3, WrittenAfter
  <2>6. Leaves(ground, q \o u, d, kind) <=> Leaves(ground, u, d, kind)
    BY <1>3, <2>3, WrittenAfter
  <2> QED BY <2>1, <2>2, <2>4, <2>5, <2>6
<1>10. StillThere'
  <2> SUFFICES ASSUME NEW x \in (0..Wide - 1) \ touched, NEW kind \in {"sand", "crop"}
               PROVE  (Cardinality(Coming(x, kind)) = Amount(before, x, kind))'
    BY DEF StillThere
  <2>1. Cardinality(Coming(x, kind)) = Amount(before, x, kind)
    BY DEF Relied, StillThere
  <2>2. Amount(before, x, kind)' = Amount(before, x, kind)
    BY DEF Amount
  <2>3. CASE x # s[1] \/ kind = "crop"
    <3>1. ASSUME NEW y \in 0..Tall - 1
          PROVE  Leaves(ground, q \o u, <<x, y>>, kind) <=> Leaves(ground, q, <<x, y>>, kind)
      <4>1. CASE <<x, y>> # s /\ <<x, y>> # d
        BY <1>8, <4>1
      <4>2. CASE <<x, y>> = s \/ <<x, y>> = d
        <5>1. x = s[1] /\ kind = "crop"
          BY <1>2, <2>3, <4>2
        <5> QED BY <1>9, <4>2, <5>1
      <4> QED BY <4>1, <4>2
    <3>2. Coming(x, kind)' = Coming(x, kind)
      BY <1>1, <1>6, <3>1 DEF Coming
    <3> QED BY <2>1, <2>2, <3>2
  <2>4. CASE x = s[1] /\ kind = "sand"
    <3> DEFINE Y == Coming(x, kind)
               R == Y \ {s[2]}
    <3>1. s = <<x, s[2]>> /\ s[2] \in 0..Tall - 1 /\ d = <<x, d[2]>> /\ d[2] \in 0..Tall - 1 /\ d[2] # s[2]
      BY <1>2, <2>4, SiteIs
    <3>2. s[2] \in Y /\ d[2] \notin Y
      BY <1>1, <1>9, <2>4, <3>1 DEF Coming
    <3>3. Coming(x, kind)' = R \cup {d[2]}
      <4>1. ASSUME NEW y \in 0..Tall - 1
            PROVE  Leaves(ground, q \o u, <<x, y>>, kind) <=> y \in R \cup {d[2]}
        <5>1. CASE y = s[2]
          BY <1>9, <2>4, <3>1, <5>1
        <5>2. CASE y = d[2]
          BY <1>9, <2>4, <3>1, <5>2
        <5>3. CASE y # s[2] /\ y # d[2]
          <6>1. <<x, y>> # s /\ <<x, y>> # d
            BY <5>3
          <6>2. Leaves(ground, q, <<x, y>>, kind) <=> y \in Y
            BY <1>1 DEF Coming
          <6> QED BY <1>8, <5>3, <6>1, <6>2
        <5> QED BY <5>1, <5>2, <5>3
      <4>2. R \cup {d[2]} \subseteq 0..Tall - 1
        BY <3>1 DEF Coming
      <4> HIDE DEF R
      <4> QED BY <1>6, <4>1, <4>2 DEF Coming
    <3>4. IsFiniteSet(Y)
      <4>1. IsFiniteSet(0..Tall - 1)
        BY FS_Interval, TerrainAssumption
      <4>2. Y \subseteq 0..Tall - 1
        BY DEF Coming
      <4> QED BY <4>1, <4>2, FS_Subset
    <3> HIDE DEF Y
    <3>5. IsFiniteSet(R) /\ Cardinality(R) = Cardinality(Y) - 1 /\ Cardinality(Y) \in Nat
      <4>1. Cardinality(Y) \in Nat
        BY <3>4, FS_CardinalityType
      <4>2. PICK Z, a : Z = Y /\ a = s[2]
        OBVIOUS
      <4>3. IsFiniteSet(Z \ {a}) /\ Cardinality(Z \ {a}) = Cardinality(Z) - 1
        <5>1. a \in Z /\ IsFiniteSet(Z)
          BY <3>2, <3>4, <4>2
        <5> QED BY <5>1, FS_RemoveElement
      <4> QED BY <4>1, <4>2, <4>3
    <3>6. d[2] \notin R
      BY <3>2
    <3> HIDE DEF R
    <3>7. Cardinality(R \cup {d[2]}) = Cardinality(R) + 1
      BY <3>5, <3>6, FS_AddElement
    <3>8. Cardinality(Coming(x, kind)') = Cardinality(Y)
      BY <3>3, <3>5, <3>7
    <3> QED BY <2>1, <2>2, <3>8 DEF Y
  <2> QED BY <2>3, <2>4
<1>11. WeighOK'
  <2>1. \A t : Weighed(t) => Weighed(t)'
    BY DEF Weighed
  <2>2. Weighed(s)'
    BY <1>5 DEF Weighed
  <2>3. ASSUME NEW i \in DOMAIN (q \o u), (q \o u)[i][1][1] \notin touched
        PROVE  \/ ground[(q \o u)[i][1]] = "sand" /\ Weighed((q \o u)[i][1])'
               \/ ground[(q \o u)[i][1]] = "air" /\ Weighed(Over((q \o u)[i][1]))'
    <3>1. /\ Len(q) \in Nat /\ DOMAIN q = 1..Len(q) /\ DOMAIN (q \o u) = 1..Len(q) + 2
          /\ \A j \in 1..Len(q) : (q \o u)[j] = q[j]
          /\ \A j \in 1..2 : (q \o u)[Len(q) + j] = u[j]
      <4>1. /\ Len(q) \in Nat /\ DOMAIN q = 1..Len(q) /\ DOMAIN (q \o u) = 1..Len(q) + Len(u)
            /\ \A j \in 1..Len(q) : (q \o u)[j] = q[j]
            /\ \A j \in 1..Len(u) : (q \o u)[Len(q) + j] = u[j]
        BY <1>3, Joined
      <4> QED BY <1>4, <4>1
    <3>2. CASE i \in DOMAIN q
      <4>1. (q \o u)[i] = q[i]
        BY <3>1, <3>2
      <4> QED BY <1>1, <2>1, <2>3, <3>2, <4>1 DEF Relied, WeighOK
    <3>3. CASE i = Len(q) + 1
      <4>1. (q \o u)[i] = <<d, "sand">>
        BY <1>4, <3>1, <3>3
      <4> QED BY <1>2, <2>2, <4>1
    <3>4. CASE i = Len(q) + 2
      <4>1. (q \o u)[i] = <<s, "air">>
        BY <1>4, <3>1, <3>4
      <4> QED BY <1>7, <2>2, <2>3, <4>1
    <3>5. i \in DOMAIN q \/ i = Len(q) + 1 \/ i = Len(q) + 2
      BY <2>3, <3>1
    <3> QED BY <3>2, <3>3, <3>4, <3>5
  <2> QED BY <1>6, <2>3 DEF WeighOK
<1> QED BY <1>10, <1>11 DEF Relied, SpikesOK, SowOK

LEMMA WeighKeeps ==
    ASSUME LandType, Relied, NEW s \in Site, NEW kind \in BlockKinds, Weigh(s, kind), pass.stage = "weigh"
    PROVE  Relied'
<1> USE DEF LandType
<1>1. /\ <<s, kind>> \in pass.seen /\ ground' = ground /\ before' = before /\ touched' = touched
      /\ pass'.stage = "weigh" /\ pass'.todo = pass.todo /\ pass'.seen = {}
      /\ pass'.updates = IF kind \in Loose /\ Yields(Under(s))
                         THEN pass.updates \o <<<<Under(s), kind>>, <<s, "air">>>> ELSE pass.updates
  BY DEF Weigh, PassType
<1>2. CASE kind \in Loose /\ Yields(Under(s))
  <2>1. kind = "sand"
    BY <1>2 DEF Loose
  <2> QED BY <1>1, <1>2, <2>1, FallKeeps
<1>3. CASE ~(kind \in Loose /\ Yields(Under(s)))
  <2>1. pass'.updates = pass.updates
    BY <1>1, <1>3
  <2>2. StillThere'
    BY <1>1, <2>1, KeptSame DEF Relied
  <2>3. \A t : Weighed(t) => Weighed(t)'
    BY <1>1 DEF Weighed
  <2>4. WeighOK'
    BY <1>1, <2>1, <2>3 DEF Relied, WeighOK
  <2> QED BY <1>1, <2>2, <2>4 DEF Relied, SpikesOK, SowOK
<1> QED BY <1>2, <1>3

(* A block is under consideration only while blocks are weighed.           *)
SeenOK == pass.seen # {} => pass.stage = "weigh"

LEMMA SeenNext == LandType /\ SeenOK /\ TerrainNext => SeenOK'
<1> SUFFICES ASSUME LandType, SeenOK, TerrainNext PROVE SeenOK'
  OBVIOUS
<1> USE DEF SeenOK
<1>1. CASE \E s \in Site : \E kind \in {"air", "sand", "crop"} : BuildAt(s, kind)
  BY <1>1 DEF BuildAt
<1>2. CASE BeginPhysics \/ BeginSpikes \/ \E grown \in SUBSET Tops : GrowCrops(grown)
  <2>1. pass'.seen = {}
    BY <1>2 DEF BeginPhysics, BeginSpikes, GrowCrops, Begins, Resting
  <2> QED BY <2>1
<1>3. CASE \E s \in Site : LookAt(s)
  BY <1>3 DEF LookAt, LandType, PassType
<1>4. CASE \E s \in Site : VisitSpike(s)
  BY <1>4 DEF VisitSpike, LandType, PassType
<1>5. CASE \E s \in Site : \E kind \in Solids \cup {"air"} : Weigh(s, kind)
  BY <1>5 DEF Weigh, LandType, PassType
<1>6. CASE \E chosen \in SUBSET Chances : Scan(chosen)
  BY <1>6 DEF Scan, Resting
<1>7. CASE Apply
  BY <1>7 DEF Apply, LandType, PassType
<1>8. CASE EndPass \/ SowCrops
  BY <1>8 DEF EndPass, SowCrops, Resting
<1> QED BY <1>1, <1>2, <1>3, <1>4, <1>5, <1>6, <1>7, <1>8 DEF TerrainNext

LandInv == LandType /\ SeenOK /\ Relied

LEMMA LandInvInit == TerrainInit => LandInv
<1> SUFFICES ASSUME TerrainInit PROVE LandInv
  OBVIOUS
<1>1. pass = Resting /\ before = ground
  BY DEF TerrainInit
<1>2. pass.updates = <<>> /\ pass.seen = {} /\ pass.stage = "none"
  BY <1>1 DEF Resting
<1>3. StillThere
  <2> SUFFICES ASSUME NEW x \in 0..Wide - 1, NEW kind \in {"sand", "crop"}
               PROVE  Cardinality(Coming(x, kind)) = Amount(before, x, kind)
    BY DEF StillThere
  <2> QED BY <1>1, <1>2, NothingComes
<1> QED BY <1>2, <1>3, LandTypeInit DEF LandInv, SeenOK, Relied, WeighOK, SpikesOK, SowOK

LEMMA LandInvStep == LandInv /\ [TerrainNext]_terrain_vars => LandInv'
<1> SUFFICES ASSUME LandInv, [TerrainNext]_terrain_vars PROVE SeenOK' /\ Relied'
  BY LandTypeStep DEF LandInv
<1>1. LandType /\ SeenOK /\ Relied
  BY DEF LandInv
<1>2. CASE UNCHANGED terrain_vars
  <2>1. ground' = ground /\ pass' = pass /\ before' = before /\ touched' = touched
    BY <1>2 DEF terrain_vars
  <2>2. StillThere'
    BY <1>1, <2>1, KeptSame DEF Relied
  <2> QED BY <1>1, <2>1, <2>2 DEF SeenOK, Relied, WeighOK, SpikesOK, SowOK, Weighed
<1>3. CASE TerrainNext
  <2>1. SeenOK'
    BY <1>1, <1>3, SeenNext
  <2>2. ASSUME NEW s \in Site, NEW kind \in {"air", "sand", "crop"}, BuildAt(s, kind) PROVE Relied'
    BY <1>1, <2>2, BuildKeeps
  <2>3. CASE BeginPhysics
    <3> DEFINE p == [Resting EXCEPT !.stage = "weigh", !.todo = falling]
    <3>1. Begins(p) /\ ground' = ground
      BY <2>3 DEF BeginPhysics
    <3>2. p.updates = <<>> /\ p.seen = {} /\ p.stage = "weigh"
      BY DEF Resting
    <3> HIDE DEF p
    <3> QED BY <1>1, <2>1, <3>1, <3>2, BeginningKeeps
  <2>4. CASE BeginSpikes
    <3> DEFINE p == [Resting EXCEPT !.stage = "spikes", !.todo = {s \in Site : ground[s] = "spike"}]
    <3>1. Begins(p) /\ ground' = ground
      BY <2>4 DEF BeginSpikes
    <3>2. p.updates = <<>> /\ p.seen = {} /\ p.stage = "spikes" /\ \A s \in p.todo : ground[s] = "spike"
      BY DEF Resting
    <3> HIDE DEF p
    <3> QED BY <1>1, <2>1, <3>1, <3>2, BeginningKeeps
  <2>5. ASSUME NEW s \in Site, LookAt(s) PROVE Relied'
    BY <1>1, <2>5, LookKeeps
  <2>6. ASSUME NEW s \in Site, VisitSpike(s) PROVE Relied'
    BY <1>1, <2>6, VisitKeeps
  <2>7. ASSUME NEW s \in Site, NEW kind \in BlockKinds, Weigh(s, kind) PROVE Relied'
    <3>1. pass.stage = "weigh"
      BY <1>1, <2>7 DEF Weigh, SeenOK
    <3> QED BY <1>1, <2>7, <3>1, WeighKeeps
  <2>8. ASSUME NEW chosen \in SUBSET Chances, Scan(chosen) PROVE Relied'
    BY <1>1, <2>8, ScanKeeps
  <2>9. CASE Apply
    BY <1>1, <2>1, <2>9, ApplyKeeps
  <2>10. CASE EndPass
    BY <1>1, <2>1, <2>10, EndKeeps
  <2>11. CASE SowCrops
    BY <1>1, <2>1, <2>11, SowKeeps
  <2>12. ASSUME NEW grown \in SUBSET Tops, GrowCrops(grown) PROVE Relied'
    <3> DEFINE p == [Resting EXCEPT !.stage = "sow", !.todo = grown]
    <3>1. Begins(p) /\ ground' = ground /\ \A s \in grown : ground[s] = "crop"
      BY <2>12 DEF GrowCrops
    <3>2. p.updates = <<>> /\ p.seen = {} /\ p.stage = "sow" /\ p.todo = grown
      BY DEF Resting
    <3> HIDE DEF p
    <3> QED BY <1>1, <2>1, <3>1, <3>2, BeginningKeeps
  <2>13. Relied'
    BY <1>3, <2>2, <2>3, <2>4, <2>5, <2>6, <2>7, <2>8, <2>9, <2>10, <2>11, <2>12 DEF TerrainNext, BlockKinds
  <2> QED BY <2>1, <2>13
<1> QED BY <1>2, <1>3

(* Whatever falls, burns, grows, thaws, comes off or is set again in a     *)
(* pass of tick_physics, tick_crops or tick_sulfur_spikes, and however     *)
(* players build meanwhile: between two passes, a column none of them has  *)
(* built in since the last one began holds as much sand and as many crops  *)
(* as it did then, though the passes write blocks read under other guards. *)
THEOREM UntouchedColumnsConserved == TerrainSpec => []UntouchedConserved
<1>1. LandInv => UntouchedConserved
  <2> SUFFICES ASSUME LandInv, pass = Resting, NEW x \in (0..Wide - 1) \ touched, NEW kind \in {"sand", "crop"}
               PROVE  Amount(ground, x, kind) = Amount(before, x, kind)
    BY DEF UntouchedConserved
  <2>1. pass.updates = <<>>
    BY DEF Resting
  <2>2. Cardinality(Coming(x, kind)) = Amount(ground, x, kind)
    BY <2>1, NothingComes
  <2> QED BY <2>2 DEF LandInv, Relied, StillThere
<1> QED BY LandInvInit, LandInvStep, <1>1, PTL DEF TerrainSpec

-----------------------------------------------------------------------------
(* Division                                                                *)

LEMMA DivMod ==
    ASSUME NEW a \in Nat, NEW b \in Nat \ {0}
    PROVE  /\ a \div b \in Nat /\ a % b \in 0..b - 1
           /\ a = b * (a \div b) + (a % b)
  OBVIOUS

Divided(a, b) == \E q, r \in Nat : q = a \div b /\ r = a % b /\ a = b * q + r /\ r < b

LEMMA Division ==
    ASSUME NEW a \in Nat, NEW b \in Nat \ {0}
    PROVE  Divided(a, b)
  BY DivMod DEF Divided

LEMMA NextMultiple ==
    ASSUME NEW m \in Nat \ {0}, NEW q \in Nat, NEW n \in Nat \ {0}, q < n
    PROVE  m * q + m <= m * n /\ m * q \in Nat /\ m * n \in Nat
<1>1. PICK d \in Nat : n = q + 1 + d
  <2>1. n - q - 1 \in Nat /\ n = q + 1 + (n - q - 1)
    OBVIOUS
  <2> QED BY <2>1
<1>2. m * (q + 1 + d) = m * q + m + m * d
  OBVIOUS
<1>3. m * d \in Nat /\ m * q \in Nat
  OBVIOUS
<1> QED BY <1>1, <1>2, <1>3

LEMMA Split ==
    ASSUME NEW a \in Nat, NEW m \in Nat \ {0}, NEW q \in Nat, NEW r \in Nat, r < m, a = m * q + r
    PROVE  a \div m = q /\ a % m = r
<1>1. PICK p, s \in Nat : p = a \div m /\ s = a % m /\ a = m * p + s /\ s < m
  BY DivMod
<1>2. ~(p < q)
  <2> SUFFICES ASSUME p < q PROVE FALSE
    OBVIOUS
  <2>1. q \in Nat \ {0}
    OBVIOUS
  <2>2. m * p + m <= m * q /\ m * p \in Nat /\ m * q \in Nat
    BY <2>1, NextMultiple
  <2> QED BY <1>1, <2>2
<1>3. ~(q < p)
  <2> SUFFICES ASSUME q < p PROVE FALSE
    OBVIOUS
  <2>1. p \in Nat \ {0}
    OBVIOUS
  <2>2. m * q + m <= m * p /\ m * p \in Nat /\ m * q \in Nat
    BY <2>1, NextMultiple
  <2> QED BY <1>1, <2>2
<1>4. p = q
  BY <1>2, <1>3
<1>5. s = r
  <2>1. m * q \in Nat
    OBVIOUS
  <2> QED BY <1>1, <1>4, <2>1
<1> QED BY <1>1, <1>4, <1>5

(* Dividing twice is dividing by the product.                              *)
Twice(a, m, n, k) ==
    /\ (a \div m) \div n = a \div k
    /\ (a % k) % m = a % m
    /\ (a % k) \div m = (a \div m) % n

LEMMA Nested ==
    ASSUME NEW a \in Nat, NEW m \in Nat \ {0}, NEW n \in Nat \ {0}, NEW k \in Nat \ {0}, k = m * n
    PROVE  Twice(a, m, n, k)
<1>1. PICK p, r \in Nat : p = a \div m /\ r = a % m /\ a = m * p + r /\ r < m
  BY DivMod
<1>2. PICK q, s \in Nat : q = p \div n /\ s = p % n /\ p = n * q + s /\ s < n
  BY DivMod
<1>3. m * n \in Nat \ {0}
  OBVIOUS
<1>4. k \in Nat \ {0} /\ k = m * n
  OBVIOUS
<1>5. PICK t \in Nat : t = m * s + r
  OBVIOUS
<1>6. t < k
  <2>1. m * s + m <= m * n /\ m * s \in Nat
    BY <1>2, NextMultiple
  <2> QED BY <1>1, <1>4, <1>5, <2>1
<1>7. a = k * q + t
  <2>1. m * (n * q + s) = (m * n) * q + m * s
    OBVIOUS
  <2>2. a = m * (n * q + s) + r
    BY <1>1, <1>2
  <2>3. (m * n) * q \in Nat /\ m * s \in Nat
    OBVIOUS
  <2> QED BY <1>4, <1>5, <2>1, <2>2, <2>3
<1>8. a \div k = q /\ a % k = t
  BY <1>6, <1>7, Split
<1>9. t \div m = s /\ t % m = r
  BY <1>1, <1>5, Split
<1> QED BY <1>1, <1>2, <1>4, <1>8, <1>9 DEF Twice

-----------------------------------------------------------------------------
(* Powers of two                                                           *)

LEMMA TwoTos ==
    /\ TwoTo \in [Nat -> Nat] /\ TwoTo[0] = 1
    /\ \A i \in Nat \ {0} : TwoTo[i] = 2 * TwoTo[i - 1]
<1>1. PICK G : G = [k \in Nat |-> [v \in Nat |-> 2 * v]]
  OBVIOUS
<1>2. G \in [Nat -> [Nat -> Nat]]
  BY <1>1
<1> DEFINE Eq(g) == g = [i \in Nat |-> IF i = 0 THEN 1 ELSE 2 * g[i - 1]]
<1>3. PICK V, one, S : V = Nat /\ one = 1 /\ S = Nat
  OBVIOUS
<1>4. one \in V /\ G \in [Nat -> [V -> V]] /\ S \in SUBSET Nat /\ 0 \in S /\ \A i \in S \ {0} : i - 1 \in S
  BY <1>2, <1>3
<1>5. /\ \E f \in [S -> V] : Proceeds(f, G, one, S)
      /\ \A f : Heeds(f, G, one, S, V) => f \in [S -> V] /\ Proceeds(f, G, one, S)
  BY <1>4, Recursive
<1>6. \A k, v \in Nat : G[k][v] = 2 * v
  BY <1>1
<1>7. ASSUME NEW f \in [S -> V], Proceeds(f, G, one, S)
       PROVE  f \in [Nat -> Nat] /\ f[0] = 1 /\ \A i \in Nat \ {0} : f[i] = 2 * f[i - 1]
  <2>1. f \in [Nat -> Nat] /\ f[0] = 1 /\ \A i \in Nat \ {0} : f[i] = G[i][f[i - 1]]
    BY <1>3, <1>7 DEF Proceeds
  <2>2. ASSUME NEW i \in Nat \ {0} PROVE f[i] = 2 * f[i - 1]
    <3>1. i - 1 \in Nat /\ i \in Nat
      OBVIOUS
    <3>2. f[i - 1] \in Nat
      BY <2>1, <3>1
    <3>3. G[i][f[i - 1]] = 2 * f[i - 1]
      BY <1>6, <3>1, <3>2
    <3> QED BY <2>1, <3>3
  <2> QED BY <2>1, <2>2
<1>8. PICK f \in [Nat -> Nat] : f[0] = 1 /\ \A i \in Nat \ {0} : f[i] = 2 * f[i - 1]
  BY <1>5, <1>7
<1>9. Eq(f)
  BY <1>8
<1>10. Eq(TwoTo)
  <2>1. TwoTo = CHOOSE g : Eq(g)
    BY DEF TwoTo
  <2> HIDE DEF Eq
  <2> QED BY <1>9, <2>1
<1>11. Heeds(TwoTo, G, one, S, V)
  BY <1>1, <1>3, <1>10 DEF Heeds
<1>12. TwoTo \in [S -> V] /\ Proceeds(TwoTo, G, one, S)
  BY <1>5, <1>11
<1> QED BY <1>7, <1>12

LEMMA Larger ==
    \A n \in Nat : TwoTo[n] \in Nat \ {0} /\ n < TwoTo[n]
<1> DEFINE Bad == {n \in Nat : ~(TwoTo[n] \in Nat \ {0} /\ n < TwoTo[n])}
<1>1. ASSUME NEW n \in Bad PROVE \E m \in Bad : m < n
  <2>1. n # 0
    BY TwoTos
  <2>2. n - 1 \in Nat /\ n \in Nat \ {0} /\ n - 1 < n
    BY <2>1
  <2>3. TwoTo[n] = 2 * TwoTo[n - 1]
    BY <2>2, TwoTos
  <2>4. SUFFICES ASSUME ~(n - 1 \in Bad) PROVE FALSE
    BY <2>2
  <2>5. PICK p \in Nat \ {0} : p = TwoTo[n - 1] /\ n - 1 < p
    BY <2>2, <2>4
  <2> QED BY <2>2, <2>3, <2>5
<1>2. Bad = {}
  <2>1. Bad \in SUBSET Nat
    OBVIOUS
  <2> HIDE DEF Bad
  <2> QED BY <1>1, <2>1, NoneBad
<1> QED BY <1>2

LEMMA TwoToSum ==
    ASSUME NEW a \in Nat, NEW b \in Nat
    PROVE  TwoTo[a + b] = TwoTo[a] * TwoTo[b]
<1> DEFINE Bad == {n \in Nat : TwoTo[a + n] # TwoTo[a] * TwoTo[n]}
<1>1. ASSUME NEW n \in Bad PROVE \E m \in Bad : m < n
  <2>1. n # 0
    <3>1. a + 0 = a /\ TwoTo[a] \in Nat
      BY Larger
    <3> QED BY <3>1, TwoTos
  <2>2. n - 1 \in Nat /\ n \in Nat \ {0} /\ n - 1 < n /\ a + n \in Nat \ {0} /\ (a + n) - 1 = a + (n - 1)
    BY <2>1
  <2>3. TwoTo[n] = 2 * TwoTo[n - 1] /\ TwoTo[a + n] = 2 * TwoTo[a + (n - 1)]
    <3> USE TwoTos
    <3>1. TwoTo[a + n] = 2 * TwoTo[(a + n) - 1]
      BY <2>2
    <3> QED BY <2>2, <3>1
  <2>4. SUFFICES ASSUME ~(n - 1 \in Bad) PROVE FALSE
    BY <2>2
  <2>5. PICK p, q \in Nat : p = TwoTo[n - 1] /\ q = TwoTo[a]
    BY <2>2, Larger
  <2>6. TwoTo[a + (n - 1)] = q * p
    BY <2>2, <2>4, <2>5
  <2>7. 2 * (q * p) = q * (2 * p)
    OBVIOUS
  <2>8. TwoTo[a + n] = TwoTo[a] * TwoTo[n]
    BY <2>3, <2>5, <2>6, <2>7
  <2> QED BY <2>8
<1>2. Bad = {}
  <2>1. Bad \in SUBSET Nat
    OBVIOUS
  <2> HIDE DEF Bad
  <2> QED BY <1>1, <2>1, NoneBad
<1> QED BY <1>2

-----------------------------------------------------------------------------
(* A field of a word: so many bits from an offset on.                      *)

BitsAt(x, o, b) == (x \div TwoTo[o]) % TwoTo[b]
Inserted(x, o, b, v) == (x % TwoTo[o]) + v * TwoTo[o] + Above(x, o + b)
Words == 0..TwoTo[WordBits] - 1

(* A field below an offset depends on the bits below it only.              *)
LEMMA FieldBelow ==
    ASSUME NEW x \in Nat, NEW y \in Nat, NEW o \in Nat, NEW p \in Nat, NEW c \in Nat, p + c <= o,
           x % TwoTo[o] = y % TwoTo[o]
    PROVE  BitsAt(x, p, c) = BitsAt(y, p, c)
<1>1. PICK d \in Nat : o = (p + c) + d
  <2>1. o - (p + c) \in Nat /\ o = (p + c) + (o - (p + c))
    OBVIOUS
  <2> QED BY <2>1
<1>2. p + c \in Nat
  OBVIOUS
<1>3. TwoTo[o] = TwoTo[p + c] * TwoTo[d] /\ TwoTo[p + c] = TwoTo[p] * TwoTo[c]
  BY <1>1, <1>2, TwoToSum
<1>4. PICK A, B, D, E \in Nat \ {0} : A = TwoTo[p] /\ B = TwoTo[c] /\ D = TwoTo[d] /\ E = TwoTo[p + c]
  BY <1>2, Larger
<1>5. PICK F \in Nat \ {0} : F = TwoTo[o]
  BY Larger
<1>6. F = E * D /\ E = A * B
  BY <1>3, <1>4, <1>5
<1>7. Twice(x, E, D, F) /\ Twice(y, E, D, F) /\ Twice(x, A, B, E) /\ Twice(y, A, B, E)
  BY <1>6, Nested
<1>8. x % E = y % E
  BY <1>5, <1>7 DEF Twice
<1>9. (x \div A) % B = (y \div A) % B
  BY <1>7, <1>8 DEF Twice
<1> QED BY <1>4, <1>9 DEF BitsAt

(* A field from an offset on depends on the bits above it only.            *)
LEMMA FieldAbove ==
    ASSUME NEW x \in Nat, NEW y \in Nat, NEW o \in Nat, NEW p \in Nat, NEW c \in Nat, o <= p,
           x \div TwoTo[o] = y \div TwoTo[o]
    PROVE  BitsAt(x, p, c) = BitsAt(y, p, c)
<1>1. PICK d \in Nat : p = o + d
  <2>1. p - o \in Nat /\ p = o + (p - o)
    OBVIOUS
  <2> QED BY <2>1
<1>2. PICK A, D \in Nat \ {0} : A = TwoTo[o] /\ D = TwoTo[d]
  BY Larger
<1>3. PICK E \in Nat \ {0} : E = TwoTo[p] /\ E = A * D
  BY <1>1, <1>2, TwoToSum, Larger
<1>4. Twice(x, A, D, E) /\ Twice(y, A, D, E)
  BY <1>3, Nested
<1>5. x \div TwoTo[p] = y \div TwoTo[p]
  BY <1>2, <1>3, <1>4 DEF Twice
<1> QED BY <1>5 DEF BitsAt

(* What is inserted is there; below and above it nothing changes.          *)
LEMMA Insertion ==
    ASSUME NEW x \in Nat, NEW o \in Nat, NEW b \in Nat, NEW v \in Nat, v < TwoTo[b],
           NEW y, y = Inserted(x, o, b, v)
    PROVE  /\ y \in Nat /\ BitsAt(y, o, b) = v
           /\ y % TwoTo[o] = x % TwoTo[o] /\ y \div TwoTo[o + b] = x \div TwoTo[o + b]
<1>1. o + b \in Nat
  OBVIOUS
<1>2. PICK A, B, C \in Nat \ {0} : A = TwoTo[o] /\ B = TwoTo[b] /\ C = TwoTo[o + b]
  BY <1>1, Larger
<1>3. C = A * B
  BY <1>2, TwoToSum
<1>4. Divided(x, A) /\ Divided(x, C)
  BY Division
<1>5. PICK l \in Nat : l = x % A /\ l < A
  BY <1>4 DEF Divided
<1>6. PICK h, k \in Nat : h = x \div C /\ k = x % C /\ x = C * h + k
  BY <1>4 DEF Divided
<1>7. PICK t \in Nat : t = A * v + l
  OBVIOUS
<1>8. t < C
  <2>1. A * v + A <= A * B /\ A * v \in Nat
    BY <1>2, NextMultiple
  <2> QED BY <1>3, <1>5, <1>7, <2>1
<1>9. y = C * h + t
  <2>1. Above(x, o + b) = x - k
    BY <1>2, <1>6 DEF Above
  <2>2. y = l + v * A + (x - k)
    BY <1>2, <1>5, <2>1 DEF Inserted
  <2>3. v * A = A * v /\ A * v \in Nat /\ C * h \in Nat
    OBVIOUS
  <2> QED BY <1>6, <1>7, <2>2, <2>3
<1>10. y \in Nat
  <2>1. C * h \in Nat
    OBVIOUS
  <2> QED BY <1>9, <2>1
<1>11. y \div C = h /\ y % C = t
  BY <1>8, <1>9, <1>10, Split
<1>12. t \div A = v /\ t % A = l
  BY <1>5, <1>7, Split
<1>13. Twice(y, A, B, C)
  BY <1>3, <1>10, Nested
<1>14. (y \div A) % B = v /\ y % A = l
  BY <1>11, <1>12, <1>13 DEF Twice
<1>15. BitsAt(y, o, b) = v
  BY <1>2, <1>14 DEF BitsAt
<1> QED BY <1>2, <1>5, <1>6, <1>10, <1>11, <1>14, <1>15

LEMMA InsertionFits ==
    ASSUME NEW x \in Nat, NEW o \in Nat, NEW b \in Nat, NEW y \in Nat, NEW w \in Nat,
           o + b <= w, x < TwoTo[w], y \div TwoTo[o + b] = x \div TwoTo[o + b]
    PROVE  y < TwoTo[w]
<1>1. PICK c, d \in Nat : c = o + b /\ w = c + d
  <2>1. o + b \in Nat /\ w - (o + b) \in Nat /\ w = (o + b) + (w - (o + b))
    OBVIOUS
  <2> QED BY <2>1
<1>2. PICK C, D, E \in Nat \ {0} : C = TwoTo[c] /\ D = TwoTo[d] /\ E = TwoTo[w]
  BY Larger
<1>3. E = C * D
  BY <1>1, <1>2, TwoToSum
<1>4. Divided(x, C) /\ Divided(y, C)
  BY Division
<1>5. PICK h, k \in Nat : h = x \div C /\ x = C * h + k
  BY <1>4 DEF Divided
<1>6. PICK l \in Nat : l < C /\ y = C * h + l
  <2>1. y \div C = h
    BY <1>1, <1>2, <1>5
  <2> QED BY <1>4, <2>1 DEF Divided
<1>7. h < D
  <2> SUFFICES ASSUME D <= h PROVE FALSE
    OBVIOUS
  <2>1. C * h \in Nat
    OBVIOUS
  <2>2. CASE D = h
    BY <1>2, <1>3, <1>5, <2>1, <2>2
  <2>3. CASE D < h
    <3>1. h \in Nat \ {0}
      BY <2>3
    <3>2. C * D + C <= C * h
      BY <2>3, <3>1, NextMultiple
    <3>3. C * D \in Nat
      OBVIOUS
    <3> QED BY <1>2, <1>3, <1>5, <2>1, <3>2, <3>3
  <2> QED BY <2>2, <2>3
<1>8. C * h + C <= C * D /\ C * h \in Nat /\ C * D \in Nat
  BY <1>7, NextMultiple
<1> QED BY <1>2, <1>3, <1>6, <1>8
LEMMA SmallQuotient ==
    ASSUME NEW a \in Nat, NEW m \in Nat \ {0}, NEW n \in Nat \ {0}, a < m * n
    PROVE  a \div m \in Nat /\ a \div m < n
<1>1. Divided(a, m)
  BY Division
<1>2. PICK q, r \in Nat : q = a \div m /\ a = m * q + r
  BY <1>1 DEF Divided
<1>3. m * q \in Nat /\ m * n \in Nat
  OBVIOUS
<1>4. CASE n < q
  <2>1. q \in Nat \ {0}
    BY <1>4
  <2>2. m * n + m <= m * q
    BY <1>4, <2>1, NextMultiple
  <2> QED BY <1>2, <1>3, <2>2
<1>5. CASE n = q
  BY <1>2, <1>3, <1>5
<1>6. CASE q < n
  BY <1>2, <1>6
<1> QED BY <1>4, <1>5, <1>6

(* What is shifted out at the top of a word is gone.                       *)
Overflows(v, a, n, k) == (v * a) % k = (v % n) * a

LEMMA Overflow ==
    ASSUME NEW v \in Nat, NEW a \in Nat \ {0}, NEW n \in Nat \ {0}, NEW k \in Nat \ {0}, k = a * n
    PROVE  Overflows(v, a, n, k)
<1>1. Divided(v, n)
  BY Division
<1>2. PICK q, r \in Nat : r = v % n /\ v = n * q + r /\ r < n
  BY <1>1 DEF Divided
<1>3. a * r + a <= a * n /\ a * r \in Nat
  BY <1>2, NextMultiple
<1>4. (n * q + r) * a = (a * n) * q + a * r
  OBVIOUS
<1>5. PICK t, s \in Nat : t = a * r /\ s = v * a /\ t < k
  BY <1>3
<1>6. s = k * q + t
  BY <1>2, <1>4, <1>5
<1>7. s % k = t
  BY <1>5, <1>6, Split
<1>8. r * a = a * r
  OBVIOUS
<1> QED BY <1>2, <1>5, <1>7, <1>8 DEF Overflows

LEMMA One ==
    ASSUME NEW x \in Nat
    PROVE  x % 1 = 0 /\ x \div 1 = x
  OBVIOUS

-----------------------------------------------------------------------------
(* Where an entry is                                                       *)

Arrays(bits) == [DOMAIN NewPacked(bits) -> Words]
Slots(bits) == (BlocksPerSection * bits + WordBits - 1) \div WordBits

Located(i, b) ==
    /\ Word(i, b) \in Nat \ {0} /\ Offset(i, b) \in 0..WordBits - 1
    /\ i * b = WordBits * (Word(i, b) - 1) + Offset(i, b)
    /\ Crossing(i, b) = Offset(i, b) + b - WordBits
    /\ Word(i, b) \in 1..Slots(b)
    /\ Crossing(i, b) > 0 => Word(i, b) + 1 \in 1..Slots(b)

LEMMA Location ==
    ASSUME NEW b \in 1..WordBits, NEW i \in Index
    PROVE  Located(i, b) /\ DOMAIN NewPacked(b) = 1..Slots(b) /\ Slots(b) \in Nat
<1>1. WordBits \in Nat \ {0} /\ BlocksPerSection \in Nat \ {0} /\ b \in Nat \ {0} /\ i \in Nat /\ i < BlocksPerSection
  BY PaletteAssumption DEF Index
<1>2. PICK W, N \in Nat \ {0} : W = WordBits /\ N = BlocksPerSection
  BY <1>1
<1>3. PICK e \in Nat : e = i * b
  BY <1>1
<1>4. Divided(e, W)
  BY Division
<1>5. PICK q, o \in Nat : q = e \div W /\ o = e % W /\ e = W * q + o /\ o < W
  BY <1>4 DEF Divided
<1>6. b * i + b <= b * N
  BY <1>1, <1>2, NextMultiple
<1>7. PICK f \in Nat : f = N * b /\ e + b <= f
  <2>1. N * b = b * N /\ i * b = b * i /\ N * b \in Nat
    BY <1>1
  <2> QED BY <1>3, <1>6, <2>1
<1>8. PICK g \in Nat : g = f + W - 1
  <2>1. f + W - 1 \in Nat
    OBVIOUS
  <2> QED BY <2>1
<1>9. Divided(g, W)
  BY Division
<1>10. PICK s, r \in Nat : s = g \div W /\ g = W * s + r /\ r < W
  BY <1>9 DEF Divided
<1>11. Slots(b) = s
  BY <1>2, <1>7, <1>8, <1>10 DEF Slots
<1>12. Word(i, b) = q + 1 /\ Offset(i, b) = o
  BY <1>2, <1>3, <1>5 DEF Word, Offset
<1>13. q < s
  <2> SUFFICES ASSUME s <= q PROVE FALSE
    OBVIOUS
  <2>1. W * s <= W * q
    <3>1. CASE s = q
      <4>1. W * s \in Nat /\ W * s = W * q
        BY <3>1
      <4> QED BY <4>1
    <3>2. CASE s < q
      <4>1. q \in Nat \ {0}
        BY <3>2
      <4>2. W * s + W <= W * q /\ W * s \in Nat /\ W * q \in Nat
        BY <3>2, <4>1, NextMultiple
      <4> QED BY <4>2
    <3> QED BY <3>1, <3>2
  <2>2. W * s \in Nat /\ W * q \in Nat
    OBVIOUS
  <2> QED BY <1>1, <1>5, <1>7, <1>8, <1>10, <2>1, <2>2
<1>14. o + b > W => q + 1 < s
  <2> SUFFICES ASSUME o + b > W, s <= q + 1 PROVE FALSE
    OBVIOUS
  <2>1. s = q + 1
    BY <1>13
  <2>2. W * s = W * q + W /\ W * q \in Nat
    BY <2>1
  <2> QED BY <1>1, <1>5, <1>7, <1>8, <1>10, <2>2
<1>15. DOMAIN NewPacked(b) = 1..Slots(b)
  BY DEF NewPacked, Slots
<1>16. i * b = WordBits * ((q + 1) - 1) + o
  <2>1. (q + 1) - 1 = q
    OBVIOUS
  <2> QED BY <1>2, <1>3, <1>5, <2>1
<1> QED BY <1>1, <1>2, <1>5, <1>11, <1>12, <1>13, <1>14, <1>15, <1>16 DEF Crossing, Located

(* Entries do not overlap.                                                 *)
LEMMA DigitsApart ==
    ASSUME NEW b \in 1..WordBits, NEW i \in Index, NEW j \in Index, i < j
    PROVE  /\ Word(i, b) <= Word(j, b)
           /\ Word(i, b) = Word(j, b) => Offset(i, b) + b <= Offset(j, b)
           /\ Word(i, b) + 1 = Word(j, b) => Crossing(i, b) <= Offset(j, b)
<1>1. WordBits \in Nat \ {0} /\ b \in Nat \ {0} /\ i \in Nat /\ j \in Nat \ {0}
  BY PaletteAssumption DEF Index
<1>2. b * i + b <= b * j
  BY <1>1, NextMultiple
<1>3. PICK d, e \in Nat : d = i * b /\ e = j * b /\ d + b <= e
  <2>1. b * i = i * b /\ b * j = j * b /\ i * b \in Nat /\ j * b \in Nat
    BY <1>1
  <2> QED BY <1>2, <2>1
<1>4. PICK W \in Nat \ {0} : W = WordBits
  BY <1>1
<1>5. PICK u, o \in Nat : Word(i, b) = u + 1 /\ Offset(i, b) = o /\ o < W /\ d = W * u + o /\ Crossing(i, b) = o + b - W
  <2>1. Located(i, b)
    BY Location
  <2>2. Word(i, b) - 1 \in Nat
    BY <2>1 DEF Located
  <2>3. PICK n, a \in Nat : n = Word(i, b) - 1 /\ a = Offset(i, b) /\ a < WordBits
    BY <1>1, <2>1, <2>2 DEF Located
  <2>4. i * b = WordBits * n + a /\ Crossing(i, b) = a + b - WordBits /\ Word(i, b) = n + 1
    BY <2>1, <2>3 DEF Located
  <2> QED BY <1>3, <1>4, <2>3, <2>4
<1>6. PICK v, p \in Nat : Word(j, b) = v + 1 /\ Offset(j, b) = p /\ p < W /\ e = W * v + p
  <2>1. Located(j, b)
    BY Location
  <2>2. Word(j, b) - 1 \in Nat
    BY <2>1 DEF Located
  <2>3. PICK n, a \in Nat : n = Word(j, b) - 1 /\ a = Offset(j, b) /\ a < WordBits
    BY <1>1, <2>1, <2>2 DEF Located
  <2>4. j * b = WordBits * n + a /\ Crossing(j, b) = a + b - WordBits /\ Word(j, b) = n + 1
    BY <2>1, <2>3 DEF Located
  <2> QED BY <1>3, <1>4, <2>3, <2>4
<1>7. W * u \in Nat /\ W * v \in Nat
  OBVIOUS
<1>8. u <= v
  <2> SUFFICES ASSUME v < u PROVE FALSE
    OBVIOUS
  <2>1. u \in Nat \ {0}
    OBVIOUS
  <2>2. W * v + W <= W * u
    BY <2>1, NextMultiple
  <2> QED BY <1>1, <1>3, <1>5, <1>6, <1>7, <2>2
<1>9. u = v => o + b <= p
  <2> HAVE u = v
  <2>1. W * u = W * v
    OBVIOUS
  <2> QED BY <1>1, <1>3, <1>5, <1>6, <1>7, <2>1
<1>10. u + 1 = v => o + b - W <= p
  <2> HAVE u + 1 = v
  <2>1. W * v = W * u + W
    OBVIOUS
  <2> QED BY <1>1, <1>3, <1>5, <1>6, <1>7, <2>1
<1> QED BY <1>5, <1>6, <1>8, <1>9, <1>10
-----------------------------------------------------------------------------
(* An entry is one field of a word, or two fields of two words             *)

Fields(data, i, b) ==
    IF Crossing(i, b) > 0
    THEN BitsAt(data[Word(i, b)], Offset(i, b), WordBits - Offset(i, b))
         + BitsAt(data[Word(i, b) + 1], 0, Crossing(i, b)) * TwoTo[WordBits - Offset(i, b)]
    ELSE BitsAt(data[Word(i, b)], Offset(i, b), b)

LEMMA WordTypes ==
    ASSUME NEW b \in 1..WordBits, NEW data \in Arrays(b), NEW i \in Index
    PROVE  /\ data[Word(i, b)] \in Nat /\ data[Word(i, b)] < TwoTo[WordBits]
           /\ Crossing(i, b) > 0 => data[Word(i, b) + 1] \in Nat /\ data[Word(i, b) + 1] < TwoTo[WordBits]
<1>1. Located(i, b) /\ DOMAIN NewPacked(b) = 1..Slots(b)
  BY Location
<1>2. data \in [1..Slots(b) -> Words]
  BY <1>1 DEF Arrays
<1>3. \A x \in Words : x \in Nat /\ x < TwoTo[WordBits]
  <2>1. TwoTo[WordBits] \in Nat
    BY Larger, PaletteAssumption
  <2> QED BY <2>1 DEF Words
<1>4. data[Word(i, b)] \in Words
  BY <1>1, <1>2 DEF Located
<1>5. Crossing(i, b) > 0 => data[Word(i, b) + 1] \in Words
  BY <1>1, <1>2 DEF Located
<1> QED BY <1>3, <1>4, <1>5

(* The rest of a word needs no mask.                                       *)
LEMMA TopField ==
    ASSUME NEW w \in Nat, NEW x \in Nat, x < TwoTo[w], NEW o \in 0..w
    PROVE  BitsAt(x, o, w - o) = x \div TwoTo[o]
<1>1. PICK d \in Nat : d = w - o /\ w = o + d
  <2>1. w - o \in Nat /\ w = o + (w - o)
    OBVIOUS
  <2> QED BY <2>1
<1>2. o \in Nat
  OBVIOUS
<1>3. PICK A, D \in Nat \ {0} : A = TwoTo[o] /\ D = TwoTo[d]
  BY <1>2, Larger
<1>4. A = TwoTo[o] /\ D = TwoTo[d] /\ TwoTo[w] = A * D
  BY <1>1, <1>2, <1>3, TwoToSum
<1>5. PICK q \in Nat : q = x \div A /\ q < D
  <2>1. x < A * D
    BY <1>4
  <2> QED BY <2>1, SmallQuotient
<1>6. q % D = q
  BY <1>5
<1> QED BY <1>1, <1>4, <1>5, <1>6 DEF BitsAt

LEMMA ReadFields ==
    ASSUME NEW b \in 1..WordBits, NEW data \in Arrays(b), NEW i \in Index
    PROVE  ReadPacked(data, i, b) = Fields(data, i, b)
<1>1. WordBits \in Nat \ {0} /\ b \in Nat \ {0}
  BY PaletteAssumption
<1>2. PICK o \in 0..WordBits - 1 : o = Offset(i, b) /\ Crossing(i, b) = o + b - WordBits
  BY Location DEF Located
<1>3. CASE Crossing(i, b) > 0
  <2>1. b - Crossing(i, b) = WordBits - o /\ o \in 0..WordBits
    BY <1>1, <1>2
  <2>2. PICK x, y \in Nat : x = data[Word(i, b)] /\ y = data[Word(i, b) + 1] /\ x < TwoTo[WordBits]
    BY <1>3, WordTypes
  <2>3. BitsAt(x, o, WordBits - o) = x \div TwoTo[o]
    BY <1>1, <2>1, <2>2, TopField
  <2>4. BitsAt(y, 0, Crossing(i, b)) = y % TwoTo[Crossing(i, b)]
    BY <2>2, One, TwoTos DEF BitsAt
  <2> QED BY <1>2, <1>3, <2>1, <2>2, <2>3, <2>4 DEF ReadPacked, Fields
<1>4. CASE ~(Crossing(i, b) > 0)
  BY <1>2, <1>4 DEF ReadPacked, Fields, BitsAt
<1> QED BY <1>3, <1>4

LEMMA AboveAll ==
    ASSUME NEW w \in Nat, NEW x \in Nat, x < TwoTo[w]
    PROVE  Above(x, w) = 0
<1>1. PICK m \in Nat \ {0} : m = TwoTo[w] /\ x < m
  BY Larger
<1>2. x % m = x
  BY <1>1
<1> QED BY <1>1, <1>2 DEF Above

LEMMA OneWord ==
    ASSUME NEW w \in Nat, NEW x \in Nat, x < TwoTo[w], NEW o \in Nat, NEW b \in Nat, o + b <= w,
           NEW v \in Nat, v < TwoTo[b]
    PROVE  (x % TwoTo[o]) + ((v * TwoTo[o]) % TwoTo[w]) + (IF o + b - w < 0 THEN Above(x, o + b) ELSE 0)
           = Inserted(x, o, b, v)
<1>1. PICK d \in Nat : w = o + (b + d)
  <2>1. w - o - b \in Nat /\ w = o + (b + (w - o - b))
    OBVIOUS
  <2> QED BY <2>1
<1>2. b + d \in Nat
  OBVIOUS
<1>3. PICK A, B, D, E, F \in Nat \ {0} :
        A = TwoTo[o] /\ B = TwoTo[b] /\ D = TwoTo[d] /\ E = TwoTo[b + d] /\ F = TwoTo[w]
  BY <1>2, Larger
<1>4. F = A * E /\ E = B * D
  BY <1>1, <1>2, <1>3, TwoToSum
<1>5. v < E
  <2>1. B <= B * D
    <3>1. PICK e \in Nat : D = e + 1
      <4>1. D - 1 \in Nat /\ D = (D - 1) + 1
        OBVIOUS
      <4> QED BY <4>1
    <3>2. B * (e + 1) = B * e + B /\ B * e \in Nat
      OBVIOUS
    <3> QED BY <3>1, <3>2
  <2> QED BY <1>3, <1>4, <2>1
<1>6. Overflows(v, A, E, F)
  BY <1>4, Overflow
<1>7. v % E = v
  BY <1>5
<1>8. (v * A) % F = v * A
  BY <1>6, <1>7 DEF Overflows
<1>9. (IF o + b - w < 0 THEN Above(x, o + b) ELSE 0) = Above(x, o + b)
  <2>1. CASE o + b = w
    BY <2>1, AboveAll
  <2>2. CASE o + b # w
    BY <2>2
  <2> QED BY <2>1, <2>2
<1> QED BY <1>3, <1>8, <1>9 DEF Inserted

LEMMA FirstWord ==
    ASSUME NEW w \in Nat, NEW x \in Nat, x < TwoTo[w], NEW o \in Nat, NEW d \in Nat, w = o + d, NEW v \in Nat
    PROVE  (x % TwoTo[o]) + ((v * TwoTo[o]) % TwoTo[w]) + 0 = Inserted(x, o, d, v % TwoTo[d])
<1>1. PICK A, D, F \in Nat \ {0} : A = TwoTo[o] /\ D = TwoTo[d] /\ F = TwoTo[w]
  BY Larger
<1>2. F = A * D
  BY <1>1, TwoToSum
<1>3. Overflows(v, A, D, F)
  BY <1>2, Overflow
<1>4. Above(x, o + d) = 0
  BY AboveAll
<1> QED BY <1>1, <1>3, <1>4 DEF Inserted, Overflows

LEMMA SecondWord ==
    ASSUME NEW y \in Nat, NEW c \in Nat, NEW u \in Nat
    PROVE  Above(y, c) + u = Inserted(y, 0, c, u)
<1>1. PICK z \in Int : z = Above(y, c)
  <2>1. PICK m \in Nat \ {0} : m = TwoTo[c]
    BY Larger
  <2>2. y - (y % m) \in Int
    OBVIOUS
  <2> QED BY <2>1, <2>2 DEF Above
<1>2. y % TwoTo[0] = 0 /\ u * TwoTo[0] = u /\ 0 + c = c
  BY One, TwoTos
<1> QED BY <1>1, <1>2 DEF Inserted
-----------------------------------------------------------------------------
(* What is written                                                         *)

LEMMA WriteInOne ==
    ASSUME NEW b \in 1..WordBits, NEW data \in Arrays(b), NEW i \in Index, NEW value \in Nat,
           ~(Crossing(i, b) > 0), NEW v, v = value % TwoTo[b], v < TwoTo[b], v \in Nat
    PROVE  WritePacked(data, i, b, value)
           = [data EXCEPT ![Word(i, b)] = Inserted(data[Word(i, b)], Offset(i, b), b, v)]
<1>1. WordBits \in Nat /\ b \in Nat
  BY PaletteAssumption
<1>2. PICK o \in Nat : o = Offset(i, b) /\ Crossing(i, b) = o + b - WordBits /\ Word(i, b) \in 1..Slots(b)
  BY Location DEF Located
<1>3. PICK x \in Nat : x = data[Word(i, b)] /\ x < TwoTo[WordBits]
  BY WordTypes
<1>4. o + b <= WordBits
  BY <1>1, <1>2
<1>5. (x % TwoTo[o]) + ((v * TwoTo[o]) % TwoTo[WordBits]) + (IF o + b - WordBits < 0 THEN Above(x, o + b) ELSE 0)
        = Inserted(x, o, b, v)
  BY <1>1, <1>3, <1>4, OneWord
<1> QED BY <1>2, <1>3, <1>5 DEF WritePacked

LEMMA WriteInTwo ==
    ASSUME NEW b \in 1..WordBits, NEW data \in Arrays(b), NEW i \in Index, NEW value \in Nat,
           Crossing(i, b) > 0, NEW v, v = value % TwoTo[b], v < TwoTo[b], v \in Nat
    PROVE  LET o == Offset(i, b)
               w == Word(i, b)
               d == WordBits - o
               first == [data EXCEPT ![w] = Inserted(data[w], o, d, v % TwoTo[d])]
           IN  WritePacked(data, i, b, value)
               = [first EXCEPT ![w + 1] = Inserted(data[w + 1], 0, Crossing(i, b), v \div TwoTo[d])]
<1>1. WordBits \in Nat /\ b \in Nat
  BY PaletteAssumption
<1>2. PICK w, o, c \in Nat : o = Offset(i, b) /\ w = Word(i, b) /\ c = Crossing(i, b) /\ o < WordBits
        /\ c = o + b - WordBits /\ w \in 1..Slots(b) /\ w + 1 \in 1..Slots(b) /\ DOMAIN NewPacked(b) = 1..Slots(b)
  <2>1. Located(i, b) /\ DOMAIN NewPacked(b) = 1..Slots(b)
    BY Location
  <2>2. PICK o \in Nat : o = Offset(i, b) /\ Crossing(i, b) = o + b - WordBits /\ o < WordBits
    BY <1>1, <2>1 DEF Located
  <2>3. Crossing(i, b) \in Nat /\ Word(i, b) \in Nat
    BY <1>1, <2>1, <2>2 DEF Located
  <2> QED BY <2>1, <2>2, <2>3 DEF Located
<1>3. PICK x, y \in Nat : x = data[w] /\ x < TwoTo[WordBits] /\ y = data[w + 1]
  BY <1>2, WordTypes
<1>4. PICK d \in Nat : d = WordBits - o /\ WordBits = o + d /\ b - c = d
  <2>1. WordBits - o \in Nat /\ WordBits = o + (WordBits - o) /\ b - c = WordBits - o
    BY <1>1, <1>2
  <2> QED BY <2>1
<1>5. PICK first : first = [data EXCEPT ![w] = Inserted(x, o, d, v % TwoTo[d])]
  OBVIOUS
<1>6. (x % TwoTo[o]) + ((v * TwoTo[o]) % TwoTo[WordBits]) + 0 = Inserted(x, o, d, v % TwoTo[d])
  BY <1>1, <1>3, <1>4, FirstWord
<1>7. PICK u \in Nat : u = v \div TwoTo[d]
  <2>1. PICK D \in Nat \ {0} : D = TwoTo[d]
    BY Larger
  <2>2. v \div D \in Nat
    BY DivMod
  <2> QED BY <2>1, <2>2
<1>8. Above(y, c) + u = Inserted(y, 0, c, u)
  BY <1>2, SecondWord
<1>9. first[w + 1] = y
  <2>1. data \in [1..Slots(b) -> Words] /\ w # w + 1
    BY <1>2 DEF Arrays
  <2> QED BY <1>2, <1>3, <1>5, <2>1
<1>10. c > 0 /\ ~(c < 0)
  BY <1>2
<1>11. WritePacked(data, i, b, value) = [first EXCEPT ![w + 1] = Above(y, c) + u]
  <2>1. WritePacked(data, i, b, value)
        = [[data EXCEPT ![w] = (x % TwoTo[o]) + ((v * TwoTo[o]) % TwoTo[WordBits]) + 0]
             EXCEPT ![w + 1] = Above(@, c) + (v \div TwoTo[b - c])]
    BY <1>2, <1>3, <1>10 DEF WritePacked
  <2>2. WritePacked(data, i, b, value) = [first EXCEPT ![w + 1] = Above(@, c) + (v \div TwoTo[d])]
    BY <1>4, <1>5, <1>6, <2>1
  <2> QED BY <1>7, <1>9, <2>2
<1>12. WritePacked(data, i, b, value) = [first EXCEPT ![w + 1] = Inserted(y, 0, c, u)]
  BY <1>8, <1>11
<1> QED BY <1>2, <1>3, <1>4, <1>5, <1>7, <1>12

(* Two words that differ at most from bit lo to bit hi.                    *)
Alike(x, y, lo, hi) == x % TwoTo[lo] = y % TwoTo[lo] /\ x \div TwoTo[hi] = y \div TwoTo[hi]

LEMMA AlikeFields ==
    ASSUME NEW x \in Nat, NEW y \in Nat, NEW lo \in Nat, NEW hi \in Nat, Alike(x, y, lo, hi),
           NEW p \in Nat, NEW c \in Nat, p + c <= lo \/ hi <= p
    PROVE  BitsAt(x, p, c) = BitsAt(y, p, c)
  BY FieldBelow, FieldAbove DEF Alike

LEMMA InsertedWord ==
    ASSUME NEW x \in Nat, NEW o \in Nat, NEW c \in Nat, NEW v \in Nat, v < TwoTo[c], o + c <= WordBits,
           x < TwoTo[WordBits], NEW y, y = Inserted(x, o, c, v)
    PROVE  y \in Nat /\ y \in Words /\ BitsAt(y, o, c) = v /\ Alike(y, x, o, o + c)
<1>1. WordBits \in Nat
  BY PaletteAssumption
<1>2. y \in Nat /\ BitsAt(y, o, c) = v /\ Alike(y, x, o, o + c)
  BY Insertion DEF Alike
<1>3. y < TwoTo[WordBits]
  BY <1>1, <1>2, InsertionFits DEF Alike
<1>4. TwoTo[WordBits] \in Nat
  BY <1>1, Larger
<1> QED BY <1>2, <1>3, <1>4 DEF Words
(* A write to entry i: its word, or its two words, hold the new value, and *)
(* keep their bits around it.                                              *)
Wrote(new, data, i, b, v) ==
    LET o == Offset(i, b)
        w == Word(i, b)
        d == WordBits - o
    IN  /\ new \in Arrays(b) /\ Fields(new, i, b) = v
        /\ \A u \in 1..Slots(b) : u # w /\ ~(Crossing(i, b) > 0 /\ u = w + 1) => new[u] = data[u]
        /\ Alike(new[w], data[w], o, IF Crossing(i, b) > 0 THEN WordBits ELSE o + b)
        /\ Crossing(i, b) > 0 => Alike(new[w + 1], data[w + 1], 0, Crossing(i, b))

LEMMA WritesOne ==
    ASSUME NEW b \in 1..WordBits, NEW data \in Arrays(b), NEW i \in Index, NEW value \in Nat
    PROVE  Wrote(WritePacked(data, i, b, value), data, i, b, value % TwoTo[b])
<1>1. WordBits \in Nat /\ b \in Nat
  BY PaletteAssumption
<1>2. PICK v \in Nat : v = value % TwoTo[b] /\ v < TwoTo[b]
  <2>1. PICK B \in Nat \ {0} : B = TwoTo[b]
    BY <1>1, Larger
  <2>2. Divided(value, B)
    BY Division
  <2> QED BY <2>1, <2>2 DEF Divided
<1>3. PICK w, o \in Nat : w = Word(i, b) /\ o = Offset(i, b) /\ o < WordBits /\ w \in 1..Slots(b)
        /\ Crossing(i, b) = o + b - WordBits /\ DOMAIN NewPacked(b) = 1..Slots(b)
  <2>1. Located(i, b) /\ DOMAIN NewPacked(b) = 1..Slots(b)
    BY Location
  <2> QED BY <1>1, <2>1 DEF Located
<1>4. data \in [1..Slots(b) -> Words]
  BY <1>3 DEF Arrays
<1>5. PICK x \in Nat : x = data[w] /\ x < TwoTo[WordBits]
  BY <1>3, WordTypes
<1>6. PICK new : new = WritePacked(data, i, b, value)
  OBVIOUS
<1>7. CASE ~(Crossing(i, b) > 0)
  <2>1. PICK y : y = Inserted(x, o, b, v)
    OBVIOUS
  <2>2. new = [data EXCEPT ![w] = y]
    BY <1>2, <1>3, <1>5, <1>6, <1>7, <2>1, WriteInOne
  <2>3. o + b <= WordBits
    BY <1>1, <1>3, <1>7
  <2>4. y \in Words /\ BitsAt(y, o, b) = v /\ Alike(y, x, o, o + b)
    BY <1>1, <1>2, <1>5, <2>1, <2>3, InsertedWord
  <2>5. new \in [1..Slots(b) -> Words] /\ new[w] = y /\ \A u \in 1..Slots(b) : u # w => new[u] = data[u]
    BY <1>3, <1>4, <2>2, <2>4
  <2>6. Fields(new, i, b) = v
    BY <1>3, <1>7, <2>4, <2>5 DEF Fields
  <2>7. new \in Arrays(b)
    BY <1>3, <2>5 DEF Arrays
  <2> QED BY <1>2, <1>3, <1>5, <1>6, <1>7, <2>4, <2>5, <2>6, <2>7 DEF Wrote
<1>8. CASE Crossing(i, b) > 0
  <2>1. PICK c \in Nat : c = Crossing(i, b) /\ c > 0 /\ c <= WordBits /\ 0 + c <= WordBits
    BY <1>1, <1>3, <1>8
  <2>2. w + 1 \in 1..Slots(b)
    BY <1>3, <1>8, Location DEF Located
  <2>3. PICK z \in Nat : z = data[w + 1] /\ z < TwoTo[WordBits]
    BY <1>3, <1>8, WordTypes
  <2>4. PICK d \in Nat : d = WordBits - o /\ b = d + c /\ o + d = WordBits
    <3>1. WordBits - o \in Nat /\ b = (WordBits - o) + c /\ o + (WordBits - o) = WordBits
      BY <1>1, <1>3, <2>1
    <3> QED BY <3>1
  <2>5. PICK B, C, D \in Nat \ {0} : B = TwoTo[b] /\ C = TwoTo[c] /\ D = TwoTo[d]
    BY <1>1, Larger
  <2>6. B = D * C
    BY <2>4, <2>5, TwoToSum
  <2>7. Divided(v, D)
    BY Division
  <2>8. PICK q, r \in Nat : q = v \div D /\ r = v % D /\ v = D * q + r /\ r < D
    BY <2>7 DEF Divided
  <2>9. q < C
    <3>1. v < D * C
      BY <1>2, <2>5, <2>6
    <3> QED BY <2>8, <3>1, SmallQuotient
  <2>10. PICK y, t : y = Inserted(x, o, d, r) /\ t = Inserted(z, 0, c, q)
    OBVIOUS
  <2>11. new = [[data EXCEPT ![w] = y] EXCEPT ![w + 1] = t]
    <3>1. PICK e : e = WordBits - Offset(i, b)
      OBVIOUS
    <3>2. WritePacked(data, i, b, value)
          = [[data EXCEPT ![Word(i, b)] = Inserted(data[Word(i, b)], Offset(i, b), e, v % TwoTo[e])]
             EXCEPT ![Word(i, b) + 1] = Inserted(data[Word(i, b) + 1], 0, Crossing(i, b), v \div TwoTo[e])]
      BY <1>2, <1>8, <3>1, WriteInTwo
    <3>3. e = d
      BY <1>3, <2>4, <3>1
    <3> QED BY <1>3, <1>5, <1>6, <2>1, <2>3, <2>5, <2>8, <2>10, <3>2, <3>3
  <2>12. y \in Words /\ BitsAt(y, o, d) = r /\ Alike(y, x, o, o + d)
    <3>1. o + d <= WordBits
      BY <1>1, <2>4
    <3>2. r < TwoTo[d]
      BY <2>5, <2>8
    <3> QED BY <1>5, <2>10, <3>1, <3>2, InsertedWord
  <2>13. t \in Words /\ BitsAt(t, 0, c) = q /\ Alike(t, z, 0, 0 + c)
    <3>1. q < TwoTo[c] /\ 0 + c <= WordBits /\ 0 \in Nat
      BY <2>1, <2>5, <2>9
    <3> QED BY <2>3, <2>10, <3>1, InsertedWord
  <2>14. /\ new \in [1..Slots(b) -> Words] /\ new[w] = y /\ new[w + 1] = t
         /\ \A u \in 1..Slots(b) : u # w /\ u # w + 1 => new[u] = data[u]
    <3>1. PICK first : first = [data EXCEPT ![w] = y]
      OBVIOUS
    <3>2. first \in [1..Slots(b) -> Words] /\ first[w] = y /\ \A u \in 1..Slots(b) : u # w => first[u] = data[u]
      BY <1>3, <1>4, <2>12, <3>1
    <3>3. new = [first EXCEPT ![w + 1] = t] /\ w # w + 1
      BY <1>3, <2>11, <3>1
    <3>4. new \in [1..Slots(b) -> Words]
      BY <2>2, <2>13, <3>2, <3>3
    <3>5. new[w + 1] = t /\ \A u \in 1..Slots(b) : u # w + 1 => new[u] = first[u]
      BY <2>2, <3>2, <3>3
    <3> QED BY <1>3, <3>2, <3>3, <3>4, <3>5
  <2>15. Fields(new, i, b) = v
    <3>1. Fields(new, i, b) = r + q * D
      BY <1>3, <1>8, <2>1, <2>4, <2>5, <2>12, <2>13, <2>14 DEF Fields
    <3>2. q * D = D * q /\ D * q \in Nat
      OBVIOUS
    <3> QED BY <2>8, <3>1, <3>2
  <2>16. new \in Arrays(b)
    BY <1>3, <2>14 DEF Arrays
  <2>17. 0 + c = c
    OBVIOUS
  <2> QED BY <1>2, <1>3, <1>5, <1>6, <1>8, <2>1, <2>3, <2>4, <2>12, <2>13, <2>14, <2>15, <2>16, <2>17 DEF Wrote
<1> QED BY <1>7, <1>8

(* No other entry changes.                                                 *)
LEMMA LowSame ==
    ASSUME NEW b \in 1..WordBits, NEW data \in Arrays(b), NEW i \in Index, NEW j \in Index, i # j,
           NEW new, NEW v, Wrote(new, data, i, b, v),
           NEW c \in Nat, c = IF Crossing(j, b) > 0 THEN WordBits - Offset(j, b) ELSE b
    PROVE  BitsAt(new[Word(j, b)], Offset(j, b), c) = BitsAt(data[Word(j, b)], Offset(j, b), c)
<1>1. WordBits \in Nat /\ b \in Nat \ {0} /\ i \in Nat /\ j \in Nat
  BY PaletteAssumption DEF Index
<1>2. PICK w, o \in Nat : w = Word(i, b) /\ o = Offset(i, b) /\ o < WordBits /\ w \in 1..Slots(b)
        /\ Crossing(i, b) = o + b - WordBits /\ (Crossing(i, b) > 0 => w + 1 \in 1..Slots(b))
  <2>1. Located(i, b)
    BY Location
  <2> QED BY <1>1, <2>1 DEF Located
<1>3. PICK u, p \in Nat : u = Word(j, b) /\ p = Offset(j, b) /\ p < WordBits /\ u \in 1..Slots(b)
        /\ Crossing(j, b) = p + b - WordBits
  <2>1. Located(j, b)
    BY Location
  <2> QED BY <1>1, <2>1 DEF Located
<1>4. new \in Arrays(b)
  BY DEF Wrote
<1>5. new[u] \in Nat /\ data[u] \in Nat
  BY <1>3, <1>4, WordTypes
<1>6. CASE i < j
  <2>1. w <= u /\ (w = u => o + b <= p) /\ (w + 1 = u => Crossing(i, b) <= p)
    BY <1>2, <1>3, <1>6, DigitsApart
  <2>2. CASE u = w
    <3>1. ~(Crossing(i, b) > 0) /\ o + b <= p
      BY <1>1, <1>2, <1>3, <2>1, <2>2
    <3>2. Alike(new[u], data[u], o, o + b)
      BY <1>2, <2>2, <3>1 DEF Wrote
    <3>3. o + b \in Nat
      BY <1>1
    <3> QED BY <1>3, <1>5, <3>1, <3>2, <3>3, AlikeFields
  <2>3. CASE u = w + 1 /\ Crossing(i, b) > 0
    <3>1. PICK d \in Nat : d = Crossing(i, b) /\ d <= p
      BY <1>1, <1>2, <2>1, <2>3
    <3>2. Alike(new[u], data[u], 0, d)
      BY <1>2, <2>3, <3>1 DEF Wrote
    <3> QED BY <1>3, <1>5, <3>1, <3>2, AlikeFields
  <2>4. CASE u # w /\ ~(u = w + 1 /\ Crossing(i, b) > 0)
    <3>1. new[u] = data[u]
      BY <1>2, <1>3, <2>4 DEF Wrote
    <3> QED BY <1>3, <3>1
  <2> QED BY <2>2, <2>3, <2>4
<1>7. CASE j < i
  <2>1. u <= w /\ (u = w => p + b <= o)
    BY <1>2, <1>3, <1>7, DigitsApart
  <2>2. CASE u = w
    <3>1. p + c <= o
      <4>1. ~(Crossing(j, b) > 0)
        BY <1>1, <1>2, <1>3, <2>1, <2>2
      <4> QED BY <2>1, <2>2, <4>1
    <3>2. PICK hi \in Nat : Alike(new[u], data[u], o, hi)
      <4>1. o + b \in Nat
        BY <1>1
      <4> QED BY <1>1, <1>2, <2>2, <4>1 DEF Wrote
    <3>3. BitsAt(new[u], p, c) = BitsAt(data[u], p, c)
      BY <1>5, <3>1, <3>2, AlikeFields
    <3> QED BY <1>3, <3>3
  <2>3. CASE u # w
    <3>1. u # w + 1
      BY <2>1, <2>3
    <3>2. new[u] = data[u]
      BY <1>2, <1>3, <2>3, <3>1 DEF Wrote
    <3> QED BY <1>3, <3>2
  <2> QED BY <2>2, <2>3
<1> QED BY <1>1, <1>6, <1>7

LEMMA HighSame ==
    ASSUME NEW b \in 1..WordBits, NEW data \in Arrays(b), NEW i \in Index, NEW j \in Index, i # j,
           NEW new, NEW v, Wrote(new, data, i, b, v), Crossing(j, b) > 0
    PROVE  BitsAt(new[Word(j, b) + 1], 0, Crossing(j, b)) = BitsAt(data[Word(j, b) + 1], 0, Crossing(j, b))
<1>1. WordBits \in Nat /\ b \in Nat \ {0} /\ i \in Nat /\ j \in Nat
  BY PaletteAssumption DEF Index
<1>2. PICK w, o \in Nat : w = Word(i, b) /\ o = Offset(i, b) /\ o < WordBits /\ w \in 1..Slots(b)
        /\ Crossing(i, b) = o + b - WordBits
  <2>1. Located(i, b)
    BY Location
  <2> QED BY <1>1, <2>1 DEF Located
<1>3. PICK u, p, c \in Nat : u = Word(j, b) /\ p = Offset(j, b) /\ p < WordBits /\ u + 1 \in 1..Slots(b)
        /\ c = Crossing(j, b) /\ c = p + b - WordBits /\ c > 0
  <2>1. Located(j, b)
    BY Location
  <2>2. PICK u, p \in Nat : u = Word(j, b) /\ p = Offset(j, b) /\ p < WordBits /\ Crossing(j, b) = p + b - WordBits
    BY <1>1, <2>1 DEF Located
  <2>3. p + b - WordBits \in Nat
    BY <1>1, <2>2
  <2> QED BY <2>1, <2>2, <2>3 DEF Located
<1>4. new \in Arrays(b)
  BY DEF Wrote
<1>5. new[u + 1] \in Nat /\ data[u + 1] \in Nat
  BY <1>3, <1>4, WordTypes
<1>6. i < j \/ j < i
  BY <1>1
<1>7. i < j => w <= u /\ (w = u => o + b <= p)
  BY <1>2, <1>3, DigitsApart
<1>8. j < i => u <= w /\ (u = w => p + b <= o) /\ (u + 1 = w => c <= o)
  BY <1>2, <1>3, DigitsApart
<1>9. CASE u + 1 = w
  <2>1. c <= o
    BY <1>6, <1>7, <1>8, <1>9
  <2>2. PICK hi \in Nat : Alike(new[u + 1], data[u + 1], o, hi)
    <3>1. o + b \in Nat
      BY <1>1
    <3> QED BY <1>1, <1>2, <1>9, <3>1 DEF Wrote
  <2>3. 0 + c <= o
    BY <2>1
  <2>4. BitsAt(new[u + 1], 0, c) = BitsAt(data[u + 1], 0, c)
    BY <1>5, <2>2, <2>3, AlikeFields
  <2> QED BY <1>3, <2>4
<1>10. CASE u + 1 # w
  <2>1. ~(Crossing(i, b) > 0 /\ u + 1 = w + 1)
    <3> SUFFICES ASSUME Crossing(i, b) > 0, u + 1 = w + 1 PROVE FALSE
      OBVIOUS
    <3>1. u = w
      BY <1>2, <1>3
    <3> QED BY <1>1, <1>2, <1>3, <1>6, <1>7, <1>8, <3>1
  <2>2. new[u + 1] = data[u + 1]
    BY <1>2, <1>3, <1>10, <2>1 DEF Wrote
  <2> QED BY <1>3, <2>2
<1> QED BY <1>9, <1>10

(* What is written is read again, and every other entry is as it was.      *)
LEMMA ReadWritten ==
    ASSUME NEW b \in 1..WordBits, NEW data \in Arrays(b), NEW i \in Index, NEW value \in Nat,
           NEW new, new = WritePacked(data, i, b, value)
    PROVE  /\ new \in Arrays(b)
           /\ \A j \in Index : ReadPacked(new, j, b) = IF j = i THEN value % TwoTo[b] ELSE ReadPacked(data, j, b)
<1>1. WordBits \in Nat /\ b \in Nat
  BY PaletteAssumption
<1>2. Wrote(new, data, i, b, value % TwoTo[b])
  BY WritesOne
<1>3. new \in Arrays(b) /\ Fields(new, i, b) = value % TwoTo[b]
  BY <1>2 DEF Wrote
<1>4. \A j \in Index : ReadPacked(new, j, b) = Fields(new, j, b) /\ ReadPacked(data, j, b) = Fields(data, j, b)
  BY <1>3, ReadFields
<1>5. ASSUME NEW j \in Index, j # i PROVE Fields(new, j, b) = Fields(data, j, b)
  <2>1. CASE Crossing(j, b) > 0
    <3>1. PICK c \in Nat : c = WordBits - Offset(j, b)
      <4>1. Located(j, b)
        BY Location
      <4> QED BY <1>1, <4>1 DEF Located
    <3>2. BitsAt(new[Word(j, b)], Offset(j, b), c) = BitsAt(data[Word(j, b)], Offset(j, b), c)
      BY <1>2, <1>5, <2>1, <3>1, LowSame
    <3>3. BitsAt(new[Word(j, b) + 1], 0, Crossing(j, b)) = BitsAt(data[Word(j, b) + 1], 0, Crossing(j, b))
      BY <1>2, <1>5, <2>1, HighSame
    <3> QED BY <2>1, <3>1, <3>2, <3>3 DEF Fields
  <2>2. CASE ~(Crossing(j, b) > 0)
    <3>1. BitsAt(new[Word(j, b)], Offset(j, b), b) = BitsAt(data[Word(j, b)], Offset(j, b), b)
      BY <1>1, <1>2, <1>5, <2>2, LowSame
    <3> QED BY <2>2, <3>1 DEF Fields
  <2> QED BY <2>1, <2>2
<1> QED BY <1>3, <1>4, <1>5
-----------------------------------------------------------------------------
(* Arrays that are packed anew                                             *)

LEMMA Blank ==
    ASSUME NEW b \in 1..WordBits
    PROVE  NewPacked(b) \in Arrays(b) /\ \A j \in Index : ReadPacked(NewPacked(b), j, b) = 0
<1>1. WordBits \in Nat /\ b \in Nat
  BY PaletteAssumption
<1>2. DOMAIN NewPacked(b) = 1..Slots(b)
  BY DEF NewPacked, Slots
<1>3. NewPacked(b) = [w \in 1..Slots(b) |-> 0]
  BY DEF NewPacked, Slots
<1>4. 0 \in Words
  BY <1>1, Larger DEF Words
<1>5. NewPacked(b) \in Arrays(b)
  BY <1>2, <1>3, <1>4 DEF Arrays
<1>6. \A m \in Nat \ {0} : 0 \div m = 0 /\ 0 % m = 0
  OBVIOUS
<1>7. ASSUME NEW j \in Index PROVE ReadPacked(NewPacked(b), j, b) = 0
  <2>1. PICK w, o \in Nat : w = Word(j, b) /\ o = Offset(j, b) /\ w \in 1..Slots(b)
          /\ Crossing(j, b) = o + b - WordBits /\ (Crossing(j, b) > 0 => w + 1 \in 1..Slots(b)) /\ o < WordBits
    <3>1. Located(j, b)
      BY Location
    <3> QED BY <1>1, <3>1 DEF Located
  <2>2. PICK A, B \in Nat \ {0} : A = TwoTo[o] /\ B = TwoTo[b]
    BY <1>1, Larger
  <2>3. NewPacked(b)[w] \div A = 0 /\ 0 % B = 0
    BY <1>3, <1>6, <2>1
  <2>4. CASE ~(Crossing(j, b) > 0)
    BY <2>1, <2>2, <2>3, <2>4 DEF ReadPacked
  <2>5. CASE Crossing(j, b) > 0
    <3>1. PICK c, e \in Nat : c = Crossing(j, b) /\ e = b - c
      BY <1>1, <2>1, <2>5
    <3>2. PICK C, E \in Nat \ {0} : C = TwoTo[c] /\ E = TwoTo[e]
      BY Larger
    <3>3. NewPacked(b)[w + 1] % C = 0
      BY <1>3, <1>6, <2>1, <2>5
    <3>4. 0 + 0 * E = 0
      OBVIOUS
    <3> QED BY <2>1, <2>2, <2>3, <2>5, <3>1, <3>2, <3>3, <3>4 DEF ReadPacked
  <2> QED BY <2>4, <2>5
<1> QED BY <1>5, <1>7

(* Entry after entry is written; at the end all are there.                 *)
LEMMA PackedReads ==
    ASSUME NEW b \in 1..WordBits, NEW f \in [Index -> Nat]
    PROVE  /\ Packed(f, b) \in Arrays(b)
           /\ \A j \in Index : ReadPacked(Packed(f, b), j, b) = f[j] % TwoTo[b]
<1>1. PICK N \in Nat \ {0} : N = BlocksPerSection
  BY PaletteAssumption
<1>2. Index = 0..N - 1
  BY <1>1 DEF Index
<1>3. PICK V, base, S : V = Arrays(b) /\ base = NewPacked(b) /\ S = 0..N
  OBVIOUS
<1>4. PICK G : G = [k \in Nat |-> [d \in V |-> IF k - 1 \in Index THEN WritePacked(d, k - 1, b, f[k - 1]) ELSE d]]
  OBVIOUS
<1>5. \A i \in Index, d \in V : WritePacked(d, i, b, f[i]) \in V
  BY <1>3, ReadWritten
<1>6. G \in [Nat -> [V -> V]]
  BY <1>4, <1>5
<1>7. base \in V
  BY <1>3, Blank
<1>8. S \in SUBSET Nat /\ 0 \in S /\ \A i \in S \ {0} : i - 1 \in S
  BY <1>1, <1>3
<1>9. /\ \E g \in [S -> V] : Proceeds(g, G, base, S)
      /\ \A g : Heeds(g, G, base, S, V) => g \in [S -> V] /\ Proceeds(g, G, base, S)
  BY <1>6, <1>7, <1>8, Recursive
<1>10. \A i \in S \ {0} : i - 1 \in Index /\ i \in Nat
  BY <1>1, <1>2, <1>3
<1>11. \A i \in S \ {0}, d \in V : G[i][d] = WritePacked(d, i - 1, b, f[i - 1])
  BY <1>4, <1>10
<1> DEFINE Eq(g) == g = [n \in 0..BlocksPerSection |->
                           IF n = 0 THEN NewPacked(b) ELSE WritePacked(g[n - 1], n - 1, b, f[n - 1])]
<1>12. PICK data : data = CHOOSE g : Eq(g)
  OBVIOUS
<1>13. Packed(f, b) = data[N]
  BY <1>1, <1>12 DEF Packed
<1>14. Eq(data)
  <2>1. PICK g \in [S -> V] : Proceeds(g, G, base, S)
    BY <1>9
  <2>2. ASSUME NEW i \in S \ {0} PROVE g[i] = WritePacked(g[i - 1], i - 1, b, f[i - 1])
    BY <1>8, <1>11, <2>1 DEF Proceeds
  <2>3. g[0] = NewPacked(b)
    BY <1>3, <2>1 DEF Proceeds
  <2>4. Eq(g)
    BY <1>1, <1>3, <2>1, <2>2, <2>3
  <2> HIDE DEF Eq
  <2> QED BY <1>12, <2>4
<1>15. Heeds(data, G, base, S, V)
  <2>1. \A i \in S \ {0} : data[i] = WritePacked(data[i - 1], i - 1, b, f[i - 1])
    BY <1>1, <1>3, <1>14
  <2>2. data[0] = base
    BY <1>1, <1>3, <1>14
  <2>3. data = [i \in S |-> data[i]]
    BY <1>1, <1>3, <1>14
  <2> HIDE DEF Eq
  <2> QED BY <1>11, <2>1, <2>2, <2>3 DEF Heeds
<1>16. data \in [S -> V] /\ Proceeds(data, G, base, S)
  BY <1>9, <1>15
<1> HIDE DEF Eq
<1>17. \A i \in S \ {0} : data[i - 1] \in V /\ data[i] = WritePacked(data[i - 1], i - 1, b, f[i - 1])
  BY <1>8, <1>11, <1>16 DEF Proceeds
<1> DEFINE Bad == {n \in S : \E j \in Index : j < n /\ ReadPacked(data[n], j, b) # f[j] % TwoTo[b]}
<1>18. ASSUME NEW n \in Bad PROVE \E m \in Bad : m < n
  <2>1. PICK j \in Index : j < n /\ ReadPacked(data[n], j, b) # f[j] % TwoTo[b]
    OBVIOUS
  <2>2. n \in S \ {0} /\ n \in Nat /\ j \in Nat
    BY <1>2, <1>3, <2>1
  <2>3. n - 1 \in Index /\ n - 1 \in S /\ n - 1 < n
    BY <1>8, <1>10, <2>2
  <2>4. ReadPacked(data[n], j, b) = IF j = n - 1 THEN f[n - 1] % TwoTo[b] ELSE ReadPacked(data[n - 1], j, b)
    BY <1>3, <1>17, <2>2, <2>3, ReadWritten
  <2>5. j # n - 1 /\ j < n - 1
    BY <2>1, <2>2, <2>4
  <2>6. n - 1 \in Bad
    BY <2>1, <2>3, <2>4, <2>5
  <2> QED BY <2>3, <2>6
<1>19. Bad = {}
  <2>1. Bad \in SUBSET Nat
    BY <1>8
  <2> HIDE DEF Bad
  <2> QED BY <1>18, <2>1, NoneBad
<1>20. N \in S /\ \A j \in Index : j < N
  BY <1>1, <1>2, <1>3
<1> QED BY <1>3, <1>13, <1>16, <1>19, <1>20

(* The width for so many entries.                                          *)
LEMMA Wider ==
    ASSUME NEW m \in Nat, NEW n \in Nat, m <= n
    PROVE  TwoTo[m] <= TwoTo[n]
<1>1. PICK d \in Nat : n = m + d
  <2>1. n - m \in Nat /\ n = m + (n - m)
    OBVIOUS
  <2> QED BY <2>1
<1>2. PICK M, D \in Nat \ {0} : M = TwoTo[m] /\ D = TwoTo[d]
  BY Larger
<1>3. TwoTo[n] = M * D
  BY <1>1, <1>2, TwoToSum
<1>4. PICK e \in Nat : D = e + 1
  <2>1. D - 1 \in Nat /\ D = (D - 1) + 1
    OBVIOUS
  <2> QED BY <2>1
<1>5. M * (e + 1) = M * e + M /\ M * e \in Nat
  OBVIOUS
<1> QED BY <1>2, <1>3, <1>4, <1>5

LEMMA BitsEnough ==
    ASSUME NEW n \in Nat, n > 1
    PROVE  BitsFor(n) \in Nat \ {0} /\ TwoTo[BitsFor(n)] >= n
<1> DEFINE Enough == {b \in 0..n : TwoTo[b] >= n}
<1>1. n \in Enough
  BY Larger
<1>2. PICK b \in Enough : \A c \in Enough : ~(c < b)
  <2>1. Enough \in SUBSET Nat
    OBVIOUS
  <2> HIDE DEF Enough
  <2> QED BY <1>1, <2>1, NoneBad
<1>3. ASSUME NEW c \in 0..(b - 1) PROVE TwoTo[c] < n
  <2>1. c \in 0..n /\ c < b /\ c \in Nat
    BY <1>2
  <2>2. ~(TwoTo[c] >= n)
    BY <1>2, <2>1
  <2> QED BY <2>1, <2>2, Larger
<1>4. \E c \in 0..n : TwoTo[c] >= n /\ \A d \in 0..(c - 1) : TwoTo[d] < n
  BY <1>2, <1>3
<1>5. BitsFor(n) \in 0..n /\ TwoTo[BitsFor(n)] >= n
  BY <1>4 DEF BitsFor
<1>6. BitsFor(n) # 0
  BY <1>5, TwoTos
<1> QED BY <1>5, <1>6
-----------------------------------------------------------------------------
(* Containers                                                              *)

KnownIds == {b.id : b \in States}
Bare(b) == [b EXCEPT !.props = 0]

SoundIndirect(palette, data, bits) ==
    /\ palette \in Seq(States) /\ bits \in 1..GlobalBits /\ data \in Arrays(bits)
    /\ Len(palette) > 1 /\ Len(palette) <= TwoTo[bits]
    /\ \A j \in Index : ReadPacked(data, j, bits) \in 0..Len(palette) - 1

SoundDirect(data) ==
    data \in Arrays(GlobalBits) /\ \A j \in Index : ReadPacked(data, j, GlobalBits) \in KnownIds

(* What a section holds: each index is in the palette, each id is known.   *)
Sound(c) ==
    \/ \E b \in States : c = Single(b)
    \/ \E palette, data, bits : c = Indirect(palette, data, bits) /\ SoundIndirect(palette, data, bits)
    \/ \E data : c = Direct(data) /\ SoundDirect(data)

LEMMA StateTypes ==
    /\ BlocksPerSection \in Nat \ {0} /\ GlobalBits \in Nat \ {0} /\ WordBits \in Nat \ {0}
    /\ 1..GlobalBits \subseteq 1..WordBits /\ 1 \in 1..GlobalBits
    /\ Air \in States /\ States \subseteq [id: Nat, props: Nat]
    /\ \A b \in States : b.id \in Nat /\ b.id < TwoTo[GlobalBits] /\ Bare(b) = New(b.id)
<1>1. BlocksPerSection \in Nat \ {0} /\ GlobalBits \in Nat \ {0} /\ WordBits \in Nat \ {0} /\ GlobalBits <= WordBits
  BY PaletteAssumption
<1>2. PICK G \in Nat : G = TwoTo[GlobalBits]
  BY <1>1, Larger
<1>3. States \subseteq [id: 0..G - 1, props: Nat] /\ Air \in States
  BY <1>2, PaletteAssumption
<1>4. \A n \in 0..G - 1 : n \in Nat /\ n < G
  BY <1>2
<1>5. \A b \in States : b \in [id: Nat, props: Nat] /\ b.id < G
  BY <1>3, <1>4
<1>6. \A b \in States : Bare(b) = New(b.id)
  BY <1>5 DEF Bare, New
<1> QED BY <1>1, <1>2, <1>3, <1>5, <1>6

LEMMA SomeIndex ==
    0 \in Index
  BY PaletteAssumption DEF Index

LEMMA IndirectTypes ==
    ASSUME NEW palette, NEW data, NEW bits, SoundIndirect(palette, data, bits)
    PROVE  /\ palette \in Seq(States) /\ Len(palette) \in Nat /\ Len(palette) <= TwoTo[bits]
           /\ data \in Arrays(bits) /\ bits \in 1..GlobalBits /\ bits \in 1..WordBits /\ bits \in Nat
<1>1. /\ palette \in Seq(States) /\ Len(palette) <= TwoTo[bits]
      /\ data \in Arrays(bits) /\ bits \in 1..GlobalBits
  BY DEF SoundIndirect
<1>2. Len(palette) \in Nat
  BY <1>1
<1>3. bits \in 1..WordBits /\ bits \in Nat
  <2>1. bits \in 1..GlobalBits
    BY <1>1
  <2>2. bits \in 1..WordBits
    BY <2>1, StateTypes
  <2> QED BY <2>2
<1> QED BY <1>1, <1>2, <1>3

LEMMA IndirectGet ==
    ASSUME NEW palette, NEW data, NEW bits, SoundIndirect(palette, data, bits), NEW j \in Index
    PROVE  /\ Get(Indirect(palette, data, bits), j) = palette[ReadPacked(data, j, bits) + 1]
           /\ ReadPacked(data, j, bits) + 1 \in DOMAIN palette
<1>1. PICK k \in Nat : k = ReadPacked(data, j, bits) /\ k < Len(palette)
  BY DEF SoundIndirect
<1>2. bits # 0 /\ palette \in Seq(States)
  BY DEF SoundIndirect
<1>3. k + 1 \in DOMAIN palette
  BY <1>1, <1>2
<1>4. Entry(Indirect(palette, data, bits), j) = k
  BY <1>1 DEF Entry, Indirect
<1>5. Get(Indirect(palette, data, bits), j) = palette[k + 1]
  BY <1>1, <1>2, <1>4 DEF Get, Indirect
<1> QED BY <1>1, <1>3, <1>5

LEMMA OtherGets ==
    /\ \A b, j : Get(Single(b), j) = b
    /\ \A data, j : Get(Direct(data), j) = New(ReadPacked(data, j, GlobalBits))
  BY DEF Get, Single, Direct, Entry

LEMMA GetTypes ==
    ASSUME NEW c, Sound(c), NEW j \in Index
    PROVE  /\ Get(c, j).id \in KnownIds
           /\ (~ \E data : c = Direct(data)) => Get(c, j) \in States
           /\ (\E data : c = Direct(data)) => Bare(Get(c, j)) = Get(c, j)
<1>1. CASE \E b \in States : c = Single(b)
  <2>1. PICK b \in States : c = Single(b)
    BY <1>1
  <2>2. Get(c, j) = b
    BY <2>1, OtherGets
  <2>3. ~ \E d : c = Direct(d)
    BY <2>1 DEF Single, Direct
  <2> QED BY <2>2, <2>3 DEF KnownIds
<1>2. ASSUME NEW palette, NEW data, NEW bits, c = Indirect(palette, data, bits), SoundIndirect(palette, data, bits)
      PROVE  Get(c, j) \in States /\ ~ \E d : c = Direct(d)
  <2>1. palette \in Seq(States)
    BY <1>2 DEF SoundIndirect
  <2>2. PICK k \in DOMAIN palette : Get(c, j) = palette[k]
    BY <1>2, IndirectGet
  <2>3. palette[k] \in States
    BY <2>1
  <2>4. ~ \E d : c = Direct(d)
    BY <1>2 DEF Indirect, Direct
  <2> QED BY <2>2, <2>3, <2>4
<1>3. CASE \E data : c = Direct(data) /\ SoundDirect(data)
  <2>1. PICK data : c = Direct(data) /\ SoundDirect(data)
    BY <1>3
  <2>2. PICK n \in KnownIds : n = ReadPacked(data, j, GlobalBits)
    BY <2>1 DEF SoundDirect
  <2>3. Get(c, j) = New(n)
    BY <2>1, <2>2, OtherGets
  <2>4. New(n).id = n /\ Bare(New(n)) = New(n)
    BY DEF New, Bare
  <2> QED BY <2>1, <2>2, <2>3, <2>4
<1>4. CASE \E palette, data, bits : c = Indirect(palette, data, bits) /\ SoundIndirect(palette, data, bits)
  BY <1>2, <1>4 DEF KnownIds
<1> QED BY <1>1, <1>3, <1>4 DEF Sound
-----------------------------------------------------------------------------
(* Setting a block                                                         *)

(* The block is there and the others are as they were; or the section goes *)
(* over to ids, or has before, and all blocks are bare.                    *)
IsPut(c, i, b, d) == \A j \in Index : Get(d, j) = IF j = i THEN b ELSE Get(c, j)
IsForget(c, i, b, d) == \A j \in Index : Get(d, j) = IF j = i THEN Bare(b) ELSE Bare(Get(c, j))
IsSet(c, i, b, d) == Sound(d) /\ (IsPut(c, i, b, d) \/ IsForget(c, i, b, d))

LEMMA SetSingles ==
    ASSUME NEW a \in States, NEW c, c = Single(a), NEW i \in Index, NEW b \in States
    PROVE  IsSet(c, i, b, SetSingle(c, i, b))
<1>1. \A j : Get(c, j) = a
  BY OtherGets
<1>2. c.palette = <<a>>
  BY DEF Single
<1>3. CASE a = b
  <2>1. SetSingle(c, i, b) = c
    BY <1>2, <1>3 DEF SetSingle
  <2> QED BY <1>1, <1>3, <2>1 DEF IsSet, IsPut, Sound
<1>4. CASE a # b
  <2>1. PICK new : new = WritePacked(NewPacked(1), i, 1, 1)
    OBVIOUS
  <2>2. PICK palette : palette = <<a>> \o <<b>>
    OBVIOUS
  <2>3. SetSingle(c, i, b) = Indirect(palette, new, 1)
    BY <1>2, <1>4, <2>1, <2>2 DEF SetSingle
  <2>4. TwoTo[1] = 2 /\ 1 % 2 = 1
    BY TwoTos
  <2>5. 1 \in 1..WordBits /\ 1 \in Nat
    BY StateTypes
  <2>6. new \in Arrays(1) /\ \A j \in Index : ReadPacked(new, j, 1) = IF j = i THEN 1 ELSE 0
    BY <2>1, <2>4, <2>5, Blank, ReadWritten
  <2>7. palette \in Seq(States) /\ Len(palette) = 2 /\ palette[1] = a /\ palette[2] = b
    <3>1. <<a>> \in Seq(States) /\ <<b>> \in Seq(States) /\ Len(<<a>>) = 1 /\ Len(<<b>>) = 1
      OBVIOUS
    <3>2. palette \in Seq(States) /\ Len(palette) = 2
      BY <2>2, <3>1
    <3>3. palette[1] = a /\ palette[2] = b
      BY <2>2, <3>1
    <3> QED BY <3>2, <3>3
  <2>8. SoundIndirect(palette, new, 1)
    BY <2>4, <2>6, <2>7, StateTypes DEF SoundIndirect
  <2>9. \A j \in Index : Get(Indirect(palette, new, 1), j) = palette[ReadPacked(new, j, 1) + 1]
    BY <2>8, IndirectGet
  <2>10. IsPut(c, i, b, Indirect(palette, new, 1))
    BY <1>1, <2>6, <2>7, <2>9 DEF IsPut
  <2> QED BY <2>3, <2>8, <2>10 DEF IsSet, Sound
<1> QED BY <1>3, <1>4

LEMMA SetDirects ==
    ASSUME NEW data, SoundDirect(data), NEW c, c = Direct(data), NEW i \in Index, NEW b \in States
    PROVE  /\ Sound(SetDirect(c, i, b))
           /\ \A j \in Index : Get(SetDirect(c, i, b), j) = IF j = i THEN Bare(b) ELSE Get(c, j)
<1>1. PICK new : new = WritePacked(data, i, GlobalBits, b.id)
  OBVIOUS
<1>2. SetDirect(c, i, b) = Direct(new)
  BY <1>1 DEF SetDirect, Direct
<1>3. PICK n \in Nat : n = b.id /\ n < TwoTo[GlobalBits] /\ Bare(b) = New(n) /\ n \in KnownIds
  BY StateTypes DEF KnownIds
<1>4. PICK m \in Nat : m = TwoTo[GlobalBits]
  BY StateTypes, Larger
<1>5. n % m = n
  BY <1>3, <1>4
<1>6. GlobalBits \in 1..WordBits /\ data \in Arrays(GlobalBits)
  BY StateTypes DEF SoundDirect
<1>7. /\ new \in Arrays(GlobalBits)
      /\ \A j \in Index : ReadPacked(new, j, GlobalBits) = IF j = i THEN n ELSE ReadPacked(data, j, GlobalBits)
  BY <1>1, <1>3, <1>4, <1>5, <1>6, ReadWritten
<1>8. SoundDirect(new)
  BY <1>3, <1>7 DEF SoundDirect
<1>9. \A j \in Index : Get(Direct(new), j) = IF j = i THEN Bare(b) ELSE Get(c, j)
  BY <1>3, <1>7, OtherGets
<1> QED BY <1>2, <1>8, <1>9 DEF Sound

LEMMA Upgrade ==
    ASSUME NEW c, Sound(c)
    PROVE  \E data : UpgradeToDirect(c) = Direct(data) /\ SoundDirect(data)
                     /\ \A j \in Index : Get(Direct(data), j) = New(Get(c, j).id)
<1>1. PICK f : f = [i \in Index |-> Get(c, i).id]
  OBVIOUS
<1>2. PICK data : data = Packed(f, GlobalBits)
  OBVIOUS
<1>3. UpgradeToDirect(c) = Direct(data)
  BY <1>1, <1>2 DEF UpgradeToDirect
<1>4. \A j \in Index : f[j] \in KnownIds
  BY <1>1, GetTypes
<1>5. PICK m \in Nat : m = TwoTo[GlobalBits]
  BY StateTypes, Larger
<1>6. \A n \in KnownIds : n \in Nat /\ n < m
  BY <1>5, StateTypes DEF KnownIds
<1>7. \A n \in KnownIds : n % m = n
  BY <1>5, <1>6
<1>8. f \in [Index -> Nat]
  BY <1>1, <1>4, <1>6
<1>9. GlobalBits \in 1..WordBits
  BY StateTypes
<1>10. data \in Arrays(GlobalBits) /\ \A j \in Index : ReadPacked(data, j, GlobalBits) = f[j]
  BY <1>2, <1>4, <1>5, <1>7, <1>8, <1>9, PackedReads
<1>11. SoundDirect(data)
  BY <1>4, <1>10 DEF SoundDirect
<1>12. \A j \in Index : Get(Direct(data), j) = New(Get(c, j).id)
  BY <1>1, <1>10, OtherGets
<1> QED BY <1>3, <1>11, <1>12

LEMMA BareGets ==
    ASSUME NEW c, Sound(c), NEW j \in Index
    PROVE  Bare(Get(c, j)) = New(Get(c, j).id)
<1>1. CASE \E data : c = Direct(data)
  <2>1. PICK data : c = Direct(data)
    BY <1>1
  <2>2. Get(c, j) = New(ReadPacked(data, j, GlobalBits))
    BY <2>1, OtherGets
  <2> QED BY <2>2 DEF New, Bare
<1>2. CASE ~ \E data : c = Direct(data)
  BY <1>2, GetTypes, StateTypes
<1> QED BY <1>1, <1>2

(* A palette with b at place k, and words that read k at i.                *)
LEMMA NowThere ==
    ASSUME NEW c, NEW old, NEW data, NEW was, SoundIndirect(old, data, was), c = Indirect(old, data, was),
           NEW i \in Index, NEW b \in States,
           NEW palette \in Seq(States), NEW new, NEW bits \in 1..GlobalBits, new \in Arrays(bits),
           Len(old) <= Len(palette), Len(palette) <= TwoTo[bits],
           \A k \in 1..Len(old) : palette[k] = old[k],
           NEW k \in 0..Len(palette) - 1, palette[k + 1] = b,
           \A j \in Index : ReadPacked(new, j, bits) = IF j = i THEN k ELSE ReadPacked(data, j, was)
    PROVE  IsSet(c, i, b, Indirect(palette, new, bits))
<1>1. old \in Seq(States) /\ Len(old) > 1 /\ Len(old) \in Nat /\ Len(palette) \in Nat
  BY DEF SoundIndirect
<1>2. ASSUME NEW j \in Index
      PROVE  /\ ReadPacked(data, j, was) \in 0..Len(palette) - 1
             /\ palette[ReadPacked(data, j, was) + 1] = Get(c, j)
  <2>1. PICK n \in Nat : n = ReadPacked(data, j, was) /\ n < Len(old)
    BY <1>1 DEF SoundIndirect
  <2>2. n + 1 \in 1..Len(old)
    BY <1>1, <2>1
  <2>3. Get(c, j) = old[n + 1]
    BY <2>1, IndirectGet
  <2> QED BY <1>1, <2>1, <2>2, <2>3
<1>3. \A j \in Index : ReadPacked(new, j, bits) \in 0..Len(palette) - 1
  BY <1>2
<1>4. SoundIndirect(palette, new, bits)
  BY <1>1, <1>3 DEF SoundIndirect
<1>5. ASSUME NEW j \in Index PROVE Get(Indirect(palette, new, bits), j) = IF j = i THEN b ELSE Get(c, j)
  <2>1. Get(Indirect(palette, new, bits), j) = palette[ReadPacked(new, j, bits) + 1]
    BY <1>4, IndirectGet
  <2> QED BY <1>2, <2>1
<1> QED BY <1>4, <1>5 DEF IsSet, IsPut, Sound

LEMMA SetKnown ==
    ASSUME NEW palette, NEW data, NEW bits, SoundIndirect(palette, data, bits),
           NEW c, c = Indirect(palette, data, bits), NEW i \in Index, NEW b \in States,
           \E k \in DOMAIN palette : palette[k] = b
    PROVE  IsSet(c, i, b, SetIndirect(c, i, b))
<1>1. c.palette = palette /\ c.data = data /\ c.bits = bits
  BY DEF Indirect
<1>2. PICK k \in DOMAIN palette : palette[k] = b /\ k = CHOOSE n \in DOMAIN palette : palette[n] = b
  OBVIOUS
<1>3. palette \in Seq(States) /\ Len(palette) \in Nat /\ Len(palette) <= TwoTo[bits]
      /\ data \in Arrays(bits) /\ bits \in 1..GlobalBits /\ bits \in 1..WordBits /\ bits \in Nat
  BY IndirectTypes
<1>4. PICK n \in Nat : n = k - 1 /\ n < Len(palette) /\ k = n + 1 /\ k \in 1..Len(palette)
  BY <1>3
<1>5. PICK new : new = WritePacked(data, i, bits, n)
  OBVIOUS
<1>6. SetIndirect(c, i, b) = Indirect(palette, new, bits)
  BY <1>1, <1>2, <1>4, <1>5 DEF SetIndirect, Indirect
<1>7. PICK m \in Nat : m = TwoTo[bits] /\ n < m
  BY <1>3, <1>4, Larger
<1>8. n % m = n
  BY <1>7
<1>9. new \in Arrays(bits) /\ \A j \in Index : ReadPacked(new, j, bits) = IF j = i THEN n ELSE ReadPacked(data, j, bits)
  <2>1. bits \in 1..WordBits /\ data \in Arrays(bits)
    BY <1>3
  <2>2. n % TwoTo[bits] = n
    BY <1>7, <1>8
  <2> QED BY <1>5, <2>1, <2>2, ReadWritten
<1>10. n \in 0..Len(palette) - 1 /\ palette[n + 1] = b /\ Len(palette) <= Len(palette)
  BY <1>2, <1>3, <1>4
<1> QED BY <1>3, <1>6, <1>9, <1>10, NowThere

LEMMA SetUnknown ==
    ASSUME NEW palette, NEW data, NEW bits, SoundIndirect(palette, data, bits),
           NEW c, c = Indirect(palette, data, bits), NEW i \in Index, NEW b \in States
    PROVE  IsSet(c, i, b, SetNew(c, i, b))
<1>1. c.palette = palette /\ c.data = data /\ c.bits = bits
  BY DEF Indirect
<1>2. PICK n \in Nat : n = Len(palette) /\ n > 1 /\ n <= TwoTo[bits]
  BY DEF SoundIndirect
<1>3. palette \in Seq(States) /\ data \in Arrays(bits) /\ bits \in 1..GlobalBits /\ bits \in 1..WordBits /\ bits \in Nat
  BY IndirectTypes
<1>4. PICK more : more = Append(palette, b)
  OBVIOUS
<1>5. more \in Seq(States) /\ Len(more) = n + 1 /\ more[n + 1] = b /\ \A k \in 1..n : more[k] = palette[k]
  BY <1>2, <1>3, <1>4
<1>6. PICK w \in Nat : w = BitsFor(n + 1) /\ w # 0 /\ TwoTo[w] >= n + 1
  BY <1>2, BitsEnough
<1>7. n \in 0..Len(more) - 1 /\ n <= Len(more)
  BY <1>2, <1>5
<1>8. \A j \in Index : ReadPacked(data, j, bits) \in Nat /\ ReadPacked(data, j, bits) < n
  BY <1>2 DEF SoundIndirect
<1>9. bits \in Int /\ GlobalBits \in Int /\ w \in Int
  BY <1>3, <1>6, StateTypes
<1>10. CASE w > bits /\ w > GlobalBits
  <2>1. Sound(c)
    BY DEF Sound
  <2>2. PICK words : UpgradeToDirect(c) = Direct(words) /\ SoundDirect(words)
                     /\ \A j \in Index : Get(Direct(words), j) = New(Get(c, j).id)
    BY <2>1, Upgrade
  <2>3. PICK e : e = Direct(words)
    OBVIOUS
  <2>4. SetNew(c, i, b) = SetDirect(e, i, b)
    BY <1>1, <1>2, <1>6, <1>10, <1>9, <2>2, <2>3 DEF SetNew
  <2>5. Sound(SetDirect(e, i, b)) /\ \A j \in Index : Get(SetDirect(e, i, b), j) = IF j = i THEN Bare(b) ELSE Get(e, j)
    BY <2>2, <2>3, SetDirects
  <2>6. \A j \in Index : Get(e, j) = Bare(Get(c, j))
    BY <2>1, <2>2, <2>3, BareGets
  <2> QED BY <2>4, <2>5, <2>6 DEF IsSet, IsForget
<1>11. CASE w > bits /\ w <= GlobalBits
  <2>1. w \in 1..GlobalBits /\ w \in 1..WordBits
    BY <1>6, <1>11, StateTypes
  <2>2. PICK f : f = [j \in Index |-> ReadPacked(data, j, bits)]
    OBVIOUS
  <2>3. Widened(c, w) = Packed(f, w)
    BY <1>1, <2>2 DEF Widened, Entry
  <2>4. f \in [Index -> Nat] /\ \A j \in Index : f[j] < n
    BY <1>8, <2>2
  <2>5. PICK m \in Nat : m = TwoTo[w] /\ m >= n + 1
    BY <1>6, Larger
  <2>6. \A x \in Nat : x <= n => x % m = x
    BY <2>5
  <2>7. PICK wide : wide = Packed(f, w)
    OBVIOUS
  <2>8. wide \in Arrays(w) /\ \A j \in Index : ReadPacked(wide, j, w) = f[j]
    BY <2>1, <2>4, <2>5, <2>6, <2>7, PackedReads
  <2>9. PICK new : new = WritePacked(wide, i, w, n)
    OBVIOUS
  <2>10. new \in Arrays(w) /\ \A j \in Index : ReadPacked(new, j, w) = IF j = i THEN n ELSE ReadPacked(data, j, bits)
    <3>1. \A j \in Index : f[j] = ReadPacked(data, j, bits)
      BY <2>2
    <3>2. n % TwoTo[w] = n
      BY <2>5, <2>6
    <3> QED BY <2>1, <2>8, <2>9, <3>1, <3>2, ReadWritten
  <2>11. SetNew(c, i, b) = Indirect(more, new, w)
    BY <1>1, <1>2, <1>4, <1>6, <1>11, <1>9, <2>3, <2>7, <2>9 DEF SetNew
  <2>12. Len(more) <= TwoTo[w]
    BY <1>5, <1>6
  <2> QED BY <1>2, <1>5, <1>7, <2>1, <2>10, <2>11, <2>12, NowThere
<1>12. CASE w <= bits
  <2>1. PICK m \in Nat : m = TwoTo[bits] /\ m >= n + 1
    BY <1>3, <1>6, <1>12, Wider, Larger
  <2>2. n % m = n
    BY <2>1
  <2>3. PICK new : new = WritePacked(data, i, bits, n)
    OBVIOUS
  <2>4. new \in Arrays(bits) /\ \A j \in Index : ReadPacked(new, j, bits) = IF j = i THEN n ELSE ReadPacked(data, j, bits)
    <3>1. bits \in 1..WordBits /\ data \in Arrays(bits)
      BY <1>3
    <3>2. n % TwoTo[bits] = n
      BY <2>1, <2>2
    <3> QED BY <2>3, <3>1, <3>2, ReadWritten
  <2>5. SetNew(c, i, b) = Indirect(more, new, bits)
    BY <1>1, <1>2, <1>3, <1>4, <1>6, <1>12, <2>3 DEF SetNew
  <2>6. Len(more) <= TwoTo[bits]
    BY <1>5, <2>1
  <2> QED BY <1>2, <1>3, <1>5, <1>7, <2>4, <2>5, <2>6, NowThere
<1> QED BY <1>10, <1>11, <1>12, <1>9

LEMMA Sets ==
    ASSUME NEW c, Sound(c), NEW i \in Index, NEW b \in States
    PROVE  IsSet(c, i, b, Set(c, i, b))
<1>1. CASE \E a \in States : c = Single(a)
  <2>1. PICK a \in States : c = Single(a)
    BY <1>1
  <2>2. Set(c, i, b) = SetSingle(c, i, b)
    BY <2>1 DEF Set, Single
  <2> QED BY <2>1, <2>2, SetSingles
<1>2. ASSUME NEW palette, NEW data, NEW bits, c = Indirect(palette, data, bits), SoundIndirect(palette, data, bits)
      PROVE  IsSet(c, i, b, Set(c, i, b))
  <2>1. Set(c, i, b) = SetIndirect(c, i, b) /\ c.palette = palette
    BY <1>2 DEF Set, Indirect
  <2>2. CASE \E k \in DOMAIN palette : palette[k] = b
    BY <1>2, <2>1, <2>2, SetKnown
  <2>3. CASE ~ \E k \in DOMAIN palette : palette[k] = b
    <3>1. SetIndirect(c, i, b) = SetNew(c, i, b)
      BY <2>1, <2>3 DEF SetIndirect
    <3> QED BY <1>2, <2>1, <3>1, SetUnknown
  <2> QED BY <2>2, <2>3
<1>3. CASE \E data : c = Direct(data) /\ SoundDirect(data)
  <2>1. PICK data : c = Direct(data) /\ SoundDirect(data)
    BY <1>3
  <2>2. Set(c, i, b) = SetDirect(c, i, b)
    BY <2>1 DEF Set, Direct
  <2>3. /\ Sound(SetDirect(c, i, b))
        /\ \A j \in Index : Get(SetDirect(c, i, b), j) = IF j = i THEN Bare(b) ELSE Get(c, j)
    BY <2>1, SetDirects
  <2>4. \A j \in Index : Bare(Get(c, j)) = Get(c, j)
    BY <2>1, GetTypes
  <2> QED BY <2>2, <2>3, <2>4 DEF IsSet, IsForget
<1> QED BY <1>1, <1>2, <1>3 DEF Sound
-----------------------------------------------------------------------------
(* Packets                                                                 *)

(* What is read back of an encoded container.                              *)
Coded(items, bits, palette, data) ==
    /\ items[1] = bits /\ items[2] = Len(palette)
    /\ \A k \in 1..Len(palette) : items[k + 2] = palette[k].id
    /\ SubSeq(items, Len(palette) + 4, Len(palette) + 3 + items[Len(palette) + 3]) = data

LEMMA Encoded ==
    ASSUME NEW c, NEW palette \in Seq(States), NEW data \in Seq(Words), NEW bits,
           c.palette = palette, c.data = data, c.bits = bits
    PROVE  Coded(EncodeNetwork(c), bits, palette, data)
<1>1. PICK n, m \in Nat : n = Len(palette) /\ m = Len(data) /\ DOMAIN palette = 1..n /\ DOMAIN data = 1..m
  OBVIOUS
<1>2. PICK head : head = <<bits, n>>
  OBVIOUS
<1>3. PICK ids : ids = Ids(palette)
  OBVIOUS
<1>4. PICK T : T = {bits, n, m} \cup {palette[k].id : k \in 1..n} \cup Words
  OBVIOUS
<1>5. head \in Seq(T) /\ Len(head) = 2 /\ head[1] = bits /\ head[2] = n
  BY <1>2, <1>4
<1>6. ids \in [1..n -> T] /\ \A k \in 1..n : ids[k] = palette[k].id
  BY <1>1, <1>3, <1>4 DEF Ids
<1>7. ids \in Seq(T) /\ Len(ids) = n
  BY <1>6
<1>8. <<m>> \in Seq(T) /\ Len(<<m>>) = 1 /\ <<m>>[1] = m
  BY <1>4
<1>9. data \in Seq(T)
  <2>1. \A k \in 1..m : data[k] \in T
    BY <1>1, <1>4
  <2>2. data = [k \in 1..m |-> data[k]]
    BY <1>1
  <2> QED BY <2>1, <2>2
<1>10. PICK a : a = head \o ids
  OBVIOUS
<1>11. a \in Seq(T) /\ Len(a) = n + 2 /\ a[1] = bits /\ a[2] = n /\ \A k \in 1..n : a[k + 2] = ids[k]
  <2>1. a \in Seq(T) /\ Len(a) = 2 + n /\ \A k \in 1..2 + n : a[k] = IF k <= 2 THEN head[k] ELSE ids[k - 2]
    <3>1. /\ a \in Seq(T) /\ Len(a) = Len(head) + Len(ids)
          /\ \A k \in 1..Len(head) + Len(ids) : a[k] = IF k <= Len(head) THEN head[k] ELSE ids[k - Len(head)]
      BY <1>5, <1>7, <1>10, ConcatProperties
    <3> QED BY <1>5, <1>7, <3>1
  <2>2. a \in Seq(T) /\ Len(a) = n + 2
    BY <2>1
  <2>3. \A k \in 1..(n + 2) : a[k] = IF k <= 2 THEN head[k] ELSE ids[k - 2]
    BY <2>1
  <2>4. ASSUME NEW k \in 1..n PROVE a[k + 2] = ids[k]
    <3>1. k + 2 \in 1..(n + 2) /\ ~(k + 2 <= 2) /\ (k + 2) - 2 = k
      OBVIOUS
    <3> QED BY <2>3, <3>1
  <2>5. a[1] = bits /\ a[2] = n
    BY <1>5, <2>3
  <2> QED BY <2>2, <2>4, <2>5
<1>12. PICK d : d = a \o <<m>>
  OBVIOUS
<1>13. d \in Seq(T) /\ Len(d) = n + 3 /\ d[n + 3] = m /\ \A k \in 1..(n + 2) : d[k] = a[k]
  BY <1>8, <1>11, <1>12
<1>14. PICK items : items = d \o data
  OBVIOUS
<1>15. /\ items \in Seq(T) /\ Len(items) = n + 3 + m
       /\ \A k \in 1..(n + 3) : items[k] = d[k]
       /\ \A k \in 1..m : items[n + 3 + k] = data[k]
  <2>1. items \in Seq(T) /\ Len(items) = (n + 3) + m
    <3>1. items \in Seq(T) /\ Len(items) = Len(d) + Len(data)
      BY <1>9, <1>13, <1>14, ConcatProperties
    <3> QED BY <1>1, <1>13, <3>1
  <2>2. \A k \in 1..((n + 3) + m) : items[k] = IF k <= n + 3 THEN d[k] ELSE data[k - (n + 3)]
    <3>1. \A k \in 1..Len(d) + Len(data) : items[k] = IF k <= Len(d) THEN d[k] ELSE data[k - Len(d)]
      BY <1>9, <1>13, <1>14, ConcatProperties
    <3> QED BY <1>1, <1>13, <3>1
  <2>3. ASSUME NEW k \in 1..m PROVE items[n + 3 + k] = data[k]
    <3>1. n + 3 + k \in 1..((n + 3) + m) /\ ~(n + 3 + k <= n + 3) /\ (n + 3 + k) - (n + 3) = k
      OBVIOUS
    <3> QED BY <2>2, <3>1
  <2>4. ASSUME NEW k \in 1..(n + 3) PROVE items[k] = d[k]
    <3>1. k \in 1..((n + 3) + m) /\ k <= n + 3
      OBVIOUS
    <3> QED BY <2>2, <3>1
  <2> QED BY <2>1, <2>3, <2>4
<1>16. items = EncodeNetwork(c)
  BY <1>1, <1>2, <1>3, <1>10, <1>12, <1>14 DEF EncodeNetwork
<1>17. items[1] = bits /\ items[2] = n /\ items[n + 3] = m /\ \A k \in 1..n : items[k + 2] = ids[k]
  <2>1. 1 \in 1..(n + 2) /\ 2 \in 1..(n + 2) /\ 1 \in 1..(n + 3) /\ 2 \in 1..(n + 3) /\ n + 3 \in 1..(n + 3)
    OBVIOUS
  <2>2. \A k \in 1..n : k + 2 \in 1..(n + 2) /\ k + 2 \in 1..(n + 3)
    OBVIOUS
  <2>3. items[1] = d[1] /\ items[2] = d[2] /\ items[n + 3] = d[n + 3]
    BY <1>15, <2>1
  <2>4. \A k \in 1..n : items[k + 2] = d[k + 2]
    BY <1>15, <2>2
  <2>5. d[1] = bits /\ d[2] = n /\ d[n + 3] = m /\ \A k \in 1..n : d[k + 2] = ids[k]
    BY <1>11, <1>13, <2>1, <2>2
  <2> QED BY <2>3, <2>4, <2>5
<1>18. SubSeq(items, n + 4, n + 3 + m) = data
  <2>1. PICK s : s = SubSeq(items, n + 4, n + 3 + m)
    OBVIOUS
  <2>2. s \in Seq(T) /\ Len(s) = m /\ \A k \in 1..m : s[k] = items[n + 3 + k]
    <3>1. PICK from, to \in Int : from = n + 4 /\ to = n + 3 + m
      OBVIOUS
    <3>2. \A k \in from..to : items[k] \in T
      BY <1>15, <3>1
    <3>3. /\ SubSeq(items, from, to) \in Seq(T)
          /\ Len(SubSeq(items, from, to)) = IF from <= to THEN to - from + 1 ELSE 0
          /\ \A k \in 1..to - from + 1 : SubSeq(items, from, to)[k] = items[from + k - 1]
      BY <3>2, SubSeqProperties
    <3>4. s = SubSeq(items, from, to)
      BY <2>1, <3>1
    <3>5. to - from + 1 = m /\ \A k \in 1..m : from + k - 1 = n + 3 + k
      BY <3>1
    <3>6. Len(s) = m
      <4>1. (IF from <= to THEN to - from + 1 ELSE 0) = m
        BY <3>1
      <4> QED BY <3>3, <3>4, <4>1
    <3> QED BY <3>3, <3>4, <3>6, <3>5
  <2>3. \A k \in 1..m : s[k] = data[k]
    BY <1>15, <2>2
  <2>4. s = data
    BY <1>1, <1>9, <2>2, <2>3, SeqEqual
  <2> QED BY <2>1, <2>4
<1>19. \A k \in 1..n : items[k + 2] = palette[k].id
  BY <1>6, <1>17
<1> QED BY <1>1, <1>16, <1>17, <1>18, <1>19 DEF Coded

(* A packet, decoded, shows the blocks there are.                          *)
LEMMA Decoded ==
    ASSUME NEW c, Sound(c), NEW j \in Index
    PROVE  Get(DecodeNetwork(EncodeNetwork(c)), j).id = Get(c, j).id
<1>1. CASE \E b \in States : c = Single(b)
  <2>1. PICK b \in States : c = Single(b)
    BY <1>1
  <2>2. c.palette = <<b>> /\ c.data = <<>> /\ c.bits = 0
    BY <2>1 DEF Single
  <2>3. <<b>> \in Seq(States) /\ <<>> \in Seq(Words) /\ Len(<<b>>) = 1
    OBVIOUS
  <2>4. PICK items : items = EncodeNetwork(c) /\ Coded(items, 0, <<b>>, <<>>)
    BY <2>2, <2>3, Encoded
  <2>5. DecodeNetwork(items) = Single(New(b.id))
    <3>1. items[2] = 1 /\ items[1 + 2] = b.id
      BY <2>3, <2>4 DEF Coded
    <3> QED BY <3>1 DEF DecodeNetwork
  <2>6. Get(Single(New(b.id)), j) = New(b.id) /\ Get(c, j) = b
    BY <2>1, OtherGets
  <2> QED BY <2>4, <2>5, <2>6 DEF New
<1>2. ASSUME NEW palette, NEW data, NEW bits, c = Indirect(palette, data, bits), SoundIndirect(palette, data, bits)
      PROVE  Get(DecodeNetwork(EncodeNetwork(c)), j).id = Get(c, j).id
  <2>1. c.palette = palette /\ c.data = data /\ c.bits = bits
    BY <1>2 DEF Indirect
  <2>2. palette \in Seq(States) /\ bits \in 1..WordBits /\ data \in Arrays(bits) /\ Len(palette) \in Nat
    BY <1>2, IndirectTypes
  <2>3. bits # 0 /\ Len(palette) > 1
    BY <1>2 DEF SoundIndirect
  <2>4. data \in Seq(Words)
    <3>1. DOMAIN NewPacked(bits) = 1..Slots(bits) /\ Slots(bits) \in Nat
      BY <2>2, Location
    <3> QED BY <2>2, <3>1 DEF Arrays
  <2>5. PICK items, n, ids : items = EncodeNetwork(c) /\ Coded(items, bits, palette, data) /\ n = Len(palette)
            /\ ids = [k \in 1..n |-> New(items[k + 2])]
    BY <2>1, <2>2, <2>4, Encoded
  <2>6. DecodeNetwork(items) = Indirect(ids, data, bits)
    <3>1. n \in Nat /\ n # 0 /\ n # 1 /\ n > 1
      BY <2>2, <2>3, <2>5
    <3>2. items[1] = bits /\ items[2] = n /\ SubSeq(items, n + 4, n + 3 + items[n + 3]) = data
      BY <2>5 DEF Coded
    <3> QED BY <2>5, <3>1, <3>2 DEF DecodeNetwork
  <2>7. Get(c, j) = palette[ReadPacked(data, j, bits) + 1] /\ ReadPacked(data, j, bits) + 1 \in DOMAIN palette
    BY <1>2, IndirectGet
  <2>8. PICK k \in 0..Len(palette) - 1 : k = ReadPacked(data, j, bits)
    BY <1>2 DEF SoundIndirect
  <2>9. Len(ids) = n /\ k < Len(ids) /\ k + 1 \in 1..n
    BY <2>2, <2>5, <2>8
  <2>10. Entry(Indirect(ids, data, bits), j) = k
    BY <2>8 DEF Entry, Indirect
  <2>11. Get(Indirect(ids, data, bits), j) = ids[k + 1]
    BY <2>3, <2>9, <2>10 DEF Get, Indirect
  <2>12. ids[k + 1] = New(palette[k + 1].id)
    BY <2>5, <2>9 DEF Coded
  <2>13. Get(DecodeNetwork(items), j) = New(palette[k + 1].id)
    BY <2>6, <2>11, <2>12
  <2>14. Get(c, j) = palette[k + 1]
    BY <2>7, <2>8
  <2> QED BY <2>5, <2>13, <2>14 DEF New
<1>3. CASE \E data : c = Direct(data) /\ SoundDirect(data)
  <2>1. PICK data : c = Direct(data) /\ SoundDirect(data)
    BY <1>3
  <2>2. c.palette = <<>> /\ c.data = data /\ c.bits = GlobalBits
    BY <2>1 DEF Direct
  <2>3. <<>> \in Seq(States) /\ Len(<<>>) = 0
    OBVIOUS
  <2>4. data \in Seq(Words)
    <3>1. GlobalBits \in 1..WordBits
      BY StateTypes
    <3>2. DOMAIN NewPacked(GlobalBits) = 1..Slots(GlobalBits) /\ Slots(GlobalBits) \in Nat
      BY <3>1, Location
    <3>3. data \in Arrays(GlobalBits)
      BY <2>1 DEF SoundDirect
    <3> QED BY <3>2, <3>3 DEF Arrays
  <2>5. PICK items : items = EncodeNetwork(c) /\ Coded(items, GlobalBits, <<>>, data)
    BY <2>2, <2>3, <2>4, Encoded
  <2>6. DecodeNetwork(items) = Direct(data)
    <3>1. PICK n : n = Len(<<>>)
      OBVIOUS
    <3>2. items[2] = n /\ SubSeq(items, n + 4, n + 3 + items[n + 3]) = data
      BY <2>5, <3>1 DEF Coded
    <3>3. PICK ids : ids = [k \in 1..n |-> New(items[k + 2])]
      OBVIOUS
    <3>4. DecodeNetwork(items) = CASE n = 0 -> Direct(data) [] n = 1 -> Single(ids[1]) [] n > 1 -> Indirect(ids, data, items[1])
      BY <3>2, <3>3 DEF DecodeNetwork
    <3> QED BY <2>3, <3>1, <3>4
  <2> QED BY <2>1, <2>5, <2>6
<1> QED BY <1>1, <1>2, <1>3 DEF Sound
-----------------------------------------------------------------------------
(* The column                                                              *)

(* Every section that is there is sound, and a cached packet shows the     *)
(* blocks of now.                                                          *)
ColumnInv ==
    /\ column = [s \in Sections |-> column[s]]
    /\ \A s \in Sections : column[s] = Absent \/ Sound(column[s])
    /\ cached = {} \/ cached = {ChunkData(column)}
    /\ dirty = TRUE
    /\ shown \in [Spot -> KnownIds]
    /\ sets \in 0..MaxSets

Grid == [p \in Spot |-> GetBlock(column, p)]

LEMMA AbsentIsNone ==
    /\ ~Sound(Absent)
    /\ \A b : Single(b) # Absent
<1>1. Absent.mode = "absent"
  BY DEF Absent, Single
<1> QED BY <1>1 DEF Sound, Single, Indirect, Direct

LEMMA Initially ==
    ASSUME ColumnInit
    PROVE  ColumnInv /\ Promise!Init
<1>1. column \in [Sections -> {Absent} \cup {Single(b) : b \in States}]
  BY DEF ColumnInit
<1>2. \A s \in Sections : column[s] = Absent \/ Sound(column[s])
  BY <1>1 DEF Sound
<1>3. Air.id \in KnownIds
  BY StateTypes DEF KnownIds
<1>4. ColumnInv
  BY <1>1, <1>2, <1>3, ColumnAssumption DEF ColumnInv, ColumnInit
<1>5. PICK first : first = [s \in Sections |-> IF column[s] = Absent THEN Air ELSE column[s].palette[1]]
  OBVIOUS
<1>6. ASSUME NEW s \in Sections
      PROVE  /\ first[s] \in States
             /\ \A j \in Index : GetBlock(column, <<s, j>>) = first[s]
  <2>1. CASE column[s] = Absent
    BY <1>5, <2>1, StateTypes DEF GetBlock, Present
  <2>2. CASE column[s] # Absent
    <3>1. PICK b \in States : column[s] = Single(b)
      BY <1>1, <2>2
    <3>2. first[s] = b
      BY <1>5, <2>2, <3>1 DEF Single
    <3>3. \A j : GetBlock(column, <<s, j>>) = b
      BY <2>2, <3>1, OtherGets DEF GetBlock, Present
    <3> QED BY <3>2, <3>3
  <2> QED BY <2>1, <2>2
<1>7. first \in [Sections -> States]
  BY <1>5, <1>6
<1>8. Grid = [p \in Spot |-> first[p[1]]]
  <2>1. \A p \in Spot : p = <<p[1], p[2]>> /\ p[1] \in Sections /\ p[2] \in Index
    BY DEF Spot
  <2>2. \A p \in Spot : GetBlock(column, p) = first[p[1]]
    BY <1>6, <2>1
  <2> QED BY <2>2 DEF Grid
<1>9. shown = [p \in Spot |-> Air.id]
  BY DEF ColumnInit
<1> QED BY <1>4, <1>7, <1>8, <1>9 DEF Promise!Init, Promise!Spot, Spot, Grid

LEMMA CellTypes ==
    ASSUME ColumnInv, NEW p \in Spot
    PROVE  GetBlock(column, p).id \in KnownIds
<1>1. p[1] \in Sections /\ p[2] \in Index
  BY DEF Spot
<1>2. CASE column[p[1]] = Absent
  BY <1>1, <1>2, StateTypes DEF GetBlock, Present, KnownIds
<1>3. CASE column[p[1]] # Absent
  BY <1>1, <1>3, GetTypes DEF GetBlock, Present, ColumnInv
<1> QED BY <1>2, <1>3

(* set_block: the block is put, or its section goes over to ids.           *)
LEMMA SetBlockStep ==
    ASSUME ColumnInv, NEW p \in Spot, NEW b \in States, SetBlock(p, b)
    PROVE  ColumnInv' /\ (Promise!Put(p, b) \/ Promise!Forget(p, b))
<1>1. PICK s \in Sections, i \in Index : p = <<s, i>> /\ p[1] = s /\ p[2] = i
  BY DEF Spot
<1>2. PICK c : c = Made(s)
  OBVIOUS
<1>3. Sound(c)
  <2>1. CASE column[s] = Absent
    BY <1>2, <2>1, StateTypes DEF Made, Sound
  <2>2. CASE column[s] # Absent
    BY <1>2, <2>2 DEF Made, ColumnInv
  <2> QED BY <2>1, <2>2
<1>4. ASSUME NEW j \in Index PROVE GetBlock(column, <<s, j>>) = Get(c, j)
  <2>1. CASE column[s] = Absent
    BY <1>2, <2>1, OtherGets DEF Made, GetBlock, Present
  <2>2. CASE column[s] # Absent
    BY <1>2, <2>2 DEF Made, GetBlock, Present
  <2> QED BY <2>1, <2>2
<1>5. PICK d : d = Set(c, i, b)
  OBVIOUS
<1>6. IsSet(c, i, b, d) /\ Sound(d) /\ d # Absent
  BY <1>3, <1>5, Sets, AbsentIsNone DEF IsSet
<1>7. PICK new : new = column'
  OBVIOUS
<1>8. new = [t \in Sections |-> IF t = s THEN d ELSE column[t]]
  <2>1. new = [column EXCEPT ![s] = d]
    BY <1>1, <1>2, <1>5, <1>7 DEF SetBlock
  <2>2. column = [t \in Sections |-> column[t]]
    BY DEF ColumnInv
  <2> QED BY <2>1, <2>2
<1>9. ColumnInv'
  <2>1. \A t \in Sections : new[t] = Absent \/ Sound(new[t])
    BY <1>6, <1>8 DEF ColumnInv
  <2>2. new = [t \in Sections |-> new[t]]
    BY <1>8
  <2>3. cached' = {} /\ dirty' = TRUE /\ shown' = shown /\ sets' = sets + 1 /\ sets < MaxSets
    BY DEF SetBlock, Invalidated
  <2>4. sets' \in 0..MaxSets
    BY <2>3, ColumnAssumption DEF ColumnInv
  <2> QED BY <1>7, <2>1, <2>2, <2>3, <2>4 DEF ColumnInv
<1>10. ASSUME NEW q \in Spot
       PROVE  /\ q[1] = s => q[2] \in Index /\ q = <<s, q[2]>> /\ GetBlock(new, q) = Get(d, q[2])
                             /\ GetBlock(column, q) = Get(c, q[2])
              /\ q[1] # s => GetBlock(new, q) = GetBlock(column, q)
  <2>1. q = <<q[1], q[2]>> /\ q[1] \in Sections /\ q[2] \in Index
    BY DEF Spot
  <2>2. CASE q[1] = s
    <3>1. GetBlock(new, q) = Get(d, q[2])
      BY <1>6, <1>8, <2>1, <2>2 DEF GetBlock, Present
    <3>2. q = <<s, q[2]>>
      BY <2>1, <2>2
    <3>3. GetBlock(column, q) = Get(c, q[2])
      BY <1>4, <2>1, <3>2
    <3> QED BY <2>1, <2>2, <3>1, <3>2, <3>3
  <2>3. CASE q[1] # s
    BY <1>8, <2>1, <2>3 DEF GetBlock, Present
  <2> QED BY <2>2, <2>3
<1>11. Grid' = [q \in Spot |-> GetBlock(new, q)]
  BY <1>7 DEF Grid, Spot
<1>12. shown' = shown
  BY DEF SetBlock
<1>13. \A q \in Spot : q[1] = s => (q[2] = i <=> q = p)
  BY <1>1, <1>10
<1>14. CASE IsPut(c, i, b, d)
  <2>1. ASSUME NEW q \in Spot PROVE GetBlock(new, q) = IF q = p THEN b ELSE GetBlock(column, q)
    <3>1. CASE q[1] = s
      BY <1>10, <1>13, <1>14, <3>1 DEF IsPut
    <3>2. CASE q[1] # s
      BY <1>1, <1>10, <3>2
    <3> QED BY <3>1, <3>2
  <2>2. Grid' = [Grid EXCEPT ![p] = b]
    BY <1>11, <2>1 DEF Grid
  <2> QED BY <1>9, <1>12, <2>2 DEF Promise!Put, Grid
<1>15. CASE IsForget(c, i, b, d)
  <2>1. ASSUME NEW q \in Spot
        PROVE  GetBlock(new, q) = IF q = p THEN Bare(b) ELSE IF q[1] = p[1] THEN Bare(GetBlock(column, q))
                                                                         ELSE GetBlock(column, q)
    <3>1. CASE q[1] = s
      BY <1>1, <1>10, <1>13, <1>15, <3>1 DEF IsForget
    <3>2. CASE q[1] # s
      BY <1>1, <1>10, <3>2
    <3> QED BY <3>1, <3>2
  <2>2. Grid' = [q \in Spot |-> IF q = p THEN Bare(b) ELSE IF q[1] = p[1] THEN Bare(Grid[q]) ELSE Grid[q]]
    BY <1>11, <2>1 DEF Grid
  <2>3. Promise!Spot = Spot /\ \A x : Promise!Plain(x) = Bare(x)
    BY DEF Promise!Spot, Spot, Promise!Plain, Bare
  <2> QED BY <1>9, <1>12, <2>2, <2>3 DEF Promise!Forget, Grid
<1> QED BY <1>6, <1>14, <1>15 DEF IsSet

(* A packet, new or cached, shows every block.                             *)
LEMMA ShowsAll ==
    ASSUME ColumnInv
    PROVE  Displayed(ChunkData(column)) = [p \in Spot |-> GetBlock(column, p).id]
<1>1. PICK wire : wire = ChunkData(column)
  OBVIOUS
<1>2. DOMAIN wire = Present(column) /\ \A s \in Present(column) : wire[s].blocks = EncodeNetwork(column[s])
  BY <1>1 DEF ChunkData
<1>3. ASSUME NEW p \in Spot
      PROVE  (IF p[1] \in DOMAIN wire THEN Get(DecodeNetwork(wire[p[1]].blocks), p[2]).id ELSE Air.id)
             = GetBlock(column, p).id
  <2>1. p[1] \in Sections /\ p[2] \in Index
    BY DEF Spot
  <2>2. CASE p[1] \in Present(column)
    <3>1. Sound(column[p[1]])
      BY <2>2 DEF Present, ColumnInv
    <3> QED BY <1>2, <2>1, <2>2, <3>1, Decoded DEF GetBlock
  <2>3. CASE p[1] \notin Present(column)
    BY <1>2, <2>3 DEF GetBlock
  <2> QED BY <2>2, <2>3
<1> QED BY <1>1, <1>3 DEF Displayed

LEMMA SendChunkStep ==
    ASSUME ColumnInv, SendChunk
    PROVE  ColumnInv' /\ Promise!Show
<1>1. column' = column /\ dirty' = dirty /\ sets' = sets
  BY DEF SendChunk
<1>2. cached' = {ChunkData(column)}
  BY DEF SendChunk, ColumnInv
<1>3. shown' = [p \in Spot |-> GetBlock(column, p).id]
  <2>1. (CHOOSE wire \in cached' : TRUE) = ChunkData(column)
    BY <1>2
  <2> QED BY <2>1, ShowsAll DEF SendChunk
<1>4. shown' \in [Spot -> KnownIds]
  BY <1>3, CellTypes
<1>5. ColumnInv'
  <2>1. PICK col : col = column
    OBVIOUS
  <2>2. column' = col /\ ChunkData(column)' = ChunkData(col)
    BY <1>1, <2>1 DEF ChunkData, Present
  <2> QED BY <1>1, <1>2, <1>4, <2>1, <2>2 DEF ColumnInv
<1>6. shown' = [p \in Spot |-> Grid[p].id]
  BY <1>3 DEF Grid
<1>7. Grid' = Grid
  BY <1>1 DEF Grid, GetBlock, Present
<1> QED BY <1>5, <1>6, <1>7 DEF Promise!Show, Promise!Spot, Spot, Grid

-----------------------------------------------------------------------------
(* The invariant is kept, and every step is one of the grid.               *)
LEMMA ColumnSteps ==
    ASSUME ColumnInv, [ColumnNext]_column_vars
    PROVE  ColumnInv' /\ [Promise!Next]_<<Grid, shown>>
<1>1. CASE UNCHANGED column_vars
  <2>1. column' = column /\ shown' = shown /\ cached' = cached /\ dirty' = dirty /\ sets' = sets
    BY <1>1 DEF column_vars
  <2>2. PICK col : col = column
    OBVIOUS
  <2>3. column' = col /\ ChunkData(column)' = ChunkData(col) /\ Grid' = Grid
    BY <2>1, <2>2 DEF ChunkData, Present, Grid, GetBlock
  <2> QED BY <2>1, <2>2, <2>3 DEF ColumnInv
<1>2. CASE SendChunk
  BY <1>2, SendChunkStep DEF Promise!Next
<1>3. ASSUME NEW p \in Spot, NEW b \in States, SetBlock(p, b)
      PROVE  ColumnInv' /\ Promise!Next
  <2>1. Promise!Spot = Spot
    BY DEF Promise!Spot, Spot
  <2> QED BY <1>3, <2>1, SetBlockStep DEF Promise!Next
<1> QED BY <1>1, <1>2, <1>3 DEF ColumnNext

LEMMA ColumnTyped == ColumnInv => ColumnTypeOK
<1> SUFFICES ASSUME ColumnInv PROVE ColumnTypeOK
  OBVIOUS
<1>1. ASSUME NEW s \in Present(column) PROVE IsContainer(column[s])
  <2>1. PICK c : c = column[s] /\ Sound(c)
    BY DEF Present, ColumnInv
  <2>2. \A bits \in 1..GlobalBits : Arrays(bits) \subseteq Seq(Words)
    <3>1. ASSUME NEW bits \in 1..GlobalBits PROVE Arrays(bits) \subseteq Seq(Words)
      <4>1. bits \in 1..WordBits
        BY StateTypes
      <4>2. DOMAIN NewPacked(bits) = 1..Slots(bits) /\ Slots(bits) \in Nat
        BY <4>1, StateTypes, Location, SomeIndex
      <4> QED BY <4>2 DEF Arrays
    <3> QED BY <3>1
  <2>3. Words = 0..(TwoTo[WordBits] - 1)
    BY DEF Words
  <2>4. GlobalBits \in 0..GlobalBits /\ 0 \in 0..GlobalBits /\ GlobalBits \in 1..GlobalBits
    BY StateTypes
  <2>5. CASE \E b \in States : c = Single(b)
    <3>1. PICK b \in States : c = Single(b)
      BY <2>5
    <3>2. <<b>> \in Seq(States) /\ <<>> \in Seq(Words)
      OBVIOUS
    <3> QED BY <2>1, <2>3, <2>4, <3>1, <3>2 DEF IsContainer, Single
  <2>6. ASSUME NEW palette, NEW data, NEW bits, c = Indirect(palette, data, bits), SoundIndirect(palette, data, bits)
        PROVE  IsContainer(c)
    <3>1. palette \in Seq(States) /\ data \in Arrays(bits) /\ bits \in 1..GlobalBits
      BY <2>6, IndirectTypes
    <3>2. data \in Seq(Words) /\ bits \in 0..GlobalBits
      BY <2>2, <3>1, StateTypes
    <3> QED BY <2>3, <2>6, <3>1, <3>2 DEF IsContainer, Indirect
  <2>7. CASE \E data : c = Direct(data) /\ SoundDirect(data)
    <3>1. PICK data : c = Direct(data) /\ SoundDirect(data)
      BY <2>7
    <3>2. data \in Seq(Words)
      BY <2>2, <2>4, <3>1 DEF SoundDirect
    <3>3. <<>> \in Seq(States)
      OBVIOUS
    <3>4. c.mode = "direct" /\ c.palette = <<>> /\ c.data = data /\ c.bits = GlobalBits
      BY <3>1 DEF Direct
    <3> QED BY <2>1, <2>3, <2>4, <3>2, <3>3, <3>4 DEF IsContainer
  <2> QED BY <2>1, <2>5, <2>6, <2>7 DEF Sound
<1>2. \A wire \in cached : DOMAIN wire \subseteq Sections
  BY DEF ColumnInv, ChunkData, Present
<1> QED BY <1>1, <1>2 DEF ColumnInv, ColumnTypeOK, KnownIds

(* Every section that is there is in one of its three modes, with known    *)
(* blocks in its palette and words that are words; the packet that is kept *)
(* is of sections there are, and what a client displays are known ids.     *)
THEOREM ColumnTypes == ColumnSpec => []ColumnTypeOK
<1>1. ColumnInit => ColumnInv
  BY Initially
<1>2. ColumnInv /\ [ColumnNext]_column_vars => ColumnInv'
  BY ColumnSteps
<1>3. ColumnInv => ColumnTypeOK
  BY ColumnTyped
<1> QED BY <1>1, <1>2, <1>3, PTL DEF ColumnSpec

(* A column, with its palettes, widths, words that entries share, cached   *)
(* packets and clients that decode them, is a grid of blocks: set_block    *)
(* changes one block (or drops the properties of the blocks of its section *)
(* when that outgrows its palette), and a packet shows every block.        *)
THEOREM ColumnImplementsGrid == ColumnSpec => ImplementsCells
<1>1. ColumnInit => ColumnInv /\ Promise!Init
  BY Initially
<1>2. ColumnInv /\ [ColumnNext]_column_vars => ColumnInv' /\ [Promise!Next]_<<Grid, shown>>
  BY ColumnSteps
<1>3. <<Grid, shown>> = <<[p \in Spot |-> GetBlock(column, p)], shown>>
  BY DEF Grid
<1> QED BY <1>1, <1>2, <1>3, PTL DEF ColumnSpec, ImplementsCells, Promise!Spec, Grid

-----------------------------------------------------------------------------
(* Paths: the field                                                        *)

LEMMA FieldIs ==
    /\ FieldX \in Nat /\ FieldZ \in Nat /\ Field \subseteq Nat \X Nat
    /\ IsFiniteSet(Field) /\ Cardinality(Field) \in Nat
    /\ \A c \in Field : c[1] \in 0..FieldX /\ c[2] \in 0..FieldZ /\ c = <<c[1], c[2]>>
<1>1. FieldX \in Nat /\ FieldZ \in Nat
  BY PathsAssumption
<1>2. IsFiniteSet(0..FieldX) /\ IsFiniteSet(0..FieldZ)
  BY <1>1, FS_Interval
<1>3. IsFiniteSet(Field)
  BY <1>2, FS_Product DEF Field
<1>4. Cardinality(Field) \in Nat
  BY <1>3, FS_CardinalityType
<1>5. \A c \in Field : c[1] \in 0..FieldX /\ c[2] \in 0..FieldZ /\ c = <<c[1], c[2]>>
  BY DEF Field
<1> QED BY <1>1, <1>3, <1>4, <1>5 DEF Field

LEMMA HeuristicIs ==
    ASSUME NEW c \in Field, NEW d \in Field
    PROVE  /\ Heuristic(c, d) \in Nat /\ Heuristic(d, d) = 0
           /\ c \in Neighbours(d) <=> d \in Neighbours(c)
<1>1. PICK x \in 0..FieldX, z \in 0..FieldZ : c = <<x, z>> /\ c[1] = x /\ c[2] = z
  BY FieldIs
<1>2. PICK u \in 0..FieldX, v \in 0..FieldZ : d = <<u, v>> /\ d[1] = u /\ d[2] = v
  BY FieldIs
<1>3. Heuristic(c, d) \in Nat /\ Heuristic(d, d) = 0
  BY <1>1, <1>2, FieldIs DEF Heuristic, Distance
<1>4. /\ c \in Neighbours(d) <=> (x = u + 1 /\ z = v) \/ (x = u - 1 /\ z = v) \/ (x = u /\ z = v + 1) \/ (x = u /\ z = v - 1)
      /\ d \in Neighbours(c) <=> (u = x + 1 /\ v = z) \/ (u = x - 1 /\ v = z) \/ (u = x /\ v = z + 1) \/ (u = x /\ v = z - 1)
  BY <1>1, <1>2 DEF Neighbours
<1>5. c \in Neighbours(d) <=> d \in Neighbours(c)
  BY <1>4, FieldIs
<1> QED BY <1>3, <1>5

(* One step brings nobody nearer by more than one.                         *)
LEMMA Consistent ==
    ASSUME NEW c \in Field, NEW d \in Field, NEW goal \in Field, d \in Neighbours(c)
    PROVE  Heuristic(d, goal) <= Heuristic(c, goal) + 1 /\ Heuristic(c, goal) <= Heuristic(d, goal) + 1
<1>1. PICK x \in 0..FieldX, z \in 0..FieldZ : c = <<x, z>> /\ c[1] = x /\ c[2] = z
  BY FieldIs
<1>2. PICK u \in 0..FieldX, v \in 0..FieldZ : d = <<u, v>> /\ d[1] = u /\ d[2] = v
  BY FieldIs
<1>3. PICK a \in 0..FieldX, b \in 0..FieldZ : goal = <<a, b>> /\ goal[1] = a /\ goal[2] = b
  BY FieldIs
<1>4. (u = x + 1 /\ v = z) \/ (u = x - 1 /\ v = z) \/ (u = x /\ v = z + 1) \/ (u = x /\ v = z - 1)
  BY <1>1, <1>2 DEF Neighbours
<1>5. Heuristic(d, goal) = Distance(u, a) + Distance(v, b) /\ Heuristic(c, goal) = Distance(x, a) + Distance(z, b)
  BY <1>1, <1>2, <1>3 DEF Heuristic
<1> QED BY <1>4, <1>5, FieldIs DEF Distance

-----------------------------------------------------------------------------
(* Paths: a search, from the constants it runs with                        *)

(* Scores fall along the predecessors, down to where the search began.     *)
Leads(from, cost, came) ==
    /\ cost = [c \in DOMAIN cost |-> cost[c]] /\ came = [c \in DOMAIN came |-> came[c]]
    /\ DOMAIN cost \subseteq Field /\ from \in DOMAIN cost /\ cost[from] = 0
    /\ \A c \in DOMAIN cost : cost[c] \in Nat
    /\ \A c \in DOMAIN came : c \in DOMAIN cost /\ came[c] \in DOMAIN cost
    /\ \A c \in DOMAIN cost \ {from} : c \in DOMAIN came /\ c \in Neighbours(came[c]) /\ cost[came[c]] + 1 <= cost[c]
(* No entry of the heap is better than its score says, and the goal is in it once it has one. *)
HeapOK(goal, open, cost) ==
    /\ \A o \in open : o = Node(o.cell, o.f) /\ o.cell \in DOMAIN cost /\ o.f \in Nat
                       /\ cost[o.cell] + Heuristic(o.cell, goal) <= o.f
    /\ goal \in DOMAIN cost => Node(goal, cost[goal]) \in open
(* As long as nobody builds: the walks found are free, and what is not in  *)
(* the heap has been expanded.                                             *)
Walkable(from, walls, cost) == \A c \in DOMAIN cost \ {from} : c \notin walls
Expanded(walls, cost, c) ==
    \A d \in Neighbours(c) : d \in Field \ walls => d \in DOMAIN cost /\ cost[d] <= cost[c] + 1
Frontier(walls, goal, open, cost) ==
    \A c \in DOMAIN cost : Node(c, cost[c] + Heuristic(c, goal)) \in open \/ Expanded(walls, cost, c)

LEMMA NodeIs ==
    ASSUME NEW c, NEW f, NEW d, NEW g
    PROVE  Node(c, f).cell = c /\ Node(c, f).f = f /\ (Node(c, f) = Node(d, g) <=> c = d /\ f = g)
  BY DEF Node

(* What is nearer by way of n.                                             *)
News(walls, cost, n, stale) ==
    IF stale THEN {}
    ELSE {c \in Neighbours(n.cell) : c \in Field \ walls /\ (c \in DOMAIN cost => cost[n.cell] + 1 < cost[c])}
Rescored(cost, news, g) == [c \in DOMAIN cost \cup news |-> IF c \in news THEN g ELSE cost[c]]
Repointed(came, news, cell) == [c \in DOMAIN came \cup news |-> IF c \in news THEN cell ELSE came[c]]
Reopened(open, goal, n, news, g) == (open \ {n}) \cup {Node(c, g + Heuristic(c, goal)) : c \in news}

LEMMA NewsLead ==
    ASSUME NEW from \in Field, NEW cost, NEW came, Leads(from, cost, came), NEW cell \in DOMAIN cost,
           NEW news \in SUBSET Field, NEW g, g = cost[cell] + 1,
           \A c \in news : c \in Neighbours(cell) /\ (c \in DOMAIN cost => g < cost[c])
    PROVE  Leads(from, Rescored(cost, news, g), Repointed(came, news, cell))
<1>1. PICK cost1, came1 : cost1 = Rescored(cost, news, g) /\ came1 = Repointed(came, news, cell)
  OBVIOUS
<1>2. g \in Nat /\ cost[cell] \in Nat
  BY DEF Leads
<1>3. from \notin news /\ cell \notin news
  BY <1>2 DEF Leads
<1>4. /\ DOMAIN cost1 = DOMAIN cost \cup news /\ DOMAIN came1 = DOMAIN came \cup news
      /\ cost1 = [c \in DOMAIN cost1 |-> cost1[c]] /\ came1 = [c \in DOMAIN came1 |-> came1[c]]
      /\ \A c \in news : cost1[c] = g /\ came1[c] = cell
      /\ \A c \in DOMAIN cost \ news : cost1[c] = cost[c]
      /\ \A c \in DOMAIN came \ news : came1[c] = came[c]
  BY <1>1 DEF Rescored, Repointed
<1>5. \A c \in DOMAIN cost1 : cost1[c] \in Nat /\ (c \in DOMAIN cost => cost1[c] <= cost[c])
  BY <1>2, <1>4 DEF Leads
<1>6. DOMAIN cost1 \subseteq Field /\ from \in DOMAIN cost1 /\ cost1[from] = 0
  BY <1>3, <1>4 DEF Leads
<1>7. \A c \in DOMAIN came1 : c \in DOMAIN cost1 /\ came1[c] \in DOMAIN cost1
  BY <1>4 DEF Leads
<1>8. ASSUME NEW c \in DOMAIN cost1 \ {from}
      PROVE  c \in DOMAIN came1 /\ c \in Neighbours(came1[c]) /\ cost1[came1[c]] + 1 <= cost1[c]
  <2>1. CASE c \in news
    <3>1. cost1[cell] = cost[cell]
      BY <1>3, <1>4
    <3> QED BY <1>2, <1>4, <2>1, <3>1
  <2>2. CASE c \notin news
    <3>1. c \in DOMAIN cost \ {from} /\ c \in DOMAIN came /\ came1[c] = came[c] /\ cost1[c] = cost[c]
      BY <1>4, <2>2 DEF Leads
    <3>2. came[c] \in DOMAIN cost /\ c \in Neighbours(came[c]) /\ cost[came[c]] + 1 <= cost[c] /\ cost[came[c]] \in Nat /\ cost[c] \in Nat
      BY <3>1 DEF Leads
    <3>3. cost1[came[c]] \in Nat /\ cost1[came[c]] <= cost[came[c]]
      BY <1>4, <1>5, <3>2
    <3> QED BY <1>4, <3>1, <3>2, <3>3
  <2> QED BY <2>1, <2>2
<1> QED BY <1>1, <1>4, <1>5, <1>6, <1>7, <1>8 DEF Leads

LEMMA HeapKept ==
    ASSUME NEW from \in Field, NEW goal \in Field, NEW cost, NEW came, NEW open,
           Leads(from, cost, came), HeapOK(goal, open, cost),
           NEW n \in open, n.cell # goal, NEW news \in SUBSET Field, NEW g, g = cost[n.cell] + 1,
           \A c \in news : c \in DOMAIN cost => g < cost[c]
    PROVE  HeapOK(goal, Reopened(open, goal, n, news, g), Rescored(cost, news, g))
<1>1. PICK cost1, open1 : cost1 = Rescored(cost, news, g) /\ open1 = Reopened(open, goal, n, news, g)
  OBVIOUS
<1>2. n.cell \in DOMAIN cost /\ cost[n.cell] \in Nat /\ g \in Nat
  BY DEF Leads, HeapOK
<1>3. /\ DOMAIN cost1 = DOMAIN cost \cup news
      /\ \A c \in news : cost1[c] = g
      /\ \A c \in DOMAIN cost \ news : cost1[c] = cost[c]
  BY <1>1 DEF Rescored
<1>4. \A c \in DOMAIN cost : cost1[c] \in Nat /\ cost[c] \in Nat /\ cost1[c] <= cost[c]
  BY <1>2, <1>3 DEF Leads
<1>5. ASSUME NEW o \in open1
      PROVE  o = Node(o.cell, o.f) /\ o.cell \in DOMAIN cost1 /\ o.f \in Nat /\ cost1[o.cell] + Heuristic(o.cell, goal) <= o.f
  <2>1. CASE o \in open
    <3>1. o = Node(o.cell, o.f) /\ o.cell \in DOMAIN cost /\ o.f \in Nat /\ cost[o.cell] + Heuristic(o.cell, goal) <= o.f
      BY <2>1 DEF HeapOK
    <3>2. Heuristic(o.cell, goal) \in Nat
      BY <3>1, HeuristicIs DEF Leads
    <3> QED BY <1>3, <1>4, <3>1, <3>2
  <2>2. CASE o \notin open
    <3>1. PICK c \in news : o = Node(c, g + Heuristic(c, goal))
      BY <1>1, <2>2 DEF Reopened
    <3>2. o.cell = c /\ o.f = g + Heuristic(c, goal) /\ Heuristic(c, goal) \in Nat
      BY <3>1, NodeIs, HeuristicIs
    <3> QED BY <1>2, <1>3, <3>1, <3>2
  <2> QED BY <2>1, <2>2
<1>6. ASSUME goal \in DOMAIN cost1 PROVE Node(goal, cost1[goal]) \in open1
  <2>1. CASE goal \in news
    <3>1. Heuristic(goal, goal) = 0 /\ g + 0 = g
      BY <1>2, HeuristicIs
    <3> QED BY <1>1, <1>3, <2>1, <3>1 DEF Reopened
  <2>2. CASE goal \notin news
    <3>1. goal \in DOMAIN cost /\ cost1[goal] = cost[goal] /\ Node(goal, cost[goal]) \in open
      BY <1>3, <1>6, <2>2 DEF HeapOK
    <3>2. Node(goal, cost[goal]) # n
      BY NodeIs
    <3> QED BY <1>1, <3>1, <3>2 DEF Reopened
  <2> QED BY <2>1, <2>2
<1> QED BY <1>1, <1>5, <1>6 DEF HeapOK

LEMMA FreeKept ==
    ASSUME NEW from, NEW walls, NEW cost, NEW news, NEW g, Walkable(from, walls, cost), \A c \in news : c \notin walls
    PROVE  Walkable(from, walls, Rescored(cost, news, g))
  BY DEF Walkable, Rescored

(* A cell that leaves the heap with its score has been expanded.           *)
LEMMA FrontierKept ==
    ASSUME NEW from \in Field, NEW goal \in Field, NEW walls, NEW cost, NEW came, NEW open,
           Leads(from, cost, came), HeapOK(goal, open, cost), Frontier(walls, goal, open, cost),
           NEW n \in open, NEW g, g = cost[n.cell] + 1,
           NEW stale, stale = (cost[n.cell] < n.f - Heuristic(n.cell, goal)),
           NEW news, news = News(walls, cost, n, stale)
    PROVE  Frontier(walls, goal, Reopened(open, goal, n, news, g), Rescored(cost, news, g))
<1>1. PICK cost1, open1, cell : cost1 = Rescored(cost, news, g) /\ open1 = Reopened(open, goal, n, news, g) /\ cell = n.cell
  OBVIOUS
<1>2. cell \in DOMAIN cost /\ cost[cell] \in Nat /\ g \in Nat /\ g = cost[cell] + 1 /\ cell \in Field
  BY <1>1 DEF Leads, HeapOK
<1>3. \A c \in news : c \in Field \ walls /\ c \in Neighbours(cell) /\ (c \in DOMAIN cost => g < cost[c])
  BY <1>1 DEF News
<1>4. /\ DOMAIN cost1 = DOMAIN cost \cup news
      /\ \A c \in news : cost1[c] = g
      /\ \A c \in DOMAIN cost \ news : cost1[c] = cost[c]
  BY <1>1 DEF Rescored
<1>5. \A c \in DOMAIN cost : cost1[c] \in Nat /\ cost[c] \in Nat /\ cost1[c] <= cost[c]
  BY <1>2, <1>3, <1>4 DEF Leads
<1>6. cell \notin news
  BY <1>2, <1>3
<1>7. ASSUME NEW c \in DOMAIN cost1
      PROVE  Node(c, cost1[c] + Heuristic(c, goal)) \in open1 \/ Expanded(walls, cost1, c)
  <2>1. CASE c \in news
    BY <1>1, <1>4, <2>1 DEF Reopened
  <2>2. CASE c \notin news /\ Expanded(walls, cost, c)
    <3>1. c \in DOMAIN cost /\ cost1[c] = cost[c]
      BY <1>4, <2>2
    <3>2. ASSUME NEW d \in Neighbours(c), d \in Field \ walls
          PROVE  d \in DOMAIN cost1 /\ cost1[d] <= cost1[c] + 1
      <4>1. d \in DOMAIN cost /\ cost[d] <= cost[c] + 1
        BY <2>2, <3>2 DEF Expanded
      <4>2. cost1[d] \in Nat /\ cost1[d] <= cost[d] /\ cost[d] \in Nat /\ cost[c] \in Nat
        BY <1>5, <3>1, <4>1
      <4> QED BY <1>4, <3>1, <4>1, <4>2
    <3> QED BY <3>2 DEF Expanded
  <2>3. CASE c \notin news /\ Node(c, cost[c] + Heuristic(c, goal)) \in open /\ Node(c, cost[c] + Heuristic(c, goal)) # n
    <3>1. cost1[c] = cost[c]
      BY <1>4, <2>3
    <3> QED BY <1>1, <2>3, <3>1 DEF Reopened
  <2>4. CASE c \notin news /\ Node(c, cost[c] + Heuristic(c, goal)) = n
    <3>1. c = cell /\ n.f = cost[cell] + Heuristic(cell, goal) /\ Heuristic(cell, goal) \in Nat
      BY <1>1, <1>2, <2>4, NodeIs, HeuristicIs
    <3>2. n.f - Heuristic(n.cell, goal) = cost[n.cell] /\ cost[n.cell] \in Nat
      BY <1>1, <1>2, <3>1
    <3>3. ~stale
      <4>1. ~(cost[n.cell] < n.f - Heuristic(n.cell, goal))
        BY <3>2
      <4> QED BY <4>1
    <3>4. news = {d \in Neighbours(cell) : d \in Field \ walls /\ (d \in DOMAIN cost => g < cost[d])}
      BY <1>1, <3>3 DEF News
    <3>5. ASSUME NEW d \in Neighbours(cell), d \in Field \ walls
          PROVE  d \in DOMAIN cost1 /\ cost1[d] <= cost1[cell] + 1
      <4>1. cost1[cell] = cost[cell]
        BY <1>2, <1>4, <1>6
      <4>2. CASE d \in news
        BY <1>2, <1>4, <4>1, <4>2
      <4>3. CASE d \notin news
        <5>1. d \in DOMAIN cost /\ ~(g < cost[d])
          BY <3>4, <3>5, <4>3
        <5> QED BY <1>2, <1>4, <1>5, <4>1, <4>3, <5>1
      <4> QED BY <4>2, <4>3
    <3> QED BY <3>1, <3>5 DEF Expanded
  <2>5. c \notin news => c \in DOMAIN cost
    BY <1>4
  <2>6. c \notin news => Node(c, cost[c] + Heuristic(c, goal)) \in open \/ Expanded(walls, cost, c)
    BY <2>5 DEF Frontier
  <2> QED BY <2>1, <2>2, <2>3, <2>4, <2>6
<1> QED BY <1>1, <1>7 DEF Frontier

-----------------------------------------------------------------------------
(* Paths: what is within so many steps                                     *)

Outwards(walls, ball, n) == ball[n - 1] \cup {c \in Field : c \in Field \ walls /\ Neighbours(c) \cap ball[n - 1] # {}}
Grows(walls, from, ball) ==
    /\ ball \in [0..Cardinality(Field) -> SUBSET Field] /\ ball[0] = {from}
    /\ \A n \in 1..Cardinality(Field) : ball[n] = Outwards(walls, ball, n)

LEMMA WithinGrows ==
    ASSUME NEW from \in Field
    PROVE  Grows(blocked, from, Within(from))
<1>1. PICK N \in Nat : N = Cardinality(Field)
  BY FieldIs
<1>2. PICK G : G = [n \in Nat |-> [b \in SUBSET Field |-> b \cup {c \in Field : c \in Field \ blocked /\ Neighbours(c) \cap b # {}}]]
  OBVIOUS
<1>3. PICK V, one, S : V = SUBSET Field /\ one = {from} /\ S = 0..N
  OBVIOUS
<1>4. one \in V /\ G \in [Nat -> [V -> V]] /\ S \in SUBSET Nat /\ 0 \in S /\ \A i \in S \ {0} : i - 1 \in S
  <2>1. one \in V /\ G \in [Nat -> [V -> V]]
    BY <1>2, <1>3
  <2>2. S \in SUBSET Nat /\ 0 \in S /\ \A i \in S \ {0} : i - 1 \in S
    BY <1>1, <1>3
  <2> QED BY <2>1, <2>2
<1>5. /\ \E f \in [S -> V] : Proceeds(f, G, one, S)
      /\ \A f : Heeds(f, G, one, S, V) => f \in [S -> V] /\ Proceeds(f, G, one, S)
  BY <1>4, Recursive
<1> DEFINE Eq(f) == f = [n \in 0..Cardinality(Field) |->
              IF n = 0 THEN {from} ELSE f[n - 1] \cup {c \in Field : Passable(c) /\ Neighbours(c) \cap f[n - 1] # {}}]
<1>6. PICK f \in [S -> V] : f[0] = one /\ \A i \in S \ {0} : f[i] = G[i][f[i - 1]]
  BY <1>5 DEF Proceeds
<1>7. Eq(f)
  <2>1. ASSUME NEW n \in S, n # 0
        PROVE  f[n] = f[n - 1] \cup {c \in Field : Passable(c) /\ Neighbours(c) \cap f[n - 1] # {}}
    <3>1. n - 1 \in S /\ f[n - 1] \in V /\ n \in Nat
      BY <1>4, <1>6, <2>1
    <3> QED BY <1>2, <1>3, <1>6, <2>1, <3>1 DEF Passable
  <2> QED BY <1>1, <1>3, <1>6, <2>1
<1>8. Eq(Within(from))
  <2>1. Within(from) = CHOOSE g : Eq(g)
    BY DEF Within
  <2>2. \E g : Eq(g)
    BY <1>7
  <2> HIDE DEF Eq
  <2> QED BY <2>1, <2>2
<1>9. PICK ball : ball = Within(from)
  OBVIOUS
<1>10. Heeds(ball, G, one, S, V)
  <2>1. ball = [n \in S |-> ball[n]] /\ ball[0] = one
    BY <1>1, <1>3, <1>8, <1>9
  <2>2. ASSUME NEW n \in S \ {0}, ball[n - 1] \in V PROVE ball[n] = G[n][ball[n - 1]]
    <3>1. ball[n] = ball[n - 1] \cup {c \in Field : Passable(c) /\ Neighbours(c) \cap ball[n - 1] # {}}
      BY <1>1, <1>3, <1>8, <1>9, <2>2
    <3>2. n \in Nat
      BY <1>4
    <3> QED BY <1>2, <1>3, <2>2, <3>1, <3>2 DEF Passable
  <2> QED BY <2>1, <2>2 DEF Heeds
<1>11. ball \in [S -> V] /\ ball[0] = one /\ \A i \in S \ {0} : ball[i] = G[i][ball[i - 1]]
  BY <1>5, <1>10 DEF Proceeds
<1>12. ASSUME NEW n \in 1..N PROVE ball[n] = Outwards(blocked, ball, n)
  <2>1. n \in S \ {0} /\ n - 1 \in S /\ n \in Nat /\ ball[n - 1] \in V
    BY <1>1, <1>3, <1>11, <1>12
  <2> QED BY <1>2, <1>3, <1>11, <2>1 DEF Outwards
<1> QED BY <1>1, <1>3, <1>9, <1>11, <1>12 DEF Grows

LEMMA BallsNest ==
    ASSUME NEW walls, NEW from, NEW ball, Grows(walls, from, ball), NEW j \in 0..Cardinality(Field), NEW k \in 0..j
    PROVE  ball[k] \subseteq ball[j]
<1>1. PICK N \in Nat : N = Cardinality(Field)
  BY FieldIs
<1> DEFINE Bad == {i \in k..N : ~(ball[k] \subseteq ball[i])}
<1>2. ASSUME NEW i \in Bad PROVE \E l \in Bad : l < i
  <2>1. i # k /\ i \in 1..N /\ i - 1 \in k..N /\ i - 1 < i
    BY <1>1, <1>2
  <2>2. ball[i - 1] \subseteq ball[i]
    BY <1>1, <2>1 DEF Grows, Outwards
  <2> QED BY <1>2, <2>1, <2>2
<1>3. Bad \in SUBSET Nat
  BY <1>1
<1> HIDE DEF Bad
<1>4. Bad = {}
  BY <1>2, <1>3, NoneBad
<1>5. j \in k..N
  BY <1>1
<1> QED BY <1>4, <1>5 DEF Bad

-----------------------------------------------------------------------------
(* Paths: what is best on the heap is best                                 *)

PickOne(S) == \E x \in S : TRUE

(* Within l steps of the goal no score is more than it has to be, if the   *)
(* heap has nothing as good as l.                                          *)
LEMMA ScoresAreLeast ==
    ASSUME NEW from \in Field, NEW goal \in Field, NEW walls \in SUBSET Field, NEW cost, NEW came, NEW open, NEW ball,
           Leads(from, cost, came), Frontier(walls, goal, open, cost), Grows(walls, from, ball),
           NEW l \in 0..Cardinality(Field), \A o \in open : l < o.f,
           NEW j \in 0..l, NEW c \in ball[j], j + Heuristic(c, goal) <= l
    PROVE  c \in DOMAIN cost /\ cost[c] <= j
<1>1. PICK N \in Nat : N = Cardinality(Field)
  BY FieldIs
<1>2. \A d \in Field : Heuristic(d, goal) \in Nat
  BY HeuristicIs
<1> DEFINE Least(i) == \A d \in ball[i] : i + Heuristic(d, goal) <= l => d \in DOMAIN cost /\ cost[d] <= i
           Bad == {i \in 0..l : ~Least(i)}
<1>3. ASSUME NEW i \in Bad PROVE \E k \in Bad : k < i
  <2>1. PICK d \in ball[i] : i + Heuristic(d, goal) <= l /\ ~(d \in DOMAIN cost /\ cost[d] <= i)
    BY <1>3
  <2>2. i # 0
    <3>1. CASE i = 0
      <4>1. d = from
        BY <2>1, <3>1 DEF Grows
      <4> QED BY <2>1, <3>1, <4>1 DEF Leads
    <3> QED BY <3>1
  <2>3. i \in 1..N /\ i - 1 \in 0..l /\ i - 1 < i /\ i - 1 \in 0..N /\ i \in 0..N
    BY <1>1, <1>3, <2>2
  <2>4. ball[i] = Outwards(walls, ball, i) /\ ball[i] \subseteq Field /\ ball[i - 1] \subseteq Field
    BY <1>1, <2>3 DEF Grows
  <2>5. ASSUME Least(i - 1) PROVE FALSE
    <3>1. CASE d \in ball[i - 1]
      <4>1. (i - 1) + Heuristic(d, goal) <= l
        BY <1>2, <2>1, <2>3, <2>4
      <4>2. d \in DOMAIN cost /\ cost[d] <= i - 1
        BY <2>5, <3>1, <4>1
      <4>3. cost[d] \in Nat
        BY <4>2 DEF Leads
      <4> QED BY <2>1, <2>3, <4>2, <4>3
    <3>2. CASE d \notin ball[i - 1]
      <4>1. d \in Field \ walls /\ PickOne(Neighbours(d) \cap ball[i - 1])
        BY <2>1, <2>4, <3>2 DEF Outwards, PickOne
      <4>2. PICK b \in ball[i - 1] : b \in Neighbours(d)
        BY <4>1 DEF PickOne
      <4>3. b \in Field /\ d \in Field /\ d \in Neighbours(b) /\ Heuristic(b, goal) <= Heuristic(d, goal) + 1
        BY <2>4, <4>1, <4>2, HeuristicIs, Consistent
      <4>4. Heuristic(b, goal) \in Nat /\ Heuristic(d, goal) \in Nat
        BY <1>2, <4>3
      <4>5. (i - 1) + Heuristic(b, goal) <= l
        BY <2>1, <2>3, <4>3, <4>4
      <4>6. b \in DOMAIN cost /\ cost[b] <= i - 1
        BY <2>5, <4>2, <4>5
      <4>7. cost[b] \in Nat /\ cost[b] + Heuristic(b, goal) <= l /\ l \in Nat
        <5>1. cost[b] \in Nat
          BY <4>6 DEF Leads
        <5> QED BY <1>1, <2>3, <4>4, <4>5, <4>6, <5>1
      <4>8. Node(b, cost[b] + Heuristic(b, goal)) \notin open
        <5>1. Node(b, cost[b] + Heuristic(b, goal)).f = cost[b] + Heuristic(b, goal)
          BY NodeIs
        <5>2. ~(l < cost[b] + Heuristic(b, goal))
          BY <4>4, <4>7
        <5> QED BY <5>1, <5>2
      <4>9. d \in DOMAIN cost /\ cost[d] <= cost[b] + 1
        BY <4>1, <4>3, <4>6, <4>8 DEF Frontier, Expanded
      <4>10. cost[d] \in Nat
        BY <4>9 DEF Leads
      <4> QED BY <2>1, <2>3, <4>6, <4>7, <4>9, <4>10
    <3> QED BY <3>1, <3>2
  <2> QED BY <2>3, <2>5
<1>4. Bad \in SUBSET Nat
  BY <1>1
<1> HIDE DEF Bad
<1>5. Bad = {}
  BY <1>3, <1>4, NoneBad
<1>6. Least(j)
  BY <1>5 DEF Bad
<1> QED BY <1>6

(* Nothing else is within reach once the heap is empty.                    *)
LEMMA AllIsFound ==
    ASSUME NEW from \in Field, NEW goal, NEW walls \in SUBSET Field, NEW cost, NEW came, NEW ball,
           Leads(from, cost, came), Frontier(walls, goal, {}, cost), Grows(walls, from, ball),
           NEW j \in 0..Cardinality(Field)
    PROVE  ball[j] \subseteq DOMAIN cost
<1>1. PICK N \in Nat : N = Cardinality(Field)
  BY FieldIs
<1> DEFINE Bad == {i \in 0..N : ~(ball[i] \subseteq DOMAIN cost)}
<1>2. ASSUME NEW i \in Bad PROVE \E k \in Bad : k < i
  <2>1. PICK d \in ball[i] : d \notin DOMAIN cost
    BY <1>2
  <2>2. i # 0
    BY <1>2, <2>1 DEF Grows, Leads
  <2>3. i \in 1..N /\ i - 1 \in 0..N /\ i - 1 < i
    BY <1>1, <1>2, <2>2
  <2>4. ball[i] = Outwards(walls, ball, i) /\ ball[i - 1] \subseteq Field
    BY <1>1, <2>3 DEF Grows
  <2>5. ASSUME ball[i - 1] \subseteq DOMAIN cost PROVE FALSE
    <3>1. d \notin ball[i - 1]
      BY <2>1, <2>5
    <3>2. d \in Field \ walls /\ PickOne(Neighbours(d) \cap ball[i - 1])
      BY <2>1, <2>4, <3>1 DEF Outwards, PickOne
    <3>3. PICK b \in ball[i - 1] : b \in Neighbours(d)
      BY <3>2 DEF PickOne
    <3>4. d \in Neighbours(b) /\ b \in DOMAIN cost
      BY <2>4, <2>5, <3>2, <3>3, HeuristicIs
    <3> QED BY <2>1, <3>2, <3>4 DEF Frontier, Expanded
  <2> QED BY <2>3, <2>5
<1>3. Bad \in SUBSET Nat
  BY <1>1
<1> HIDE DEF Bad
<1>4. Bad = {}
  BY <1>2, <1>3, NoneBad
<1> QED BY <1>1, <1>4 DEF Bad


-----------------------------------------------------------------------------
(* Paths: back from the goal                                               *)

Back(came, from, cell) == IF cell \in DOMAIN came THEN came[cell] ELSE from
Backwards(came, from, goal, back) ==
    /\ back \in [0..Cardinality(Field) -> Field] /\ back[0] = goal
    /\ \A k \in 1..Cardinality(Field) : back[k] = Back(came, from, back[k - 1])

LEMMA BackFalls ==
    ASSUME NEW from \in Field, NEW goal, NEW cost, NEW came, NEW back,
           Leads(from, cost, came), Backwards(came, from, goal, back),
           NEW k \in 0..Cardinality(Field), NEW i \in 0..k, back[i] \in DOMAIN cost,
           \A j \in i..(k - 1) : back[j] # from
    PROVE  back[k] \in DOMAIN cost /\ cost[back[k]] + (k - i) <= cost[back[i]]
<1>1. PICK N \in Nat : N = Cardinality(Field)
  BY FieldIs
<1> DEFINE Falls(m) == back[m] \in DOMAIN cost /\ cost[back[m]] + (m - i) <= cost[back[i]]
           Bad == {m \in i..k : ~Falls(m)}
<1>2. ASSUME NEW m \in Bad PROVE \E l \in Bad : l < m
  <2>1. m # i
    <3>1. cost[back[i]] \in Nat
      BY DEF Leads
    <3>2. CASE m = i
      <4>1. Falls(i)
        BY <1>1, <3>1
      <4> QED BY <1>2, <3>2, <4>1
    <3> QED BY <3>2
  <2>2. m \in 1..N /\ m - 1 \in i..k /\ m - 1 < m /\ m - 1 \in i..(k - 1)
    BY <1>1, <1>2, <2>1
  <2>3. ASSUME Falls(m - 1) PROVE FALSE
    <3>1. back[m - 1] \in DOMAIN cost \ {from}
      BY <2>2, <2>3
    <3>2. back[m] = came[back[m - 1]]
      BY <1>1, <2>2, <3>1 DEF Backwards, Back, Leads
    <3>3. /\ back[m] \in DOMAIN cost /\ cost[back[m]] + 1 <= cost[back[m - 1]]
          /\ cost[back[m]] \in Nat /\ cost[back[m - 1]] \in Nat /\ cost[back[i]] \in Nat
      BY <3>1, <3>2 DEF Leads
    <3>4. cost[back[m]] + (m - i) <= cost[back[i]]
      BY <1>1, <2>2, <2>3, <3>3
    <3> QED BY <1>2, <3>3, <3>4
  <2> QED BY <2>2, <2>3
<1>3. Bad \in SUBSET Nat
  BY <1>1
<1> HIDE DEF Bad
<1>4. Bad = {}
  BY <1>2, <1>3, NoneBad
<1>5. Falls(k)
  BY <1>1, <1>4 DEF Bad
<1> QED BY <1>5

(* No cell comes twice, so the way back ends where the search began.       *)
LEMMA BackEnds ==
    ASSUME NEW from \in Field, NEW goal, NEW cost, NEW came, NEW back, goal \in DOMAIN cost,
           Leads(from, cost, came), Backwards(came, from, goal, back)
    PROVE  \E k \in 0..Cardinality(Field) : back[k] = from
<1>1. PICK N \in Nat : N = Cardinality(Field)
  BY FieldIs
<1> SUFFICES ASSUME \A k \in 0..N : back[k] # from PROVE FALSE
  BY <1>1
<1>2. IsFiniteSet(0..N) /\ Cardinality(0..N) = N + 1
  <2>1. IsFiniteSet(0..N) /\ Cardinality(0..N) = N - 0 + 1
    BY <1>1, FS_Interval
  <2> QED BY <1>1, <2>1
<1>3. IsFiniteSet(Field) /\ Cardinality(Field) < Cardinality(0..N) /\ back \in [0..N -> Field]
  BY <1>1, <1>2, FieldIs DEF Backwards
<1>4. PICK x, y \in 0..N : x # y /\ back[x] = back[y]
  BY <1>2, <1>3, FS_PigeonHole
<1>5. PICK i \in 0..N, k \in 0..N : i < k /\ back[i] = back[k]
  <2>1. CASE x < y
    BY <1>4, <2>1
  <2>2. CASE y < x
    BY <1>4, <2>2
  <2>3. x < y \/ y < x
    BY <1>4
  <2> QED BY <2>1, <2>2, <2>3
<1>6. back[i] \in DOMAIN cost
  <2>1. back[0] \in DOMAIN cost
    BY DEF Backwards
  <2>2. 0 \in 0..i /\ \A j \in 0..(i - 1) : back[j] # from
    BY <1>1
  <2> QED BY <1>1, <2>1, <2>2, BackFalls
<1>7. back[k] \in DOMAIN cost /\ cost[back[k]] + (k - i) <= cost[back[i]]
  <2>1. i \in 0..k /\ \A j \in i..(k - 1) : back[j] # from
    BY <1>1, <1>5
  <2> QED BY <1>1, <1>6, <2>1, BackFalls
<1>8. cost[back[k]] \in Nat
  BY <1>7 DEF Leads
<1> QED BY <1>1, <1>5, <1>7, <1>8

WayOf(back, n) == [k \in 1..n |-> back[n - k]]
LEMMA WayBack ==
    ASSUME NEW from \in Field, NEW goal \in Field, goal # from, NEW cost, NEW came, goal \in DOMAIN cost,
           Leads(from, cost, came)
    PROVE  \E back \in [0..Cardinality(Field) -> Field], n \in 1..Cardinality(Field) :
              /\ Backwards(came, from, goal, back) /\ back[n] = from /\ \A j \in 0..(n - 1) : back[j] # from
              /\ Reconstructed(came, from, goal) = WayOf(back, n)
<1>1. PICK N \in Nat : N = Cardinality(Field)
  BY FieldIs
<1>2. \A c \in Field : Back(came, from, c) \in Field
  BY DEF Back, Leads
<1>3. PICK G : G = [k \in Nat |-> [c \in Field |-> Back(came, from, c)]]
  OBVIOUS
<1>4. PICK V, one, S : V = Field /\ one = goal /\ S = 0..N
  OBVIOUS
<1>5. one \in V /\ G \in [Nat -> [V -> V]] /\ S \in SUBSET Nat /\ 0 \in S /\ \A i \in S \ {0} : i - 1 \in S
  <2>1. one \in V /\ G \in [Nat -> [V -> V]]
    BY <1>2, <1>3, <1>4
  <2>2. S \in SUBSET Nat /\ 0 \in S /\ \A i \in S \ {0} : i - 1 \in S
    BY <1>1, <1>4
  <2> QED BY <2>1, <2>2
<1>6. /\ \E f \in [S -> V] : Proceeds(f, G, one, S)
      /\ \A f : Heeds(f, G, one, S, V) => f \in [S -> V] /\ Proceeds(f, G, one, S)
  BY <1>5, Recursive
<1> DEFINE Eq(f) == f = [k \in 0..Cardinality(Field) |->
              IF k = 0 THEN goal ELSE IF f[k - 1] \in DOMAIN came THEN came[f[k - 1]] ELSE from]
           First(f) == CHOOSE k \in DOMAIN f : f[k] = from /\ \A j \in 0..(k - 1) : f[j] # from
<1>7. PICK f \in [S -> V] : f[0] = one /\ \A i \in S \ {0} : f[i] = G[i][f[i - 1]]
  BY <1>6 DEF Proceeds
<1>8. Eq(f)
  <2>1. ASSUME NEW k \in S, k # 0 PROVE f[k] = IF f[k - 1] \in DOMAIN came THEN came[f[k - 1]] ELSE from
    <3>1. k - 1 \in S /\ f[k - 1] \in V /\ k \in Nat
      BY <1>5, <1>7, <2>1
    <3> QED BY <1>3, <1>4, <1>7, <2>1, <3>1 DEF Back
  <2> QED BY <1>1, <1>4, <1>7, <2>1
<1>9. PICK back : Eq(back) /\ Reconstructed(came, from, goal) = [k \in 1..First(back) |-> back[First(back) - k]]
  <2>1. PICK b : b = CHOOSE g : Eq(g)
    OBVIOUS
  <2>2. Reconstructed(came, from, goal) = [k \in 1..First(b) |-> b[First(b) - k]]
    BY <2>1 DEF Reconstructed
  <2>3. \E g : Eq(g)
    BY <1>8
  <2> HIDE DEF Eq, First
  <2> QED BY <2>1, <2>2, <2>3
<1>10. Heeds(back, G, one, S, V)
  <2>1. back = [k \in S |-> back[k]] /\ back[0] = one
    BY <1>1, <1>4, <1>9
  <2>2. ASSUME NEW k \in S \ {0}, back[k - 1] \in V PROVE back[k] = G[k][back[k - 1]]
    <3>1. back[k] = Back(came, from, back[k - 1])
      BY <1>1, <1>4, <1>9, <2>2 DEF Back
    <3>2. k \in Nat
      BY <1>5
    <3> QED BY <1>3, <1>4, <2>2, <3>1, <3>2
  <2> QED BY <2>1, <2>2 DEF Heeds
<1>11. back \in [S -> V] /\ back[0] = one /\ \A i \in S \ {0} : back[i] = G[i][back[i - 1]]
  BY <1>6, <1>10 DEF Proceeds
<1>12. Backwards(came, from, goal, back)
  <2>1. ASSUME NEW k \in 1..N PROVE back[k] = Back(came, from, back[k - 1])
    <3>1. k \in S \ {0} /\ k - 1 \in S /\ k \in Nat /\ back[k - 1] \in V
      BY <1>1, <1>4, <1>11, <2>1
    <3> QED BY <1>3, <1>4, <1>11, <3>1
  <2> QED BY <1>1, <1>4, <1>11, <2>1 DEF Backwards
<1>13. PICK n \in 0..N : back[n] = from /\ \A j \in 0..(n - 1) : back[j] # from
  <2>1. PICK ends : ends = {k \in 0..N : back[k] = from}
    OBVIOUS
  <2>2. ends \in SUBSET Nat /\ ends # {}
    BY <1>1, <1>12, <2>1, BackEnds
  <2>3. PICK n \in ends : ~\E m \in ends : m < n
    BY <2>2, NoneBad
  <2>4. ASSUME NEW j \in 0..(n - 1) PROVE back[j] # from
    <3>1. n \in 0..N /\ j \in 0..N /\ j < n
      BY <2>1, <2>3, <2>4, <1>1
    <3> QED BY <2>1, <2>3, <3>1
  <2> QED BY <2>1, <2>3, <2>4
<1>14. First(back) = n
  <2>1. DOMAIN back = 0..N
    BY <1>1, <1>9
  <2>2. ASSUME NEW k \in 0..N, back[k] = from, \A j \in 0..(k - 1) : back[j] # from PROVE k = n
    <3>1. ~(k < n) /\ ~(n < k)
      BY <1>13, <2>2
    <3> QED BY <3>1
  <2> QED BY <1>13, <2>1, <2>2
<1>15. n # 0
  BY <1>4, <1>11, <1>13
<1>16. Reconstructed(came, from, goal) = WayOf(back, n)
  BY <1>9, <1>14 DEF WayOf
<1>17. n \in 1..N
  BY <1>13, <1>15
<1>18. back \in [0..Cardinality(Field) -> Field] /\ n \in 1..Cardinality(Field)
  BY <1>1, <1>12, <1>17 DEF Backwards
<1> HIDE DEF Eq, First
<1> QED BY <1>12, <1>13, <1>16, <1>18

LEMMA WayTyped ==
    ASSUME NEW from \in Field, NEW goal \in Field, goal # from, NEW cost, NEW came, goal \in DOMAIN cost,
           Leads(from, cost, came), NEW way, way = Reconstructed(came, from, goal)
    PROVE  way \in Seq(Field) /\ Len(way) > 0 /\ way[Len(way)] = goal
<1>1. PICK N \in Nat : N = Cardinality(Field)
  BY FieldIs
<1>2. PICK back \in [0..N -> Field], n \in 1..N :
         Backwards(came, from, goal, back) /\ way = WayOf(back, n)
  BY <1>1, WayBack
<1>3. \A k \in 1..n : n - k \in 0..N /\ n - n = 0
  BY <1>1
<1>4. way \in [1..n -> Field] /\ way[n] = goal
  <2>1. way = [k \in 1..n |-> back[n - k]] /\ back[0] = goal
    BY <1>2 DEF WayOf, Backwards
  <2>2. \A k \in 1..n : back[n - k] \in Field
    BY <1>2, <1>3
  <2>3. n \in 1..n /\ n - n = 0
    BY <1>1
  <2> QED BY <2>1, <2>2, <2>3
<1>5. n \in Nat /\ n > 0
  OBVIOUS
<1>6. way \in Seq(Field) /\ Len(way) = n
  BY <1>4, <1>5
<1> QED BY <1>4, <1>5, <1>6

(* The walk is free, as long as its score says, and gets there.            *)
LEMMA WayIsWalk ==
    ASSUME NEW from \in Field, NEW goal \in Field, goal # from, NEW cost, NEW came, goal \in DOMAIN cost,
           NEW walls \in SUBSET Field, NEW ball,
           Leads(from, cost, came), Walkable(from, walls, cost), Grows(walls, from, ball),
           NEW way, way = Reconstructed(came, from, goal)
    PROVE  /\ Len(way) \in 1..Cardinality(Field) /\ Len(way) <= cost[goal]
           /\ way[1] \in Neighbours(from)
           /\ \A k \in DOMAIN way : way[k] \in Field \ walls /\ (k > 1 => way[k] \in Neighbours(way[k - 1]))
           /\ goal \in ball[Len(way)]
<1>1. PICK N \in Nat : N = Cardinality(Field)
  BY FieldIs
<1>2. PICK back \in [0..N -> Field], n \in 1..N :
         /\ Backwards(came, from, goal, back) /\ back[n] = from /\ \A j \in 0..(n - 1) : back[j] # from
         /\ way = WayOf(back, n)
  BY <1>1, WayBack
<1>3. way \in [1..n -> Field] /\ Len(way) = n /\ DOMAIN way = 1..n /\ \A k \in 1..n : way[k] = back[n - k]
  <2>1. way = [k \in 1..n |-> back[n - k]]
    BY <1>2 DEF WayOf
  <2>2. \A k \in 1..n : n - k \in 0..N
    BY <1>1
  <2>3. way \in [1..n -> Field]
    BY <1>1, <1>2, <2>1, <2>2 DEF Backwards
  <2>4. n \in Nat
    OBVIOUS
  <2> QED BY <2>1, <2>3, <2>4
<1>4. \A j \in 0..n : back[j] \in DOMAIN cost /\ cost[back[j]] + j <= cost[goal]
  <2> SUFFICES ASSUME NEW j \in 0..n PROVE back[j] \in DOMAIN cost /\ cost[back[j]] + j <= cost[goal]
    OBVIOUS
  <2>1. j \in 0..N /\ 0 \in 0..j /\ j - 0 = j /\ \A i \in 0..(j - 1) : back[i] # from
    BY <1>1, <1>2
  <2>2. back[0] = goal
    BY <1>2 DEF Backwards
  <2>3. back[j] \in DOMAIN cost /\ cost[back[j]] + (j - 0) <= cost[back[0]]
    BY <1>1, <1>2, <2>1, <2>2, BackFalls
  <2> QED BY <2>1, <2>2, <2>3
<1>5. ASSUME NEW j \in 0..(n - 1)
      PROVE  back[j] \in Field \ walls /\ back[j + 1] = came[back[j]] /\ back[j] \in Neighbours(back[j + 1])
  <2>1. j \in 0..n /\ j + 1 \in 1..N /\ (j + 1) - 1 = j
    BY <1>1
  <2>2. back[j] \in DOMAIN cost \ {from}
    BY <1>2, <1>4, <2>1
  <2>3. back[j + 1] = Back(came, from, back[j])
    BY <1>1, <1>2, <2>1 DEF Backwards
  <2> QED BY <2>2, <2>3 DEF Back, Leads, Walkable
<1>6. ASSUME NEW k \in 1..n PROVE way[k] \in Field \ walls /\ (k > 1 => way[k] \in Neighbours(way[k - 1]))
  <2>1. n - k \in 0..(n - 1) /\ (k > 1 => k - 1 \in 1..n /\ n - (k - 1) = (n - k) + 1)
    OBVIOUS
  <2> QED BY <1>3, <1>5, <2>1
<1>7. way[1] \in Neighbours(from)
  <2>1. n - 1 \in 0..(n - 1) /\ (n - 1) + 1 = n /\ 1 \in 1..n
    OBVIOUS
  <2> QED BY <1>2, <1>3, <1>5, <2>1
<1>8. n <= cost[goal]
  <2>1. cost[from] + n <= cost[goal] /\ cost[from] = 0 /\ cost[goal] \in Nat
    <3>1. n \in 0..n
      OBVIOUS
    <3> QED BY <1>2, <1>4, <3>1 DEF Leads
  <2> QED BY <2>1
<1>9. goal \in ball[n]
  <2> DEFINE Bad == {j \in 0..n : back[n - j] \notin ball[j]}
  <2>1. ASSUME NEW j \in Bad PROVE \E i \in Bad : i < j
    <3>1. j # 0
      <4>1. CASE j = 0
        <5>1. n - j = n
          BY <4>1
        <5> QED BY <1>2, <2>1, <4>1, <5>1 DEF Grows
      <4> QED BY <4>1
    <3>2. j \in 1..N /\ j - 1 \in 0..n /\ j - 1 < j /\ n - j \in 0..(n - 1) /\ n - (j - 1) = (n - j) + 1
      BY <1>1, <2>1, <3>1
    <3>3. ASSUME back[n - (j - 1)] \in ball[j - 1] PROVE FALSE
      <4>1. back[n - j] \in Field \ walls /\ back[n - j] \in Neighbours(back[(n - j) + 1])
        BY <1>5, <3>2
      <4>2. back[(n - j) + 1] \in ball[j - 1] /\ ball[j - 1] \subseteq Field
        BY <1>1, <3>2, <3>3 DEF Grows
      <4>3. back[(n - j) + 1] \in Neighbours(back[n - j])
        BY <4>1, <4>2, HeuristicIs
      <4>4. back[n - j] \in Outwards(walls, ball, j)
        BY <4>1, <4>2, <4>3 DEF Outwards
      <4>5. back[n - j] \in ball[j]
        BY <1>1, <3>2, <4>4 DEF Grows
      <4> QED BY <2>1, <4>5
    <3> QED BY <3>2, <3>3
  <2>2. Bad \in SUBSET Nat
    BY <1>1
  <2> HIDE DEF Bad
  <2>3. Bad = {}
    BY <2>1, <2>2, NoneBad
  <2>4. n \in 0..n /\ n - n = 0
    OBVIOUS
  <2>5. back[n - n] \in ball[n]
    BY <2>3, <2>4 DEF Bad
  <2> QED BY <1>2, <2>4, <2>5 DEF Backwards
<1> QED BY <1>1, <1>3, <1>6, <1>7, <1>8, <1>9

-----------------------------------------------------------------------------
(* Paths: the invariant                                                    *)

Everyone == Hunters \cup Hunted
WayOK(key, w) ==
    w = [way |-> w.way, uses |-> w.uses] /\ w.way \in Seq(Field) /\ Len(w.way) > 0 /\ ChunkAt(w.way[Len(w.way)]) = key[2]

OutsideOK ==
    /\ blocked \subseteq Field /\ spot \in [Everyone -> Field] /\ route \in [Hunters -> Seq(Field)]
    /\ pathing \in [todo : SUBSET Hunters, seen : [Everyone -> Field]]
WaysOK ==
    /\ ways = [key \in DOMAIN ways |-> ways[key]]
    /\ IsFiniteSet(DOMAIN ways) /\ Cardinality(DOMAIN ways) <= CacheMax
    /\ \A key \in DOMAIN ways : WayOK(key, ways[key])
Sound0(from, goal, walls, s) ==
    /\ s = [mob |-> s.mob, open |-> s.open, clean |-> s.clean, cost |-> s.cost, came |-> s.came]
    /\ s.clean \in BOOLEAN
    /\ Leads(from, s.cost, s.came) /\ HeapOK(goal, s.open, s.cost)
    /\ s.clean => Walkable(from, walls, s.cost) /\ Frontier(walls, goal, s.open, s.cost)
Searching ==
    /\ search.mob \in pathing.todo /\ Goal(search.mob) # From(search.mob)
    /\ Sound0(From(search.mob), Goal(search.mob), blocked, search)
SearchOK == search = NoSearch \/ Searching
PathsInv == OutsideOK /\ WaysOK /\ SearchOK

LEMMA SeenIs ==
    ASSUME OutsideOK, NEW m \in Hunters
    PROVE  From(m) \in Field /\ Goal(m) \in Field /\ Prey[m] \in Everyone /\ m \in Everyone
  BY DEF OutsideOK, From, Goal, Everyone, Hunted

LEMMA NoSearchIs ==
    ASSUME NEW s, s = [mob |-> s.mob, open |-> s.open, clean |-> s.clean, cost |-> s.cost, came |-> s.came]
    PROVE  s # NoSearch
<1>1. DOMAIN s = {"mob", "open", "clean", "cost", "came"}
  OBVIOUS
<1>2. DOMAIN NoSearch = {"mob"}
  BY DEF NoSearch
<1> QED BY <1>1, <1>2

LEMMA PathsStart == PathsInit => PathsInv
<1> SUFFICES ASSUME PathsInit PROVE PathsInv
  OBVIOUS
<1>1. OutsideOK
  <2>1. blocked \subseteq Field /\ spot \in [Everyone -> Field]
    BY PathsAssumption DEF PathsInit, Everyone
  <2>2. <<>> \in Seq(Field)
    OBVIOUS
  <2> QED BY <2>1, <2>2 DEF PathsInit, OutsideOK
<1>2. WaysOK
  <2>1. DOMAIN ways = {} /\ ways = [key \in {} |-> ways[key]]
    BY DEF PathsInit
  <2>2. IsFiniteSet({}) /\ Cardinality({}) = 0 /\ CacheMax \in Nat
    BY FS_EmptySet, PathsAssumption
  <2> QED BY <2>1, <2>2 DEF WaysOK
<1> QED BY <1>1, <1>2 DEF PathsInv, PathsInit, SearchOK

LEMMA ServesTyped ==
    ASSUME OutsideOK, NEW m \in Hunters, NEW way \in Seq(Field), Serves(m, way), UNCHANGED <<blocked, spot>>
    PROVE  OutsideOK' /\ SearchOK'
<1>1. pathing.todo \subseteq Hunters /\ pathing' = [pathing EXCEPT !.todo = @ \ {m}]
  BY DEF OutsideOK, Serves
<1>2. pathing' \in [todo : SUBSET Hunters, seen : [Everyone -> Field]]
  BY <1>1 DEF OutsideOK
<1>3. route' \in [Hunters -> Seq(Field)]
  BY DEF OutsideOK, Serves
<1> QED BY <1>2, <1>3 DEF OutsideOK, SearchOK, Serves

LEMMA BeginPathingOK ==
    ASSUME PathsInv, BeginPathing
    PROVE  PathsInv'
<1>1. OutsideOK'
  BY DEF BeginPathing, PathsInv, OutsideOK
<1>2. WaysOK'
  BY DEF BeginPathing, PathsInv, WaysOK
<1>3. search = NoSearch
  BY DEF BeginPathing, PathsInv, SearchOK, Searching
<1> QED BY <1>1, <1>2, <1>3 DEF BeginPathing, PathsInv, SearchOK

LEMMA GoalIsWay ==
    ASSUME NEW goal \in Field
    PROVE  <<goal>> \in Seq(Field)
  OBVIOUS

LEMMA GoStraightOK ==
    ASSUME PathsInv, NEW m \in Hunters, GoStraight(m)
    PROVE  PathsInv'
<1>1. <<Goal(m)>> \in Seq(Field)
  BY SeenIs, GoalIsWay DEF PathsInv
<1>2. OutsideOK' /\ SearchOK'
  BY <1>1, ServesTyped DEF GoStraight, PathsInv
<1>3. WaysOK'
  BY DEF GoStraight, PathsInv, WaysOK
<1> QED BY <1>2, <1>3 DEF PathsInv

LEMMA FromCacheOK ==
    ASSUME PathsInv, NEW m \in Hunters, FromCache(m)
    PROVE  PathsInv'
<1>1. PICK key : key = CacheKey(From(m), Goal(m)) /\ key \in DOMAIN ways
  BY DEF FromCache
<1>2. ways' = [ways EXCEPT ![key].uses = @ + 1] /\ Serves(m, ways[key].way) /\ UNCHANGED <<blocked, spot>>
  BY <1>1 DEF FromCache
<1>3. WayOK(key, ways[key]) /\ ways[key].way \in Seq(Field)
  BY <1>1 DEF PathsInv, WaysOK, WayOK
<1>4. OutsideOK' /\ SearchOK'
  BY <1>2, <1>3, ServesTyped DEF PathsInv
<1>5. PICK w : w = [ways[key] EXCEPT !.uses = @ + 1]
  OBVIOUS
<1>6. WayOK(key, w)
  BY <1>3, <1>5 DEF WayOK
<1>7. ways' = [ways EXCEPT ![key] = w]
  BY <1>2, <1>5
<1>8. DOMAIN ways' = DOMAIN ways /\ \A k \in DOMAIN ways : ways'[k] = IF k = key THEN w ELSE ways[k]
  BY <1>7
<1>9. WaysOK'
  BY <1>6, <1>7, <1>8 DEF PathsInv, WaysOK
<1> QED BY <1>4, <1>9 DEF PathsInv

LEMMA BeginSearchOK ==
    ASSUME PathsInv, NEW m \in Hunters, BeginSearch(m)
    PROVE  PathsInv'
<1>1. PICK from \in Field, goal \in Field : from = From(m) /\ goal = Goal(m)
  BY SeenIs DEF PathsInv
<1>2. PICK open, cost, came :
         open = {Node(from, Heuristic(from, goal))} /\ cost = [c \in {from} |-> 0] /\ came = <<>>
  OBVIOUS
<1>3. search' = [mob |-> m, open |-> open, clean |-> TRUE, cost |-> cost, came |-> came] /\ pathing' = pathing /\ m \in pathing.todo
  BY <1>1, <1>2 DEF BeginSearch
<1>4. from # goal
  <2>1. ASSUME from = goal PROVE Straight(m)
    <3>1. goal[1] \in Nat /\ goal[2] \in Nat
      BY FieldIs
    <3>2. Distance(goal[1], goal[1]) = 0 /\ Distance(goal[2], goal[2]) = 0
      BY <3>1 DEF Distance
    <3>3. \A i \in 1..2 : Distance(goal[i], goal[i]) = 0
      BY <3>2
    <3> QED BY <1>1, <2>1, <3>3 DEF Straight
  <2> QED BY <2>1 DEF BeginSearch
<1>5. DOMAIN cost = {from} /\ cost[from] = 0 /\ DOMAIN came = {} /\ came = [c \in {} |-> came[c]]
  BY <1>2
<1>6. Leads(from, cost, came)
  BY <1>2, <1>5 DEF Leads
<1>7. Heuristic(from, goal) \in Nat /\ 0 + Heuristic(from, goal) = Heuristic(from, goal)
  BY HeuristicIs
<1>8. HeapOK(goal, open, cost)
  <2>1. ASSUME NEW o \in open PROVE o = Node(o.cell, o.f) /\ o.cell \in DOMAIN cost /\ o.f \in Nat /\ cost[o.cell] + Heuristic(o.cell, goal) <= o.f
    <3>1. o = Node(from, Heuristic(from, goal)) /\ o.cell = from /\ o.f = Heuristic(from, goal)
      BY <1>2, <2>1, NodeIs
    <3> QED BY <1>5, <1>7, <3>1
  <2> QED BY <1>4, <1>5, <2>1 DEF HeapOK
<1>9. Walkable(from, blocked, cost) /\ Frontier(blocked, goal, open, cost)
  BY <1>2, <1>5, <1>7 DEF Walkable, Frontier
<1>10. OutsideOK' /\ WaysOK' /\ blocked' = blocked
  BY DEF BeginSearch, PathsInv, OutsideOK, WaysOK
<1>11. PICK s : s = search'
  OBVIOUS
<1>12. s.mob = m /\ s.open = open /\ s.clean = TRUE /\ s.cost = cost /\ s.came = came
       /\ s = [mob |-> s.mob, open |-> s.open, clean |-> s.clean, cost |-> s.cost, came |-> s.came]
  BY <1>3, <1>11
<1>13. Sound0(from, goal, blocked, s)
  BY <1>6, <1>8, <1>9, <1>12 DEF Sound0
<1>14. From(m)' = from /\ Goal(m)' = goal
  BY <1>1, <1>3 DEF From, Goal
<1>15. Searching'
  BY <1>3, <1>4, <1>10, <1>11, <1>12, <1>13, <1>14 DEF Searching, From, Goal
<1> QED BY <1>10, <1>15 DEF PathsInv, SearchOK

LEMMA ExpandOK ==
    ASSUME PathsInv, search # NoSearch, NEW n \in search.open, Expand(n)
    PROVE  PathsInv' /\ search' # NoSearch
<1>1. Searching /\ search.mob \in Hunters
  BY DEF PathsInv, SearchOK, Searching, OutsideOK
<1>2. PICK from \in Field, goal \in Field, m \in Hunters : m = search.mob /\ from = From(m) /\ goal = Goal(m)
  BY <1>1, SeenIs DEF PathsInv
<1>3. PICK open, cost, came, clean : open = search.open /\ cost = search.cost /\ came = search.came /\ clean = search.clean
  OBVIOUS
<1>4. /\ search = [mob |-> m, open |-> open, clean |-> clean, cost |-> cost, came |-> came] /\ clean \in BOOLEAN
      /\ Leads(from, cost, came) /\ HeapOK(goal, open, cost)
      /\ clean => Walkable(from, blocked, cost) /\ Frontier(blocked, goal, open, cost)
  BY <1>1, <1>2, <1>3 DEF Searching, Sound0
<1>5. PICK g, stale, news :
        g = cost[n.cell] + 1 /\ stale = (cost[n.cell] < n.f - Heuristic(n.cell, goal)) /\ news = News(blocked, cost, n, stale)
  OBVIOUS
<1>6. /\ n.cell # goal /\ n \in open
      /\ search' = [search EXCEPT
            !.open = (@ \ {n}) \cup {Node(c, g + Heuristic(c, goal)) : c \in news},
            !.cost = [c \in DOMAIN @ \cup news |-> IF c \in news THEN g ELSE @[c]],
            !.came = [c \in DOMAIN @ \cup news |-> IF c \in news THEN n.cell ELSE @[c]]]
      /\ UNCHANGED <<blocked, spot, route, pathing, ways, pathSteps>>
  <2>1. Closer(n) = {c \in Neighbours(n.cell) : c \in Field \ blocked /\ (c \in DOMAIN cost => cost[n.cell] + 1 < cost[c])}
    BY <1>3 DEF Closer, Passable
  <2>2. news = IF stale THEN {} ELSE Closer(n)
    BY <1>5, <2>1 DEF News
  <2> QED BY <1>2, <1>3, <1>5, <2>2 DEF Expand
<1>7. search' = [mob |-> m, open |-> Reopened(open, goal, n, news, g), clean |-> clean,
                 cost |-> Rescored(cost, news, g), came |-> Repointed(came, news, n.cell)]
  BY <1>4, <1>6 DEF Reopened, Rescored, Repointed
<1>8. n.cell \in DOMAIN cost
  BY <1>4, <1>6 DEF HeapOK
<1>9. /\ news \in SUBSET Field /\ \A c \in news : c \notin blocked /\ c \in Neighbours(n.cell) /\ (c \in DOMAIN cost => g < cost[c])
  BY <1>5 DEF News
<1>10. PICK open1, cost1, came1 :
         open1 = Reopened(open, goal, n, news, g) /\ cost1 = Rescored(cost, news, g) /\ came1 = Repointed(came, news, n.cell)
  OBVIOUS
<1>11. Leads(from, cost1, came1)
  BY <1>4, <1>5, <1>8, <1>9, <1>10, NewsLead
<1>12. HeapOK(goal, open1, cost1)
  BY <1>4, <1>5, <1>6, <1>9, <1>10, HeapKept
<1>13. clean => Walkable(from, blocked, cost1) /\ Frontier(blocked, goal, open1, cost1)
  BY <1>4, <1>5, <1>6, <1>9, <1>10, FreeKept, FrontierKept
<1>14. PICK s : s = search'
  OBVIOUS
<1>15. s.mob = m /\ s.open = open1 /\ s.clean = clean /\ s.cost = cost1 /\ s.came = came1
       /\ s = [mob |-> s.mob, open |-> s.open, clean |-> s.clean, cost |-> s.cost, came |-> s.came]
  BY <1>7, <1>10, <1>14
<1>16. Sound0(from, goal, blocked, s)
  BY <1>4, <1>11, <1>12, <1>13, <1>15 DEF Sound0
<1>17. From(m)' = from /\ Goal(m)' = goal /\ m \in pathing.todo /\ goal # from
  BY <1>1, <1>2, <1>6 DEF From, Goal, Searching
<1>18. Searching'
  BY <1>6, <1>14, <1>15, <1>16, <1>17 DEF Searching, From, Goal
<1>19. OutsideOK' /\ WaysOK'
  BY <1>6 DEF PathsInv, OutsideOK, WaysOK
<1>20. search' # NoSearch
  BY <1>14, <1>15, NoSearchIs
<1> QED BY <1>18, <1>19, <1>20 DEF PathsInv, SearchOK

LEMMA KeptOK ==
    ASSUME WaysOK, NEW key, NEW way \in Seq(Field), Len(way) > 0, ChunkAt(way[Len(way)]) = key[2], ways' \in Kept(key, way)
    PROVE  WaysOK'
<1>1. PICK given, keys :
         /\ given = [way |-> way, uses |-> 1] /\ keys \subseteq DOMAIN ways
         /\ ways' = [k \in keys \cup {key} |-> IF k = key THEN given ELSE ways[k]]
         /\ Cardinality(DOMAIN ways) < CacheMax \/ \E k \in DOMAIN ways : keys = DOMAIN ways \ {k}
  <2>1. PICK given, Least :
          /\ given = [way |-> way, uses |-> 1] /\ Least \subseteq DOMAIN ways
          /\ ways' \in IF Cardinality(DOMAIN ways) < CacheMax
                       THEN {[k \in DOMAIN ways \cup {key} |-> IF k = key THEN given ELSE ways[k]]}
                       ELSE {[k \in (DOMAIN ways \ {l}) \cup {key} |-> IF k = key THEN given ELSE ways[k]] : l \in Least}
    BY DEF Kept
  <2>2. CASE Cardinality(DOMAIN ways) < CacheMax
    <3>1. PICK keys : keys = DOMAIN ways
      OBVIOUS
    <3>2. ways' = [k \in keys \cup {key} |-> IF k = key THEN given ELSE ways[k]]
      BY <2>1, <2>2, <3>1
    <3>3. keys \subseteq DOMAIN ways
      BY <3>1
    <3> QED BY <2>1, <2>2, <3>2, <3>3
  <2>3. CASE ~(Cardinality(DOMAIN ways) < CacheMax)
    <3>1. PICK l \in Least : ways' = [k \in (DOMAIN ways \ {l}) \cup {key} |-> IF k = key THEN given ELSE ways[k]]
      BY <2>1, <2>3
    <3>2. PICK keys : keys = DOMAIN ways \ {l} /\ keys \subseteq DOMAIN ways
      OBVIOUS
    <3>3. l \in DOMAIN ways
      BY <2>1
    <3>4. \E k \in DOMAIN ways : keys = DOMAIN ways \ {k}
      BY <3>2, <3>3
    <3>5. ways' = [k \in keys \cup {key} |-> IF k = key THEN given ELSE ways[k]]
      BY <3>1, <3>2
    <3>6. given = [way |-> way, uses |-> 1] /\ keys \subseteq DOMAIN ways
      BY <2>1, <3>2
    <3> QED BY <3>4, <3>5, <3>6
  <2> QED BY <2>2, <2>3
<1>2. DOMAIN ways' = keys \cup {key} /\ \A k \in keys \cup {key} : ways'[k] = IF k = key THEN given ELSE ways[k]
  BY <1>1
<1>3. WayOK(key, given)
  BY <1>1 DEF WayOK
<1>4. \A k \in DOMAIN ways' : WayOK(k, ways'[k])
  BY <1>1, <1>2, <1>3 DEF WaysOK
<1>5. IsFiniteSet(DOMAIN ways) /\ Cardinality(DOMAIN ways) \in Nat /\ Cardinality(DOMAIN ways) <= CacheMax /\ CacheMax \in Nat
  BY FS_CardinalityType, PathsAssumption DEF WaysOK
<1>6. IsFiniteSet(keys) /\ Cardinality(keys) \in Nat /\ Cardinality(keys) < CacheMax
  <2>1. IsFiniteSet(keys) /\ Cardinality(keys) \in Nat /\ Cardinality(keys) <= Cardinality(DOMAIN ways)
    BY <1>1, <1>5, FS_Subset, FS_CardinalityType
  <2>2. CASE Cardinality(DOMAIN ways) < CacheMax
    BY <1>5, <2>1, <2>2
  <2>3. CASE ~(Cardinality(DOMAIN ways) < CacheMax)
    <3>1. PICK k \in DOMAIN ways : keys = DOMAIN ways \ {k}
      BY <1>1, <2>3
    <3>2. Cardinality(keys) = Cardinality(DOMAIN ways) - 1
      BY <1>5, <3>1, FS_RemoveElement
    <3> QED BY <1>5, <2>1, <3>2
  <2> QED BY <2>2, <2>3
<1>7. IsFiniteSet(keys \cup {key}) /\ Cardinality(keys \cup {key}) <= CacheMax
  <2>1. IsFiniteSet(keys \cup {key}) /\ Cardinality(keys \cup {key}) = IF key \in keys THEN Cardinality(keys) ELSE Cardinality(keys) + 1
    BY <1>6, FS_AddElement
  <2> QED BY <1>5, <1>6, <2>1
<1>8. ways' = [k \in DOMAIN ways' |-> ways'[k]]
  BY <1>1, <1>2
<1> QED BY <1>2, <1>4, <1>7, <1>8 DEF WaysOK

(* What a search ends with.                                                *)
LEMMA SearchIs ==
    ASSUME PathsInv, search # NoSearch
    PROVE  /\ search.mob \in Hunters /\ From(search.mob) \in Field /\ Goal(search.mob) \in Field
           /\ Goal(search.mob) # From(search.mob)
           /\ Sound0(From(search.mob), Goal(search.mob), blocked, search)
<1>1. Searching /\ search.mob \in Hunters
  BY DEF PathsInv, SearchOK, Searching, OutsideOK
<1>2. From(search.mob) \in Field /\ Goal(search.mob) \in Field
  BY <1>1, SeenIs DEF PathsInv
<1> QED BY <1>1, <1>2 DEF Searching

LEMMA ReachesOK ==
    ASSUME PathsInv, search # NoSearch, NEW n \in search.open, Reaches(n)
    PROVE  PathsInv'
<1>1. PICK from \in Field, goal \in Field, m \in Hunters :
         m = search.mob /\ from = From(m) /\ goal = Goal(m) /\ goal # from /\ Sound0(from, goal, blocked, search)
  BY SearchIs
<1>2. PICK cost, came : cost = search.cost /\ came = search.came
  OBVIOUS
<1>3. PICK way : way = Reconstructed(came, from, goal)
  OBVIOUS
<1>4. /\ n.cell = goal /\ Serves(m, way) /\ ways' \in Kept(CacheKey(from, goal), way)
      /\ UNCHANGED <<blocked, spot>>
  BY <1>1, <1>2, <1>3 DEF Reaches
<1>5. goal \in DOMAIN cost /\ Leads(from, cost, came)
  BY <1>1, <1>2, <1>4 DEF Sound0, HeapOK
<1>6. way \in Seq(Field) /\ Len(way) > 0 /\ way[Len(way)] = goal
  BY <1>1, <1>3, <1>5, WayTyped
<1>7. OutsideOK' /\ SearchOK'
  BY <1>4, <1>6, ServesTyped DEF PathsInv
<1>8. CacheKey(from, goal)[2] = ChunkAt(goal)
  BY DEF CacheKey
<1>9. WaysOK'
  BY <1>4, <1>6, <1>8, KeptOK DEF PathsInv
<1> QED BY <1>7, <1>9 DEF PathsInv

LEMMA GiveUpOK ==
    ASSUME PathsInv, GiveUp
    PROVE  PathsInv'
<1>1. PICK m \in Hunters : m = search.mob /\ Serves(m, <<Goal(m)>>) /\ UNCHANGED <<blocked, spot, ways>>
  BY SearchIs DEF GiveUp
<1>2. <<Goal(m)>> \in Seq(Field)
  BY SeenIs, GoalIsWay DEF PathsInv
<1>3. OutsideOK' /\ SearchOK'
  BY <1>1, <1>2, ServesTyped DEF PathsInv
<1>4. WaysOK'
  BY <1>1 DEF PathsInv, WaysOK
<1> QED BY <1>3, <1>4 DEF PathsInv

LEMMA AltersOK ==
    ASSUME PathsInv, NEW c \in Field, Alters(c)
    PROVE  PathsInv' /\ (search # NoSearch => search' # NoSearch)
<1>1. blocked' \subseteq Field /\ UNCHANGED <<spot, route, pathing, ways>>
  BY DEF Alters, PathsInv, OutsideOK
<1>2. OutsideOK' /\ WaysOK'
  BY <1>1 DEF PathsInv, OutsideOK, WaysOK
<1>3. CASE search = NoSearch
  BY <1>2, <1>3 DEF Alters, PathsInv, SearchOK
<1>4. CASE search # NoSearch
  <2>1. PICK from, goal : from = From(search.mob) /\ goal = Goal(search.mob)
    OBVIOUS
  <2>2. Sound0(from, goal, blocked, search) /\ search.mob \in pathing.todo /\ goal # from
    BY <1>4, <2>1 DEF PathsInv, SearchOK, Searching
  <2>3. search' = [search EXCEPT !.clean = FALSE]
    BY <1>4 DEF Alters
  <2>4. PICK s : s = search'
    OBVIOUS
  <2>5. /\ s.mob = search.mob /\ s.open = search.open /\ s.clean = FALSE /\ s.cost = search.cost /\ s.came = search.came
        /\ s = [mob |-> s.mob, open |-> s.open, clean |-> s.clean, cost |-> s.cost, came |-> s.came]
    BY <2>2, <2>3, <2>4 DEF Sound0
  <2>6. PICK walls : walls = blocked'
    OBVIOUS
  <2>7. Sound0(from, goal, walls, s)
    BY <2>2, <2>5 DEF Sound0
  <2>8. Searching'
    BY <1>1, <2>1, <2>2, <2>4, <2>5, <2>6, <2>7 DEF Searching, From, Goal
  <2>9. search' # NoSearch
    BY <2>4, <2>5, NoSearchIs
  <2> QED BY <1>2, <2>8, <2>9 DEF PathsInv, SearchOK
<1> QED BY <1>3, <1>4

LEMMA PreyMovesOK ==
    ASSUME PathsInv, NEW c \in Field, NEW p \in Hunted, PreyMoves(p, c)
    PROVE  PathsInv'
<1>1. OutsideOK'
  BY DEF PreyMoves, PathsInv, OutsideOK, Everyone
<1>2. WaysOK' /\ SearchOK'
  BY DEF PreyMoves, PathsInv, WaysOK, SearchOK, Searching, From, Goal
<1> QED BY <1>1, <1>2 DEF PathsInv

LEMMA TowardsStays ==
    ASSUME NEW N \in Nat, NEW a \in 0..N, NEW b \in 0..N
    PROVE  Towards(a, b) \subseteq 0..N
<1>1. a < b => a + 1 \in 0..N
  OBVIOUS
<1>2. a > b => a - 1 \in 0..N
  OBVIOUS
<1> QED BY <1>1, <1>2 DEF Towards

LEMMA LeftIs ==
    ASSUME OutsideOK, NEW m \in Hunters
    PROVE  Left(m) \in Seq(Field)
<1>1. PICK way \in Seq(Field) : way = route[m]
  BY DEF OutsideOK
<1>2. PICK ahead : ahead = {k \in DOMAIN route[m] : \A j \in 1..k : route[m][j] = spot[m]}
                   /\ Left(m) = SubSeq(route[m], Cardinality(ahead) + 1, Len(route[m]))
  BY DEF Left
<1>3. Cardinality(ahead) \in Nat
  <2>1. DOMAIN route[m] = 1..Len(way) /\ Len(way) \in Nat
    BY <1>1
  <2>2. IsFiniteSet(1..Len(way))
    <3>1. 1 \in Int /\ Len(way) \in Int
      BY <2>1
    <3> QED BY <3>1, FS_Interval
  <2>3. ahead \subseteq 1..Len(way)
    BY <1>2, <2>1
  <2> QED BY <2>2, <2>3, FS_Subset, FS_CardinalityType
<1>4. PICK k \in Nat : k = Cardinality(ahead) + 1 /\ k > 0
  BY <1>3
<1>5. SubSeq(way, k, Len(way)) \in Seq(Field)
  BY <1>4
<1> QED BY <1>1, <1>2, <1>4, <1>5

LEMMA FollowOK ==
    ASSUME PathsInv, NEW m \in Hunters, Follow(m)
    PROVE  PathsInv'
<1>1. PICK left \in Seq(Field) : left = Left(m)
  BY LeftIs DEF PathsInv
<1>2. PICK next : next = (IF left # <<>> THEN left[1] ELSE spot[Prey[m]])
  OBVIOUS
<1>3. next \in Field /\ spot[m] \in Field
  <2>1. left # <<>> => left[1] \in Field
    BY <1>1
  <2>2. spot[Prey[m]] \in Field /\ spot[m] \in Field
    BY SeenIs DEF PathsInv, OutsideOK
  <2> QED BY <1>2, <2>1, <2>2
<1>4. route' = [route EXCEPT ![m] = left] /\ UNCHANGED <<blocked, pathing, search, ways>>
  BY <1>1 DEF Follow
<1>5. PICK x \in Towards(spot[m][1], next[1]), z \in Towards(spot[m][2], next[2]) : spot' = [spot EXCEPT ![m] = <<x, z>>]
  BY <1>1, <1>2 DEF Follow
<1>6. x \in 0..FieldX /\ z \in 0..FieldZ
  <2>1. /\ spot[m][1] \in 0..FieldX /\ next[1] \in 0..FieldX /\ FieldX \in Nat
        /\ spot[m][2] \in 0..FieldZ /\ next[2] \in 0..FieldZ /\ FieldZ \in Nat
    BY <1>3, FieldIs
  <2>2. Towards(spot[m][1], next[1]) \subseteq 0..FieldX /\ Towards(spot[m][2], next[2]) \subseteq 0..FieldZ
    BY <2>1, TowardsStays
  <2> QED BY <1>5, <2>2
<1>7. <<x, z>> \in Field
  BY <1>6 DEF Field
<1>8. OutsideOK'
  BY <1>4, <1>5, <1>7 DEF PathsInv, OutsideOK
<1>9. WaysOK' /\ SearchOK'
  BY <1>4 DEF PathsInv, WaysOK, SearchOK, Searching, From, Goal
<1> QED BY <1>8, <1>9 DEF PathsInv

LEMMA PathsStep ==
    ASSUME PathsInv, [PathsNext]_paths_vars
    PROVE  PathsInv'
<1>1. CASE UNCHANGED paths_vars
  BY <1>1 DEF paths_vars, PathsInv, OutsideOK, WaysOK, SearchOK, Searching, From, Goal
<1>2. CASE BeginPathing \/ GiveUp
  BY <1>2, BeginPathingOK, GiveUpOK
<1>3. CASE \E m \in Hunters : GoStraight(m) \/ FromCache(m) \/ BeginSearch(m) \/ Follow(m)
  BY <1>3, GoStraightOK, FromCacheOK, BeginSearchOK, FollowOK
<1>4. CASE search # NoSearch /\ \E n \in search.open : Expand(n) \/ Reaches(n)
  BY <1>4, ExpandOK, ReachesOK
<1>5. CASE \E c \in Field : Alters(c) \/ \E p \in Hunted : PreyMoves(p, c)
  BY <1>5, AltersOK, PreyMovesOK
<1> QED BY <1>1, <1>2, <1>3, <1>4, <1>5 DEF PathsNext

(* What a mob that is served by a search, with nothing walls meanwhile, is *)
(* given.                                                                  *)
Served ==
    LET m == search.mob
    IN IF Goal(m) \in Within(From(m))[Cardinality(Field)]
       THEN ShortestWalk(route'[m], From(m), Goal(m)) ELSE route'[m] = <<Goal(m)>>

LEMMA ReachesShortest ==
    ASSUME PathsInv, search # NoSearch, NEW n \in search.open, Reaches(n), search.clean
    PROVE  Served
<1>1. PICK from \in Field, goal \in Field, m \in Hunters :
         m = search.mob /\ from = From(m) /\ goal = Goal(m) /\ goal # from /\ Sound0(from, goal, blocked, search)
  BY SearchIs
<1>2. PICK walls \in SUBSET Field : walls = blocked
  BY DEF PathsInv, OutsideOK
<1>3. PICK cost, came, open, ball :
         cost = search.cost /\ came = search.came /\ open = search.open /\ ball = Within(from)
  OBVIOUS
<1>4. /\ Leads(from, cost, came) /\ HeapOK(goal, open, cost) /\ Walkable(from, walls, cost)
      /\ Frontier(walls, goal, open, cost) /\ Grows(walls, from, ball)
  BY <1>1, <1>2, <1>3, WithinGrows DEF Sound0
<1>5. PICK way : way = Reconstructed(came, from, goal)
  OBVIOUS
<1>6. n.cell = goal /\ Serves(m, way) /\ n \in open /\ \A o \in open : n.f <= o.f
  BY <1>1, <1>2, <1>5, <1>3 DEF Reaches, Cheapest
<1>7. goal \in DOMAIN cost /\ cost[goal] \in Nat
  BY <1>4, <1>6 DEF HeapOK, Leads
<1>8. \A o \in open : cost[goal] <= o.f /\ o.f \in Nat
  <2>1. cost[goal] <= n.f /\ n.f \in Nat
    <3>1. n.f \in Nat /\ cost[goal] + Heuristic(goal, goal) <= n.f /\ Heuristic(goal, goal) = 0
      BY <1>4, <1>6, HeuristicIs DEF HeapOK
    <3> QED BY <1>7, <3>1
  <2> SUFFICES ASSUME NEW o \in open PROVE cost[goal] <= o.f /\ o.f \in Nat
    OBVIOUS
  <2>2. n.f <= o.f /\ o.f \in Nat
    BY <1>4, <1>6 DEF HeapOK
  <2> QED BY <1>7, <2>1, <2>2
<1>9. PICK N \in Nat : N = Cardinality(Field)
  BY FieldIs
<1>10. way \in Seq(Field) /\ Len(way) > 0 /\ way[Len(way)] = goal
  BY <1>1, <1>4, <1>5, <1>7, WayTyped
<1>11. /\ Len(way) \in 1..N /\ Len(way) <= cost[goal] /\ way[1] \in Neighbours(from)
       /\ \A k \in DOMAIN way : way[k] \in Field \ walls /\ (k > 1 => way[k] \in Neighbours(way[k - 1]))
       /\ goal \in ball[Len(way)]
  BY <1>1, <1>4, <1>5, <1>7, <1>9, WayIsWalk
<1>12. goal \notin ball[Len(way) - 1]
  <2>1. PICK l \in 0..N : l = Len(way) - 1
    <3>1. Len(way) - 1 \in 0..N
      BY <1>9, <1>11
    <3> QED BY <3>1
  <2>2. l < cost[goal] /\ l \in 0..l
    <3>1. l \in Nat /\ l < Len(way) /\ Len(way) \in Nat
      BY <1>9, <1>11, <2>1
    <3> QED BY <1>7, <1>11, <3>1
  <2>3. \A o \in open : l < o.f
    BY <1>7, <1>8, <2>1, <2>2
  <2>4. Heuristic(goal, goal) = 0 /\ l + 0 <= l
    BY <2>1, <2>2, HeuristicIs
  <2>5. ASSUME goal \in ball[l] PROVE cost[goal] <= l
    BY <1>4, <1>9, <2>1, <2>3, <2>4, <2>5, <2>2, ScoresAreLeast
  <2>6. ~(cost[goal] <= l)
    BY <1>7, <2>1, <2>2
  <2> QED BY <2>1, <2>5, <2>6
<1>13. goal \in ball[N]
  <2>1. N \in 0..Cardinality(Field) /\ Len(way) \in 0..N
    BY <1>9, <1>11
  <2> QED BY <1>4, <1>11, <2>1, BallsNest
<1>14. route'[m] = way
  BY <1>6 DEF Serves, PathsInv, OutsideOK
<1>15. ShortestWalk(way, from, goal)
  BY <1>2, <1>10, <1>11, <1>12, <1>3 DEF ShortestWalk, Passable
<1> QED BY <1>1, <1>2, <1>9, <1>13, <1>14, <1>15, <1>3 DEF Served

LEMMA GiveUpMeansNone ==
    ASSUME PathsInv, GiveUp, search.clean
    PROVE  Served
<1>1. search # NoSearch /\ search.open = {}
  BY DEF GiveUp
<1>2. PICK from \in Field, goal \in Field, m \in Hunters :
         m = search.mob /\ from = From(m) /\ goal = Goal(m) /\ goal # from /\ Sound0(from, goal, blocked, search)
  BY <1>1, SearchIs
<1>3. PICK walls \in SUBSET Field : walls = blocked
  BY DEF PathsInv, OutsideOK
<1>4. PICK cost, came, ball : cost = search.cost /\ came = search.came /\ ball = Within(from)
  OBVIOUS
<1>5. /\ Leads(from, cost, came) /\ HeapOK(goal, {}, cost)
      /\ Frontier(walls, goal, {}, cost) /\ Grows(walls, from, ball)
  BY <1>1, <1>2, <1>3, <1>4, WithinGrows DEF Sound0
<1>6. goal \notin DOMAIN cost
  BY <1>5 DEF HeapOK
<1>7. Cardinality(Field) \in 0..Cardinality(Field)
  BY FieldIs
<1>8. goal \notin ball[Cardinality(Field)]
  BY <1>5, <1>6, <1>7, AllIsFound
<1>9. route'[m] = <<goal>>
  BY <1>2 DEF GiveUp, Serves, PathsInv, OutsideOK
<1> QED BY <1>2, <1>3, <1>8, <1>9, <1>4 DEF Served

LEMMA SearchesServe ==
    ASSUME PathsInv, [PathsNext]_paths_vars, search # NoSearch, search' = NoSearch, search.clean
    PROVE  Served
<1>1. CASE GiveUp
  BY <1>1, GiveUpMeansNone
<1>2. CASE \E n \in search.open : Reaches(n)
  BY <1>2, ReachesShortest
<1>3. ~\E n \in search.open : Expand(n)
  BY ExpandOK
<1>4. ~\E c \in Field : Alters(c)
  BY AltersOK
<1>5. ~UNCHANGED paths_vars /\ ~BeginPathing /\ ~\E c \in Field, p \in Hunted : PreyMoves(p, c)
  BY DEF paths_vars, BeginPathing, PreyMoves
<1>6. ~\E m \in Hunters : GoStraight(m) \/ FromCache(m) \/ BeginSearch(m) \/ Follow(m)
  BY DEF GoStraight, FromCache, BeginSearch, Follow
<1> QED BY <1>1, <1>2, <1>3, <1>4, <1>5, <1>6 DEF PathsNext

LEMMA PathsTyped == PathsInv => PathsTypeOK
  BY DEF PathsInv, OutsideOK, WaysOK, WayOK, PathsTypeOK

(* Paths are found, kept and walked for columns that are loaded: every     *)
(* variable of the path finding has its type, the cache stays within       *)
(* CACHE_MAX, and a kept path ends in the chunk it is kept for.            *)
THEOREM PathsTypeCorrect == PathsSpec => []PathsTypeOK
<1>1. PathsInit => PathsInv
  BY PathsStart
<1>2. PathsInv /\ [PathsNext]_paths_vars => PathsInv'
  BY PathsStep
<1>3. PathsInv => PathsTypeOK
  BY PathsTyped
<1> QED BY <1>1, <1>2, <1>3, PTL DEF PathsSpec

(* A search that nobody walls into gives the mob a shortest walk round the *)
(* blocks, and only sends it straight on when there is none, however       *)
(* BinaryHeap orders its equals.                                           *)
THEOREM SearchesAreShortest == PathsSpec => PathsShortest
<1>1. PathsInit => PathsInv
  BY PathsStart
<1>2. PathsInv /\ [PathsNext]_paths_vars => PathsInv'
  BY PathsStep
<1>3. PathsInv /\ [PathsNext]_paths_vars =>
        [search # NoSearch /\ search' = NoSearch /\ search.clean => Served]_paths_vars
  BY SearchesServe
<1>4. ASSUME PathsInv, [PathsNext]_paths_vars
      PROVE  [search # NoSearch /\ search' = NoSearch /\ search.clean =>
               LET m == search.mob
               IN IF Goal(m) \in Within(From(m))[Cardinality(Field)]
                  THEN ShortestWalk(route'[m], From(m), Goal(m)) ELSE route'[m] = <<Goal(m)>>]_paths_vars
  BY <1>3, <1>4 DEF Served
<1> QED BY <1>1, <1>2, <1>4, PTL DEF PathsSpec, PathsShortest

-----------------------------------------------------------------------------
(* Lighting: the glow a set of sources accounts for                        *)

ChunkSections == {SectionOf(y) : y \in 0..Height - 1}
ChunkLand == [block : [Cell -> Kinds], sections : SUBSET ChunkSections,
              sky : [Cell -> 0..MaxLight], glow : [Cell -> 0..MaxLight]]
Given == Row \X Cell \X (1..MaxLight)
Accounted(src, cell, level) == \E s \in src : level <= s[3] - Apart(s[2], cell)
GlowOK(src, glow) == \A cell \in Cell : glow[cell] > 0 => Accounted(src, cell, glow[cell])
SourcesIn(src, cells) ==
    \A cell \in Cell : Emission(cells[cell]) > 0 => \E s \in src : s[2] = cell /\ s[3] = Emission(cells[cell])
LitBy(src, k) == k \in ChunkLand /\ GlowOK(src, k.glow) /\ SourcesIn(src, k.block)
Queued(src) == {node \in Cell \X (1..MaxLight) : Accounted(src, node[1], node[2])}
Floods(src) ==
    {r \in [glow : [Cell -> 0..MaxLight], seen : SUBSET Cell, queue : Seq(Queued(src))] : GlowOK(src, r.glow)}

LEMMA SizesAre ==
    /\ Width \in Nat /\ Height \in Nat /\ SectionHeight \in Nat /\ MaxLight \in Nat
    /\ Width > 0 /\ Height > 0 /\ SectionHeight > 0 /\ MaxLight > 0
    /\ Width * Height \in Nat
<1>1. /\ Width \in Nat /\ Height \in Nat /\ SectionHeight \in Nat /\ MaxLight \in Nat
      /\ Width > 0 /\ Height > 0 /\ SectionHeight > 0 /\ MaxLight > 0
  BY LightingAssumption
<1> QED BY <1>1

LEMMA CellIs ==
    ASSUME NEW cell \in Cell
    PROVE  cell = <<cell[1], cell[2]>> /\ cell[1] \in 0..Width - 1 /\ cell[2] \in 0..Height - 1
  BY DEF Cell

LEMMA EmissionIs ==
    ASSUME NEW kind
    PROVE  Emission(kind) \in 0..MaxLight
  BY SizesAre DEF Emission

(* One step further a light loses at most one more.                        *)
LEMMA OneFurther ==
    ASSUME NEW from \in Cell, NEW x \in 0..Width - 1, NEW y \in 0..Height - 1,
           NEW cell \in Cell, cell \in {<<x - 1, y>>, <<x + 1, y>>, <<x, y - 1>>, <<x, y + 1>>}
    PROVE  /\ Apart(from, <<x, y>>) \in Nat /\ Apart(from, cell) \in Nat
           /\ Apart(from, cell) <= Apart(from, <<x, y>>) + 1
<1>1. PICK a \in 0..Width - 1, b \in 0..Height - 1 : from = <<a, b>> /\ from[1] = a /\ from[2] = b
  BY CellIs
<1>2. PICK u \in 0..Width - 1, v \in 0..Height - 1 : cell = <<u, v>> /\ cell[1] = u /\ cell[2] = v
  BY CellIs
<1>3. (u = x - 1 /\ v = y) \/ (u = x + 1 /\ v = y) \/ (u = x /\ v = y - 1) \/ (u = x /\ v = y + 1)
  BY <1>2
<1>4. /\ Apart(from, <<x, y>>) = (IF a < x THEN x - a ELSE a - x) + (IF b < y THEN y - b ELSE b - y)
      /\ Apart(from, cell) = (IF a < u THEN u - a ELSE a - u) + (IF b < v THEN v - b ELSE b - v)
  BY <1>1, <1>2 DEF Apart
<1> QED BY <1>3, <1>4, SizesAre

LEMMA ApartSelf ==
    ASSUME NEW cell \in Cell
    PROVE  Apart(cell, cell) = 0
<1>1. PICK x \in 0..Width - 1, y \in 0..Height - 1 : cell = <<x, y>> /\ cell[1] = x /\ cell[2] = y
  BY CellIs
<1> QED BY <1>1, SizesAre DEF Apart

LEMMA AccountedFurther ==
    ASSUME NEW src \in SUBSET Given, NEW node \in Queued(src), node[2] > 1,
           NEW x, NEW y, x = node[1][1], y = node[1][2],
           NEW cell \in Cell, cell \in {<<x - 1, y>>, <<x + 1, y>>, <<x, y - 1>>, <<x, y + 1>>}
    PROVE  node[2] - 1 \in 1..MaxLight /\ Accounted(src, cell, node[2] - 1)
<1>1. PICK level \in 1..MaxLight : level = node[2]
  BY DEF Queued
<1>2. node[1] \in Cell /\ node[1] = <<x, y>> /\ x \in 0..Width - 1 /\ y \in 0..Height - 1
  BY CellIs DEF Queued
<1>3. PICK s \in src : level <= s[3] - Apart(s[2], <<x, y>>)
  BY <1>1, <1>2 DEF Queued, Accounted
<1>4. s[2] \in Cell /\ s[3] \in 1..MaxLight
  BY DEF Given
<1>5. PICK near \in Nat, far \in Nat : near = Apart(s[2], <<x, y>>) /\ far = Apart(s[2], cell) /\ far <= near + 1
  BY <1>2, <1>4, OneFurther
<1>6. level - 1 \in 1..MaxLight /\ level - 1 <= s[3] - far
  BY <1>1, <1>3, <1>4, <1>5, SizesAre
<1> QED BY <1>1, <1>5, <1>6 DEF Accounted

LEMMA MoreSources ==
    ASSUME NEW src, NEW more, src \subseteq more, NEW k, LitBy(src, k)
    PROVE  LitBy(more, k)
  BY DEF LitBy, GlowOK, Accounted, SourcesIn

-----------------------------------------------------------------------------
(* Lighting: the flood                                                     *)

LEMMA LightKeeps ==
    ASSUME NEW src \in SUBSET Given, NEW k, NEW level \in 1..MaxLight, NEW r \in Floods(src), NEW cell,
           cell \in Cell => Accounted(src, cell, level)
    PROVE  Light(k, level, r, cell) \in Floods(src)
<1>1. CASE cell \notin Cell \ r.seen
  BY <1>1 DEF Light
<1>2. CASE cell \in Cell \ r.seen
  <2>1. PICK reached : reached = [r EXCEPT !.seen = @ \cup {cell}]
    OBVIOUS
  <2>2. /\ r.glow \in [Cell -> 0..MaxLight] /\ r.queue \in Seq(Queued(src)) /\ GlowOK(src, r.glow)
        /\ r \in [glow : [Cell -> 0..MaxLight], seen : SUBSET Cell, queue : Seq(Queued(src))]
    BY DEF Floods
  <2>3. reached \in Floods(src) /\ reached.glow = r.glow /\ reached.queue = r.queue
    BY <1>2, <2>1, <2>2 DEF Floods
  <2>4. PICK glow, queue : glow = [r.glow EXCEPT ![cell] = level] /\ queue = Append(r.queue, <<cell, level>>)
    OBVIOUS
  <2>5. glow \in [Cell -> 0..MaxLight] /\ GlowOK(src, glow)
    <3>1. level \in 0..MaxLight /\ level > 0
      BY SizesAre
    <3>2. glow \in [Cell -> 0..MaxLight]
      BY <2>2, <2>4, <3>1
    <3>3. ASSUME NEW d \in Cell, glow[d] > 0 PROVE Accounted(src, d, glow[d])
      <4>1. CASE d = cell
        BY <1>2, <2>2, <2>4, <4>1
      <4>2. CASE d # cell
        BY <2>2, <2>4, <3>3, <4>2 DEF GlowOK
      <4> QED BY <4>1, <4>2
    <3> QED BY <3>2, <3>3 DEF GlowOK
  <2>6. queue \in Seq(Queued(src))
    <3>1. <<cell, level>> \in Queued(src)
      BY <1>2 DEF Queued
    <3> QED BY <2>2, <2>4, <3>1
  <2>7. PICK lit : lit = [reached EXCEPT !.glow[cell] = level, !.queue = Append(@, <<cell, level>>)]
    OBVIOUS
  <2>8. reached \in [glow : [Cell -> 0..MaxLight], seen : SUBSET Cell, queue : Seq(Queued(src))]
    BY <2>3 DEF Floods
  <2>9. lit = [glow |-> glow, seen |-> reached.seen, queue |-> queue]
    BY <2>3, <2>4, <2>7, <2>8
  <2>10. lit \in Floods(src)
    BY <2>5, <2>6, <2>8, <2>9 DEF Floods
  <2>11. Light(k, level, r, cell) \in {reached, lit}
    BY <1>2, <2>1, <2>7 DEF Light
  <2> QED BY <2>3, <2>10, <2>11
<1> QED BY <1>1, <1>2

LEMMA WaveKeeps ==
    ASSUME NEW src \in SUBSET Given, NEW k, NEW r \in Floods(src)
    PROVE  Wave(k, r) \in Floods(src)
<1>1. CASE r.queue = <<>>
  BY <1>1 DEF Wave
<1>2. CASE r.queue # <<>>
  <2>1. PICK node : node = Head(r.queue)
    OBVIOUS
  <2>2. PICK rest : rest = [r EXCEPT !.queue = Tail(@)]
    OBVIOUS
  <2>3. r.queue \in Seq(Queued(src)) /\ r \in [glow : [Cell -> 0..MaxLight], seen : SUBSET Cell, queue : Seq(Queued(src))]
    BY DEF Floods
  <2>4. node \in Queued(src) /\ Tail(r.queue) \in Seq(Queued(src))
    BY <1>2, <2>1, <2>3
  <2>5. rest \in Floods(src)
    BY <2>2, <2>3, <2>4 DEF Floods
  <2>6. CASE node[2] <= 1
    BY <1>2, <2>1, <2>2, <2>5, <2>6 DEF Wave
  <2>7. CASE ~(node[2] <= 1)
    <3>1. PICK x, y, level : x = node[1][1] /\ y = node[1][2] /\ level = node[2] - 1
      OBVIOUS
    <3>2. node[2] > 1 /\ level \in 1..MaxLight
      <4>1. node[2] \in 1..MaxLight
        BY <2>4 DEF Queued
      <4> QED BY <2>7, <3>1, <4>1, SizesAre
    <3>3. \A cell \in {<<x - 1, y>>, <<x + 1, y>>, <<x, y - 1>>, <<x, y + 1>>} :
             cell \in Cell => Accounted(src, cell, level)
      BY <2>4, <3>1, <3>2, AccountedFurther
    <3>4. PICK one : one = Light(k, level, rest, <<x - 1, y>>)
      OBVIOUS
    <3>5. PICK two : two = Light(k, level, one, <<x + 1, y>>)
      OBVIOUS
    <3>6. PICK three : three = Light(k, level, two, <<x, y - 1>>)
      OBVIOUS
    <3>7. one \in Floods(src)
      BY <2>5, <3>2, <3>3, <3>4, LightKeeps
    <3>8. two \in Floods(src)
      BY <3>2, <3>3, <3>5, <3>7, LightKeeps
    <3>9. three \in Floods(src)
      BY <3>2, <3>3, <3>6, <3>8, LightKeeps
    <3>10. Light(k, level, three, <<x, y + 1>>) \in Floods(src)
      BY <3>2, <3>3, <3>9, LightKeeps
    <3>11. Wave(k, r) = Light(k, level, three, <<x, y + 1>>)
      BY <1>2, <2>1, <2>2, <2>7, <3>1, <3>4, <3>5, <3>6 DEF Wave, NextLevel
    <3> QED BY <3>10, <3>11
  <2> QED BY <2>6, <2>7
<1> QED BY <1>1, <1>2

LEMMA FloodKeeps ==
    ASSUME NEW src \in SUBSET Given, NEW k, NEW r \in Floods(src)
    PROVE  Flood(k, r) \in [Cell -> 0..MaxLight] /\ GlowOK(src, Flood(k, r))
<1>1. PICK N \in Nat : N = Width * Height
  BY SizesAre
<1>2. PICK V, S, G : V = Floods(src) /\ S = 0..N /\ G = [n \in Nat |-> [q \in V |-> Wave(k, q)]]
  OBVIOUS
<1>3. r \in V /\ G \in [Nat -> [V -> V]] /\ S \in SUBSET Nat /\ 0 \in S /\ \A i \in S \ {0} : i - 1 \in S
  <2>1. r \in V /\ G \in [Nat -> [V -> V]]
    BY <1>2, WaveKeeps
  <2>2. S \in SUBSET Nat /\ 0 \in S /\ \A i \in S \ {0} : i - 1 \in S
    BY <1>1, <1>2
  <2> QED BY <2>1, <2>2
<1>4. /\ \E f \in [S -> V] : Proceeds(f, G, r, S)
      /\ \A f : Heeds(f, G, r, S, V) => f \in [S -> V] /\ Proceeds(f, G, r, S)
  BY <1>3, Recursive
<1> DEFINE Eq(f) == f = [n \in 0..Width * Height |-> IF n = 0 THEN r ELSE Wave(k, f[n - 1])]
<1>5. PICK f \in [S -> V] : f[0] = r /\ \A i \in S \ {0} : f[i] = G[i][f[i - 1]]
  BY <1>4 DEF Proceeds
<1>6. Eq(f)
  <2>1. ASSUME NEW n \in S, n # 0 PROVE f[n] = Wave(k, f[n - 1])
    <3>1. n - 1 \in S /\ f[n - 1] \in V /\ n \in Nat
      BY <1>3, <1>5, <2>1
    <3> QED BY <1>2, <1>5, <2>1, <3>1
  <2> QED BY <1>1, <1>2, <1>5, <2>1
<1>7. PICK waves : Eq(waves) /\ Flood(k, r) = waves[Width * Height].glow
  <2>1. PICK w : w = CHOOSE g : Eq(g)
    OBVIOUS
  <2>2. Flood(k, r) = w[Width * Height].glow
    BY <2>1 DEF Flood
  <2>3. \E g : Eq(g)
    BY <1>6
  <2> HIDE DEF Eq
  <2> QED BY <2>1, <2>2, <2>3
<1>8. Heeds(waves, G, r, S, V)
  <2>1. waves = [n \in S |-> waves[n]] /\ waves[0] = r
    BY <1>1, <1>2, <1>7
  <2>2. ASSUME NEW n \in S \ {0}, waves[n - 1] \in V PROVE waves[n] = G[n][waves[n - 1]]
    <3>1. waves[n] = Wave(k, waves[n - 1])
      BY <1>1, <1>2, <1>7, <2>2
    <3>2. n \in Nat
      BY <1>3
    <3> QED BY <1>2, <2>2, <3>1, <3>2
  <2> QED BY <2>1, <2>2 DEF Heeds
<1>9. waves \in [S -> V]
  BY <1>4, <1>8
<1>10. N \in S
  BY <1>1, <1>2
<1>11. waves[N] \in Floods(src)
  BY <1>2, <1>9, <1>10
<1> QED BY <1>1, <1>7, <1>11 DEF Floods

LEMMA SeedsAre ==
    ASSUME NEW src \in SUBSET Given, NEW k, LitBy(src, k)
    PROVE  Seeds(k) \in Seq(Queued(src))
<1>1. PICK N \in Nat : N = Width * Height
  BY SizesAre
<1> DEFINE Seeded(n, q) ==
      IF Scanned(n) \in SourceCells(k) THEN Append(q, <<Scanned(n), Emission(k.block[Scanned(n)])>>) ELSE q
<1>2. \A n, q : q \in Seq(Queued(src)) => Seeded(n, q) \in Seq(Queued(src))
  <2> SUFFICES ASSUME NEW n, NEW q \in Seq(Queued(src)) PROVE Seeded(n, q) \in Seq(Queued(src))
    OBVIOUS
  <2>1. CASE Scanned(n) \in SourceCells(k)
    <3>1. PICK cell \in Cell : cell = Scanned(n) /\ Emission(k.block[cell]) > 0
      BY <2>1 DEF SourceCells
    <3>2. PICK level \in 1..MaxLight : level = Emission(k.block[cell])
      BY <3>1, EmissionIs, SizesAre
    <3>3. PICK s \in src : s[2] = cell /\ s[3] = level
      BY <3>1, <3>2 DEF LitBy, SourcesIn
    <3>4. Accounted(src, cell, level)
      <4>1. Apart(cell, cell) = 0 /\ level <= level - 0
        BY ApartSelf, SizesAre
      <4> QED BY <3>3, <4>1 DEF Accounted
    <3>5. <<cell, level>> \in Queued(src)
      BY <3>4 DEF Queued
    <3>6. Seeded(n, q) = Append(q, <<cell, level>>)
      BY <2>1, <3>1, <3>2
    <3> QED BY <3>5, <3>6
  <2>2. CASE Scanned(n) \notin SourceCells(k)
    BY <2>2
  <2> QED BY <2>1, <2>2
<1> HIDE DEF Seeded
<1>3. PICK V, one, S, G : V = Seq(Queued(src)) /\ one = <<>> /\ S = 0..N /\ G = [n \in Nat |-> [q \in V |-> Seeded(n, q)]]
  OBVIOUS
<1>4. one \in V /\ G \in [Nat -> [V -> V]] /\ S \in SUBSET Nat /\ 0 \in S /\ \A i \in S \ {0} : i - 1 \in S
  <2>1. one \in V
    BY <1>3
  <2>2. G \in [Nat -> [V -> V]]
    BY <1>2, <1>3
  <2>3. S \in SUBSET Nat /\ 0 \in S /\ \A i \in S \ {0} : i - 1 \in S
    BY <1>1, <1>3
  <2> QED BY <2>1, <2>2, <2>3
<1>5. /\ \E f \in [S -> V] : Proceeds(f, G, one, S)
      /\ \A f : Heeds(f, G, one, S, V) => f \in [S -> V] /\ Proceeds(f, G, one, S)
  BY <1>4, Recursive
<1> DEFINE Eq(f) == f = [n \in 0..Width * Height |-> IF n = 0 THEN <<>> ELSE Seeded(n, f[n - 1])]
<1>6. PICK f \in [S -> V] : f[0] = one /\ \A i \in S \ {0} : f[i] = G[i][f[i - 1]]
  BY <1>5 DEF Proceeds
<1>7. Eq(f)
  <2>1. ASSUME NEW n \in S, n # 0 PROVE f[n] = Seeded(n, f[n - 1])
    <3>1. n - 1 \in S /\ f[n - 1] \in V /\ n \in Nat
      BY <1>4, <1>6, <2>1
    <3> QED BY <1>3, <1>6, <2>1, <3>1
  <2> QED BY <1>1, <1>3, <1>6, <2>1
<1>8. PICK seeds : Eq(seeds) /\ Seeds(k) = seeds[Width * Height]
  <2>1. PICK w : w = CHOOSE g : Eq(g)
    OBVIOUS
  <2>2. Seeds(k) = w[Width * Height]
    BY <2>1 DEF Seeds, Seeded
  <2>3. \E g : Eq(g)
    BY <1>7
  <2> HIDE DEF Eq
  <2> QED BY <2>1, <2>2, <2>3
<1>9. Heeds(seeds, G, one, S, V)
  <2>1. seeds = [n \in S |-> seeds[n]] /\ seeds[0] = one
    BY <1>1, <1>3, <1>8
  <2>2. ASSUME NEW n \in S \ {0}, seeds[n - 1] \in V PROVE seeds[n] = G[n][seeds[n - 1]]
    <3>1. seeds[n] = Seeded(n, seeds[n - 1])
      BY <1>1, <1>3, <1>8, <2>2
    <3>2. n \in Nat
      BY <1>4
    <3> QED BY <1>3, <2>2, <3>1, <3>2
  <2> QED BY <2>1, <2>2 DEF Heeds
<1>10. seeds \in [S -> V] /\ N \in S
  <2>1. seeds \in [S -> V]
    BY <1>5, <1>9
  <2>2. N \in S
    BY <1>1, <1>3
  <2> QED BY <2>1, <2>2
<1> QED BY <1>1, <1>3, <1>8, <1>10

(* A flood keeps to what the sources account for, and touches no block.    *)
LEMMA PropagateKeeps ==
    ASSUME NEW src \in SUBSET Given, NEW k, LitBy(src, k)
    PROVE  LitBy(src, PropagateBlockLight(k)) /\ PropagateBlockLight(k).block = k.block
<1>1. PICK r : r = [glow |-> k.glow, seen |-> SourceCells(k), queue |-> Seeds(k)]
  OBVIOUS
<1>2. SourceCells(k) \in SUBSET Cell
  BY DEF SourceCells
<1>3. r.glow = k.glow /\ GlowOK(src, r.glow) /\ r \in [glow : [Cell -> 0..MaxLight], seen : SUBSET Cell, queue : Seq(Queued(src))]
  BY <1>1, <1>2, SeedsAre DEF LitBy, ChunkLand
<1>4. r \in Floods(src)
  BY <1>3 DEF Floods
<1>5. PICK glow : glow = Flood(k, r) /\ glow \in [Cell -> 0..MaxLight] /\ GlowOK(src, glow)
  BY <1>4, FloodKeeps
<1>6. PropagateBlockLight(k) = [k EXCEPT !.glow = glow]
  BY <1>1, <1>5 DEF PropagateBlockLight
<1> QED BY <1>5, <1>6 DEF LitBy, ChunkLand

-----------------------------------------------------------------------------
(* Lighting: the sky, and the handlers                                     *)

SameButSky(k, l) ==
    /\ k \in ChunkLand => l \in ChunkLand
    /\ l.block = k.block /\ l.glow = k.glow

LEMMA SkyKeeps ==
    ASSUME NEW src, NEW k, LitBy(src, k), NEW l, SameButSky(k, l)
    PROVE  LitBy(src, l) /\ l.block = k.block
  BY DEF LitBy, SameButSky

LEMMA SetSkyIs ==
    ASSUME NEW k \in ChunkLand, NEW x, NEW value, NEW ys, \A y \in ys : value[y] \in 0..MaxLight
    PROVE  SameButSky(k, SetSky(k, x, value, ys))
<1>1. PICK sky : sky = [cell \in Cell |-> IF cell[1] = x /\ cell[2] \in ys \cap Column(k, x) THEN value[cell[2]] ELSE k.sky[cell]]
  OBVIOUS
<1>2. sky \in [Cell -> 0..MaxLight]
  BY <1>1 DEF ChunkLand
<1>3. SetSky(k, x, value, ys) = [k EXCEPT !.sky = sky]
  BY <1>1 DEF SetSky
<1> QED BY <1>2, <1>3 DEF SameButSky, ChunkLand

LEMMA TopmostThere ==
    ASSUME NEW ys \in SUBSET (0..Height - 1), ys # {}
    PROVE  Topmost(ys) \in ys
<1>1. PICK down : down = {n \in Nat : \E v \in ys : n = Height - v}
  OBVIOUS
<1>2. \A v \in ys : v \in Nat /\ Height - v \in Nat
  BY SizesAre
<1>3. down \in SUBSET Nat /\ down # {}
  BY <1>1, <1>2
<1>4. PICK n \in down : \A m \in down : ~(m < n)
  BY <1>3, NoneBad
<1>5. PICK v \in ys : n = Height - v
  BY <1>1
<1>6. \A u \in ys : u <= v
  <2> SUFFICES ASSUME NEW u \in ys PROVE u <= v
    OBVIOUS
  <2>1. Height - u \in down
    BY <1>1, <1>2
  <2>2. ~(Height - u < Height - v)
    BY <1>4, <1>5, <2>1
  <2> QED BY <1>2, <2>2, SizesAre
<1> QED BY <1>6 DEF Topmost

LEMMA RemoveKeeps ==
    ASSUME NEW k \in ChunkLand, NEW x \in 0..Width - 1, NEW y \in 0..Height - 1
    PROVE  SameButSky(k, RecalcOnRemove(k, x, y))
<1>1. PICK roof : roof = OpaqueIn(k, x, (y + 1)..(Height - 1))
  OBVIOUS
<1>2. PICK first : first = (IF roof = {} THEN MaxLight ELSE Minus1(k.sky[<<x, Topmost(roof)>>]))
  OBVIOUS
<1>3. PICK passed : passed = [v \in y..(Height - 1) |-> Cardinality(OpaqueIn(k, x, y..(v - 1)))]
  OBVIOUS
<1>4. PICK value, ys : value = [v \in y..(Height - 1) |-> IF passed[v] < first THEN first - passed[v] ELSE 0]
                       /\ ys = {v \in y..(Height - 1) : passed[v] = 0 \/ passed[v] < first}
  OBVIOUS
<1>5. first \in 0..MaxLight
  <2>1. CASE roof = {}
    BY <1>2, <2>1, SizesAre
  <2>2. CASE roof # {}
    <3>1. roof \subseteq 0..Height - 1
      BY <1>1, SizesAre DEF OpaqueIn, Column
    <3>2. Topmost(roof) \in 0..Height - 1
      BY <2>2, <3>1, TopmostThere
    <3>3. PICK level \in 0..MaxLight : level = k.sky[<<x, Topmost(roof)>>]
      BY <3>2 DEF ChunkLand, Cell
    <3> QED BY <1>2, <2>2, <3>3, SizesAre DEF Minus1
  <2> QED BY <2>1, <2>2
<1>6. ASSUME NEW v \in y..(Height - 1) PROVE passed[v] \in Nat
  <2>1. IsFiniteSet(y..(v - 1))
    BY SizesAre, FS_Interval
  <2>2. OpaqueIn(k, x, y..(v - 1)) \subseteq y..(v - 1)
    BY DEF OpaqueIn
  <2> QED BY <1>3, <2>1, <2>2, FS_Subset, FS_CardinalityType
<1>7. ASSUME NEW v \in ys PROVE value[v] \in 0..MaxLight
  <2>1. v \in y..(Height - 1) /\ value[v] = IF passed[v] < first THEN first - passed[v] ELSE 0
    BY <1>4
  <2> QED BY <1>5, <1>6, <2>1, SizesAre
<1>8. RecalcOnRemove(k, x, y) = SetSky(k, x, value, ys)
  BY <1>1, <1>2, <1>3, <1>4 DEF RecalcOnRemove
<1> QED BY <1>7, <1>8, SetSkyIs

LEMMA PlaceKeeps ==
    ASSUME NEW k \in ChunkLand, NEW x, NEW y
    PROVE  SameButSky(k, RecalcOnPlace(k, x, y))
<1>1. PICK value, ys : value = [v \in y..(Height - 1) |-> 0]
                       /\ ys = {v \in y..(Height - 1) : OpaqueIn(k, x, (y + 1)..(v - 1)) = {}}
  OBVIOUS
<1>2. \A v \in ys : value[v] \in 0..MaxLight
  BY <1>1, SizesAre
<1>3. RecalcOnPlace(k, x, y) = SetSky(k, x, value, ys)
  BY <1>1 DEF RecalcOnPlace
<1> QED BY <1>2, <1>3, SetSkyIs

(* The sources of a chunk.                                                 *)
Of(c) == {s \in sources : s[1] = c}
LandsOK == \A c \in Row : LitBy(Of(c), land[c])
PacketsOK ==
    \A c \in Row : \A sent \in packet[c] : sent.block = land[c].block /\ (c \in relit \/ sent = Shows(c))
BuildersOK ==
    /\ land = [c \in Row |-> land[c]] /\ packet = [c \in Row |-> packet[c]]
    /\ holder \in [{ShardOf[c] : c \in Row} -> SUBSET Builders]
    /\ builder \in [Builders -> [stage : Stages0, c : Row, cell : Cell, remove : BOOLEAN]]
    /\ relit \in SUBSET Row /\ sources \in SUBSET Given /\ builds \in 0..MaxBuilds
LightingInv == BuildersOK /\ LandsOK /\ PacketsOK

LEMMA IdleIs == Idle0 \in [stage : Stages0, c : Row, cell : Cell, remove : BOOLEAN]
<1>1. (CHOOSE c \in Row : TRUE) \in Row
  BY LightingAssumption
<1>2. <<0, 0>> \in Cell
  BY SizesAre DEF Cell
<1> QED BY <1>1, <1>2 DEF Idle0, Stages0

LEMMA SectionThere ==
    ASSUME NEW y \in 0..Height - 1
    PROVE  SectionOf(y) \in ChunkSections
  BY DEF ChunkSections

LEMMA LightingStart == LightingInit => LightingInv
<1> SUFFICES ASSUME LightingInit PROVE LightingInv
  OBVIOUS
<1>1. 0 \in ChunkSections
  <2>1. 0 \in 0..Height - 1 /\ SectionOf(0) = 0
    BY SizesAre DEF SectionOf
  <2> QED BY <2>1, SectionThere
<1>2. PICK flat : flat = Flat({0})
  OBVIOUS
<1>3. flat \in ChunkLand /\ \A cell \in Cell : flat.block[cell] = "air" /\ flat.glow[cell] = 0
  BY <1>1, <1>2, SizesAre DEF Flat, ChunkLand, Kinds
<1>4. Emission("air") = 0
  BY DEF Emission
<1>5. LitBy({}, flat)
  BY <1>3, <1>4 DEF LitBy, GlowOK, SourcesIn
<1>6. LandsOK
  <2>1. ASSUME NEW c \in Row PROVE LitBy(Of(c), land[c])
    <3>1. land[c] = flat /\ Of(c) = {}
      BY <1>2 DEF LightingInit, Of
    <3> QED BY <1>5, <3>1
  <2> QED BY <2>1 DEF LandsOK
<1>7. BuildersOK
  <2>1. builder \in [Builders -> [stage : Stages0, c : Row, cell : Cell, remove : BOOLEAN]]
    BY IdleIs DEF LightingInit
  <2>2. builds \in 0..MaxBuilds
    BY LightingAssumption DEF LightingInit
  <2> QED BY <2>1, <2>2 DEF LightingInit, BuildersOK
<1>8. PacketsOK
  BY DEF LightingInit, PacketsOK
<1> QED BY <1>6, <1>7, <1>8 DEF LightingInv

(* What a change of one block leaves of the chunk before its light.        *)
LEMMA SetBlockKeeps ==
    ASSUME NEW src, NEW k, LitBy(src, k), NEW cell \in Cell, NEW kind \in Kinds, NEW c, NEW more,
           more = src \cup (IF Emission(kind) > 0 THEN {<<c, cell, Emission(kind)>>} ELSE {})
    PROVE  LitBy(more, SetBlockIn(k, cell, kind))
<1>1. PICK l : l = SetBlockIn(k, cell, kind)
  OBVIOUS
<1>2. PICK cells, sections : cells = [k.block EXCEPT ![cell] = kind] /\ sections = k.sections \cup {SectionOf(cell[2])}
  OBVIOUS
<1>3. l = [k EXCEPT !.block = cells, !.sections = sections] /\ k \in ChunkLand
  BY <1>1, <1>2 DEF SetBlockIn, LitBy
<1>4. cells \in [Cell -> Kinds] /\ sections \in SUBSET ChunkSections
  BY <1>2, <1>3, CellIs, SectionThere DEF ChunkLand
<1>5. l \in ChunkLand /\ l.block = cells /\ l.glow = k.glow
  BY <1>3, <1>4 DEF ChunkLand
<1>6. GlowOK(more, l.glow)
  BY <1>5 DEF LitBy, GlowOK, Accounted
<1>7. SourcesIn(more, cells)
  <2> SUFFICES ASSUME NEW d \in Cell, Emission(cells[d]) > 0
               PROVE  \E s \in more : s[2] = d /\ s[3] = Emission(cells[d])
    BY DEF SourcesIn
  <2>1. CASE d = cell
    <3>1. cells[d] = kind
      BY <1>2, <1>3, <2>1 DEF ChunkLand
    <3>2. <<c, cell, Emission(kind)>> \in more
      BY <3>1
    <3> QED BY <2>1, <3>1, <3>2
  <2>2. CASE d # cell
    <3>1. cells[d] = k.block[d]
      BY <1>2, <1>3, <2>2 DEF ChunkLand
    <3> QED BY <3>1 DEF LitBy, SourcesIn
  <2> QED BY <2>1, <2>2
<1> QED BY <1>1, <1>5, <1>6, <1>7 DEF LitBy

LEMMA BuildOK ==
    ASSUME LightingInv, NEW p \in Builders, NEW c \in Row, NEW cell \in Cell, NEW kind \in Kinds, NEW lit,
           SameButSky(SetBlockIn(land[c], cell, kind), lit), Build(p, c, cell, kind, lit)
    PROVE  LightingInv'
<1>1. PICK more : more = (IF Emission(kind) > 0 THEN {<<c, cell, Emission(kind)>>} ELSE {}) /\ sources' = sources \cup more
  BY DEF Build
<1>2. more \subseteq Given
  <2>1. Emission(kind) > 0 => Emission(kind) \in 1..MaxLight
    BY EmissionIs, SizesAre
  <2> QED BY <1>1, <2>1 DEF Given
<1>3. Of(c)' = Of(c) \cup more /\ \A d \in Row : Of(d) \subseteq Of(d)'
  BY <1>1 DEF Of
<1>4. PICK src \in SUBSET Given : src = Of(c)'
  BY <1>1, <1>2 DEF LightingInv, BuildersOK, Of
<1>5. LitBy(src, SetBlockIn(land[c], cell, kind))
  BY <1>1, <1>3, <1>4, SetBlockKeeps DEF LightingInv, LandsOK
<1>6. LitBy(src, lit)
  BY <1>5, SkyKeeps
<1>7. PICK now : now = PropagateBlockLight(lit) /\ LitBy(src, now)
  BY <1>6, PropagateKeeps
<1>8. land' = [land EXCEPT ![c] = now] /\ land = [d \in Row |-> land[d]]
  BY <1>7 DEF Build, LightingInv, BuildersOK
<1>9. LandsOK'
  <2>1. ASSUME NEW d \in Row PROVE LitBy(Of(d)', land'[d])
    <3>1. CASE d = c
      BY <1>4, <1>7, <1>8, <3>1
    <3>2. CASE d # c
      <4>1. land'[d] = land[d] /\ LitBy(Of(d), land[d])
        BY <1>8, <3>2 DEF LightingInv, LandsOK
      <4> QED BY <1>3, <4>1, MoreSources
    <3> QED BY <3>1, <3>2
  <2> QED BY <2>1 DEF LandsOK
<1>10. PacketsOK'
  <2>1. ASSUME NEW d \in Row, NEW sent \in packet'[d]
        PROVE  sent.block = land'[d].block /\ (d \in relit' \/ sent = Shows(d)')
    <3>1. packet' = [packet EXCEPT ![c] = {}] /\ packet = [e \in Row |-> packet[e]] /\ relit' = relit \ {c}
      BY DEF Build, LightingInv, BuildersOK
    <3>2. d # c /\ packet'[d] = packet[d]
      BY <2>1, <3>1
    <3>3. land'[d] = land[d]
      BY <1>8, <3>2
    <3>4. sent.block = land[d].block /\ (d \in relit \/ sent = Shows(d))
      BY <2>1, <3>2 DEF LightingInv, PacketsOK
    <3> QED BY <3>1, <3>2, <3>3, <3>4 DEF Shows
  <2> QED BY <2>1 DEF PacketsOK
<1>11. BuildersOK'
  <2>1. land' = [d \in Row |-> land'[d]] /\ packet' = [d \in Row |-> packet'[d]]
    BY <1>8 DEF Build, LightingInv, BuildersOK
  <2>2. holder' \in [{ShardOf[d] : d \in Row} -> SUBSET Builders]
    BY DEF Build, LightingInv, BuildersOK
  <2>3. builder' \in [Builders -> [stage : Stages0, c : Row, cell : Cell, remove : BOOLEAN]]
    <3>1. [stage |-> "sending", c |-> c, cell |-> cell, remove |-> kind = "air"]
             \in [stage : Stages0, c : Row, cell : Cell, remove : BOOLEAN]
      BY DEF Stages0
    <3> QED BY <3>1 DEF Build, LightingInv, BuildersOK
  <2>4. builds' \in 0..MaxBuilds
    BY LightingAssumption DEF Build, LightingInv, BuildersOK
  <2>5. relit' \in SUBSET Row /\ sources' \in SUBSET Given
    BY <1>1, <1>2 DEF Build, LightingInv, BuildersOK
  <2> QED BY <2>1, <2>2, <2>3, <2>4, <2>5 DEF BuildersOK
<1> QED BY <1>9, <1>10, <1>11 DEF LightingInv

LEMMA ChangedIs ==
    ASSUME LightingInv, NEW c \in Row, NEW cell \in Cell, NEW kind \in Kinds
    PROVE  /\ SetBlockIn(land[c], cell, kind) \in ChunkLand
           /\ cell[1] \in 0..Width - 1 /\ cell[2] \in 0..Height - 1
<1>1. LitBy(Of(c), land[c])
  BY DEF LightingInv, LandsOK
<1>2. \E more : LitBy(more, SetBlockIn(land[c], cell, kind))
  BY <1>1, SetBlockKeeps
<1> QED BY <1>2, CellIs DEF LitBy

LEMMA BlockBreakOK ==
    ASSUME LightingInv, NEW p \in Builders, NEW c \in Row, NEW cell \in Cell, BlockBreak(p, c, cell)
    PROVE  LightingInv'
<1>1. "air" \in Kinds
  BY DEF Kinds
<1>2. SameButSky(SetBlockIn(land[c], cell, "air"), RecalcOnRemove(SetBlockIn(land[c], cell, "air"), cell[1], cell[2]))
  BY <1>1, ChangedIs, RemoveKeeps
<1> QED BY <1>1, <1>2, BuildOK DEF BlockBreak

LEMMA PlaceBlockOK ==
    ASSUME LightingInv, NEW p \in Builders, NEW c \in Row, NEW cell \in Cell, NEW kind \in Kinds, PlaceBlock(p, c, cell, kind)
    PROVE  LightingInv'
<1>1. PICK k : k = SetBlockIn(land[c], cell, kind)
  OBVIOUS
<1>2. PICK lit : lit = (IF Opaque(kind) THEN RecalcOnPlace(k, cell[1], cell[2]) ELSE k)
  OBVIOUS
<1>3. SameButSky(k, lit)
  <2>1. SameButSky(k, RecalcOnPlace(k, cell[1], cell[2]))
    BY <1>1, ChangedIs, PlaceKeeps
  <2>2. SameButSky(k, k)
    BY DEF SameButSky
  <2> QED BY <1>2, <2>1, <2>2
<1>4. Build(p, c, cell, kind, lit)
  BY <1>1, <1>2 DEF PlaceBlock
<1> QED BY <1>1, <1>3, <1>4, BuildOK

LEMMA CachedOK ==
    ASSUME LightingInv, NEW c \in Row, Cached(c), UNCHANGED <<land, holder, sources, builds>>,
           builder' \in [Builders -> [stage : Stages0, c : Row, cell : Cell, remove : BOOLEAN]]
    PROVE  LightingInv'
<1>1. /\ packet' = [packet EXCEPT ![c] = IF packet[c] = {} THEN {Shows(c)} ELSE packet[c]]
      /\ relit' = (IF packet[c] = {} THEN relit \ {c} ELSE relit)
      /\ packet = [d \in Row |-> packet[d]]
  BY DEF Cached, LightingInv, BuildersOK
<1>2. LandsOK'
  BY DEF LightingInv, LandsOK, Of
<1>3. BuildersOK'
  BY <1>1 DEF LightingInv, BuildersOK
<1>4. PacketsOK'
  <2>1. ASSUME NEW d \in Row, NEW sent \in packet'[d]
        PROVE  sent.block = land'[d].block /\ (d \in relit' \/ sent = Shows(d)')
    <3>1. Shows(d)' = Shows(d) /\ Shows(d).block = land[d].block /\ land' = land
      BY DEF Shows
    <3>2. CASE d = c /\ packet[c] = {}
      <4>1. sent = Shows(d)
        BY <1>1, <2>1, <3>2
      <4> QED BY <3>1, <4>1
    <3>3. CASE ~(d = c /\ packet[c] = {})
      <4>1. packet'[d] = packet[d] /\ (d \in relit => d \in relit')
        BY <1>1, <3>3
      <4>2. sent.block = land[d].block /\ (d \in relit \/ sent = Shows(d))
        BY <2>1, <4>1 DEF LightingInv, PacketsOK
      <4> QED BY <3>1, <4>1, <4>2
    <3> QED BY <3>2, <3>3
  <2> QED BY <2>1 DEF PacketsOK
<1> QED BY <1>2, <1>3, <1>4 DEF LightingInv

LEMMA SendOwnOK ==
    ASSUME LightingInv, NEW p \in Builders, SendOwn(p)
    PROVE  LightingInv'
<1>1. builder[p].c \in Row
  BY DEF LightingInv, BuildersOK
<1>2. builder' \in [Builders -> [stage : Stages0, c : Row, cell : Cell, remove : BOOLEAN]]
  BY DEF SendOwn, LightingInv, BuildersOK, Stages0
<1> QED BY <1>1, <1>2, CachedOK DEF SendOwn

LEMMA RelitKeeps ==
    ASSUME LightingInv, NEW p \in Builders, NEW n \in Row
    PROVE  LitBy(Of(n), Relit(p, n)) /\ Relit(p, n).block = land[n].block
<1>1. LitBy(Of(n), land[n]) /\ Of(n) \in SUBSET Given /\ land[n] \in ChunkLand
  BY DEF LightingInv, LandsOK, BuildersOK, Of, LitBy
<1>2. PICK x, y : x = FacingX(p, n) /\ y = builder[p].cell[2]
  OBVIOUS
<1>3. x \in 0..Width - 1 /\ y \in 0..Height - 1
  <2>1. builder[p].cell \in Cell
    BY DEF LightingInv, BuildersOK
  <2>2. y \in 0..Height - 1
    BY <1>2, <2>1, CellIs
  <2>3. x = Width - 1 \/ x = 0
    BY <1>2 DEF FacingX
  <2> QED BY <2>2, <2>3, SizesAre
<1>4. PICK l : l = (IF builder[p].remove THEN RecalcOnRemove(land[n], x, y) ELSE RecalcOnPlace(land[n], x, y))
  OBVIOUS
<1>5. SameButSky(land[n], l)
  BY <1>1, <1>3, <1>4, RemoveKeeps, PlaceKeeps
<1>6. LitBy(Of(n), l) /\ l.block = land[n].block
  BY <1>1, <1>5, SkyKeeps
<1>7. Relit(p, n) = PropagateBlockLight(l)
  BY <1>2, <1>4 DEF Relit
<1> QED BY <1>1, <1>6, <1>7, PropagateKeeps

LEMMA CrossOK ==
    ASSUME LightingInv, NEW p \in Builders, Cross(p)
    PROVE  LightingInv'
<1>1. PICK next \in SUBSET Row : next = NextDoor(p)
  BY DEF NextDoor
<1>2. /\ land' = [c \in Row |-> IF c \in next THEN Relit(p, c) ELSE land[c]]
      /\ relit' = relit \cup next /\ UNCHANGED <<packet, holder, sources, builds>>
      /\ builder' = [builder EXCEPT ![p].stage = "done"]
  BY <1>1 DEF Cross
<1>3. LandsOK'
  <2>1. ASSUME NEW c \in Row PROVE LitBy(Of(c)', land'[c])
    <3>1. Of(c)' = Of(c)
      BY <1>2 DEF Of
    <3>2. land'[c] = Relit(p, c) \/ land'[c] = land[c]
      BY <1>2
    <3> QED BY <3>1, <3>2, RelitKeeps DEF LightingInv, LandsOK
  <2> QED BY <2>1 DEF LandsOK
<1>4. PacketsOK'
  <2>1. ASSUME NEW d \in Row, NEW sent \in packet'[d]
        PROVE  sent.block = land'[d].block /\ (d \in relit' \/ sent = Shows(d)')
    <3>1. sent.block = land[d].block /\ (d \in relit \/ sent = Shows(d))
      BY <1>2, <2>1 DEF LightingInv, PacketsOK
    <3>2. CASE d \in next
      <4>1. land'[d] = Relit(p, d) /\ d \in relit'
        BY <1>2, <3>2
      <4> QED BY <3>1, <4>1, RelitKeeps
    <3>3. CASE d \notin next
      <4>1. land'[d] = land[d] /\ (d \in relit => d \in relit')
        BY <1>2, <3>3
      <4> QED BY <3>1, <4>1 DEF Shows
    <3> QED BY <3>2, <3>3
  <2> QED BY <2>1 DEF PacketsOK
<1>5. BuildersOK'
  BY <1>2 DEF LightingInv, BuildersOK, Stages0
<1> QED BY <1>3, <1>4, <1>5 DEF LightingInv

LEMMA EndBuildOK ==
    ASSUME LightingInv, NEW p \in Builders, EndBuild(p)
    PROVE  LightingInv'
<1>1. LandsOK'
  BY DEF EndBuild, LightingInv, LandsOK, Of
<1>2. PacketsOK'
  BY DEF EndBuild, LightingInv, PacketsOK, Shows
<1>3. BuildersOK'
  BY IdleIs DEF EndBuild, LightingInv, BuildersOK
<1> QED BY <1>1, <1>2, <1>3 DEF LightingInv

LEMMA LightingStep ==
    ASSUME LightingInv, [LightingNext]_lighting_vars
    PROVE  LightingInv'
<1>1. CASE UNCHANGED lighting_vars
  BY <1>1 DEF lighting_vars, LightingInv, LandsOK, PacketsOK, BuildersOK, Of, Shows
<1>2. CASE \E p \in Builders : Handler(p)
  BY <1>2, SendOwnOK, CrossOK, EndBuildOK DEF Handler
<1>3. CASE \E p \in Builders, c \in Row, cell \in Cell :
             BlockBreak(p, c, cell) \/ \E kind \in Kinds : PlaceBlock(p, c, cell, kind)
  BY <1>3, BlockBreakOK, PlaceBlockOK
<1>4. CASE \E c \in Row : Serve(c)
  <2>1. PICK c \in Row : Serve(c)
    BY <1>4
  <2>2. builder' = builder /\ UNCHANGED <<land, holder, sources, builds>> /\ Cached(c)
    BY <2>1 DEF Serve
  <2>3. builder' \in [Builders -> [stage : Stages0, c : Row, cell : Cell, remove : BOOLEAN]]
    BY <2>2 DEF LightingInv, BuildersOK
  <2> QED BY <2>2, <2>3, CachedOK
<1> QED BY <1>1, <1>2, <1>3, <1>4 DEF LightingNext

LEMMA LightingTyped == LightingInv => LightingTypeOK
<1> SUFFICES ASSUME LightingInv PROVE LightingTypeOK
  OBVIOUS
<1>1. \A c \in Row : land[c] \in ChunkLand
  BY DEF LightingInv, LandsOK, LitBy
<1>2. \A c \in Row : /\ land[c].block \in [Cell -> Kinds]
                     /\ land[c].sections \subseteq {SectionOf(y) : y \in 0..Height - 1}
                     /\ land[c].sky \in [Cell -> 0..MaxLight] /\ land[c].glow \in [Cell -> 0..MaxLight]
  BY <1>1 DEF ChunkLand, ChunkSections
<1>3. DOMAIN packet = Row /\ (\A s \in DOMAIN holder : holder[s] \subseteq Builders) /\ relit \subseteq Row /\ builds \in 0..MaxBuilds
  BY DEF LightingInv, BuildersOK
<1>4. \A p \in Builders : builder[p].stage \in Stages0 /\ builder[p].c \in Row /\ builder[p].cell \in Cell
  BY DEF LightingInv, BuildersOK
<1>5. \A s \in sources : s[1] \in Row /\ s[2] \in Cell /\ s[3] \in 1..MaxLight
  BY DEF LightingInv, BuildersOK, Given
<1> QED BY <1>2, <1>3, <1>4, <1>5 DEF LightingTypeOK

(* However many players build, break and light each other's chunks, a glow *)
(* is no more than a source of the chunk gave at that distance, and a      *)
(* packet that is kept shows the blocks as they are, and their light but   *)
(* for what came from next door since.                                     *)
THEOREM LightIsExplained == LightingSpec => []LightExplained
<1>1. LightingInv => LightExplained
  <2> SUFFICES ASSUME LightingInv PROVE LightExplained
    OBVIOUS
  <2>1. ASSUME NEW c \in Row, NEW cell \in Cell, land[c].glow[cell] > 0
        PROVE  \E s \in sources : s[1] = c /\ land[c].glow[cell] <= s[3] - Apart(s[2], cell)
    BY <2>1 DEF LightingInv, LandsOK, LitBy, GlowOK, Accounted, Of
  <2> QED BY <2>1 DEF LightingInv, PacketsOK, LightExplained
<1>2. LightingInv /\ [LightingNext]_lighting_vars => LightingInv'
  BY LightingStep
<1> QED BY <1>1, <1>2, LightingStart, PTL DEF LightingSpec

-----------------------------------------------------------------------------
(* The components beside each other                                        *)

blocks_vars == <<part, vars, column_vars, lighting_vars, terrain_vars, paths_vars>>
BlocksInv == TypeInv /\ ColumnInv /\ LightingInv /\ LandType /\ PathsInv

LEMMA BlocksStart == BlocksInit => BlocksInv
<1> SUFFICES ASSUME BlocksInit PROVE BlocksInv
  OBVIOUS
<1>1. Init /\ ColumnInit /\ LightingInit /\ TerrainInit /\ PathsInit
  BY DEF BlocksInit
<1> QED BY <1>1, TypeInit, Initially, LightingStart, LandTypeInit, PathsStart DEF BlocksInv

LEMMA BlocksStep == BlocksInv /\ [BlocksNext]_blocks_vars => BlocksInv'
<1> SUFFICES ASSUME BlocksInv, [BlocksNext]_blocks_vars PROVE BlocksInv'
  OBVIOUS
<1>1. /\ [Next]_vars /\ [ColumnNext]_column_vars /\ [LightingNext]_lighting_vars
      /\ [TerrainNext]_terrain_vars /\ [PathsNext]_paths_vars
  <2>1. CASE UNCHANGED blocks_vars
    BY <2>1 DEF blocks_vars
  <2>2. CASE BlocksNext
    BY <2>2 DEF BlocksNext, UpdatesMove, ColumnMoves, LightingMoves, TerrainMoves, PathsMove
  <2> QED BY <2>1, <2>2
<1>2. TypeInv' /\ ColumnInv'
  BY <1>1, TypeStep, ColumnSteps DEF BlocksInv
<1>3. LightingInv' /\ LandType' /\ PathsInv'
  BY <1>1, LightingStep, LandTypeStep, PathsStep DEF BlocksInv
<1> QED BY <1>2, <1>3 DEF BlocksInv

(* Every variable of the five components has its type, whichever of them   *)
(* moves, for every value of their constants.                              *)
THEOREM BlocksTypeCorrect == BlocksSpec => []BlocksTypeOK
<1>1. BlocksInv => BlocksTypeOK
  BY UpdatesTyped, ColumnTyped, LightingTyped, LandTyped, PathsTyped DEF BlocksInv, BlocksTypeOK
<1> QED BY <1>1, BlocksStart, BlocksStep, PTL DEF BlocksSpec, blocks_vars
=============================================================================
