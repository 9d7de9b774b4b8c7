-------------------------- MODULE ChunkStoreProofs --------------------------
(* Proofs about ChunkStore, for every set of positions and tasks and every *)
(* value of the bounds: that saved data survive, that the store is within  *)
(* its capacity when the inserts have settled, for any number of evictors, *)
(* and in which order one evictor takes chunks out.                        *)
EXTENDS MCChunkStore, FiniteSetTheorems, TLAPS

-----------------------------------------------------------------------------
(* Type correctness                                                        *)

LEMMA StampType ==
    ASSUME NEW p \in Pos, lru \in [Pos -> SUBSET Pos], Stamp(p)
    PROVE  lru' \in [Pos -> SUBSET Pos]
  BY DEF Stamp, Loaded

LEMMA ExcessType ==
    ASSUME count \in Int
    PROVE  Excess \in Nat
  <1>1. Current \in Int
    BY StoreAssumption DEF Current
  <1> QED
    BY <1>1, StoreAssumption DEF Excess

LEMMA LesserType ==
    ASSUME NEW a \in Nat, NEW b \in Nat
    PROVE  Lesser(a, b) \in Nat /\ a - Lesser(a, b) \in Nat
  BY DEF Lesser

LEMMA LoadedFinite ==
    /\ IsFiniteSet(Loaded) /\ Cardinality(Loaded) \in Nat
    /\ IsFiniteSet(Clean) /\ Cardinality(Clean) \in Nat
    /\ IsFiniteSet(Dirty) /\ Cardinality(Dirty) \in Nat
  <1>1. Loaded \subseteq Pos /\ Clean \subseteq Pos /\ Dirty \subseteq Pos
    BY DEF Loaded, Clean, Dirty
  <1> QED
    BY <1>1, StoreAssumption, FS_Subset, FS_CardinalityType

LEMMA ThreadsFinite ==
    /\ IsFiniteSet(Uncounted) /\ Cardinality(Uncounted) \in Nat
    /\ IsFiniteSet(Unsubtracted) /\ Cardinality(Unsubtracted) \in Nat
  <1>1. Uncounted \subseteq Threads /\ Unsubtracted \subseteq Threads
    BY DEF Uncounted, Unsubtracted
  <1> QED
    BY <1>1, StoreAssumption, FS_Subset, FS_CardinalityType

LEMMA ContentType ==
    ASSUME TypeOK, NEW p \in Pos
    PROVE  Content(p) \subseteq Edit
  BY DEF TypeOK, Content, Loaded, Chunk

LEMMA IdleType == Idle \in Thread
  BY DEF Idle, Thread, Stage

(* A step of one task leaves the table of tasks well typed.                *)
LEMMA BecomesType ==
    ASSUME TypeOK, NEW t \in Threads, NEW r \in Thread, Becomes(t, r)
    PROVE  thread' \in [Threads -> Thread]
  BY DEF TypeOK, Becomes

LEMMA ThreadType ==
    ASSUME TypeOK, NEW t \in Threads
    PROVE  /\ thread[t] \in Thread
           /\ thread[t].need \in Nat
           /\ thread[t].victims \subseteq Pos
           /\ thread[t].victim \in Pos \cup {NoChunk}
           /\ thread[t].held \subseteq Edit
           /\ thread[t].then \in {"evictClean", "clone"}
  BY DEF TypeOK, Thread

LEMMA RemoveType ==
    ASSUME TypeOK, NEW t \in Threads, NEW p \in Pos \cup {NoChunk},
           NEW after \in {"evictClean", "clone"}, Remove(t, p, after)
    PROVE  /\ chunks' \in [Pos -> Chunk \cup {NoChunk}]
           /\ lru' \in [Pos -> SUBSET Pos]
           /\ thread' \in [Threads -> Thread]
  <1> DEFINE r == [thread[t] EXCEPT
                     !.victims = @ \ {p},
                     !.victim = NoChunk,
                     !.held = {},
                     !.then = after,
                     !.stage = IF p \in Loaded THEN "uncount" ELSE after]
  <1>1. r \in Thread
    BY ThreadType DEF Thread, Stage
  <1>2. Becomes(t, r)
    BY DEF Remove
  <1>3. thread' \in [Threads -> Thread]
    BY <1>1, <1>2, BecomesType
  <1> QED
    BY <1>3 DEF Remove, Unstamp, TypeOK

LEMMA InsertSideType ==
    ASSUME TypeOK, NEW t \in Threads,
           \/ \E p \in Pos : InsertChunk(t, p)
           \/ CountInserted(t) \/ CheckCapacity(t)
    PROVE  TypeOK'
  <1>1. ASSUME NEW p \in Pos, InsertChunk(t, p)
        PROVE  TypeOK'
    <2>1. chunks' \in [Pos -> Chunk \cup {NoChunk}]
      BY <1>1 DEF InsertChunk, Chunk, TypeOK
    <2>2. lru' \in [Pos -> SUBSET Pos]
      BY <1>1, StampType DEF InsertChunk, TypeOK
    <2>3. [thread[t] EXCEPT !.stage = AfterInsert(p)] \in Thread
      BY ThreadType DEF AfterInsert, Thread, Stage
    <2>4. thread' \in [Threads -> Thread]
      BY <1>1, <2>3, BecomesType DEF InsertChunk
    <2>5. exposed' \in [Pos -> SUBSET Edit]
      BY <1>1, ContentType DEF InsertChunk, TypeOK
    <2> QED
      BY <1>1, <2>1, <2>2, <2>4, <2>5 DEF InsertChunk, TypeOK
  <1>2. CASE CountInserted(t)
    <2>1. [thread[t] EXCEPT !.stage = "check"] \in Thread
      BY ThreadType DEF Thread, Stage
    <2>2. thread' \in [Threads -> Thread]
      BY <1>2, <2>1, BecomesType DEF CountInserted
    <2> QED
      BY <1>2, <2>2 DEF CountInserted, TypeOK
  <1>3. CASE CheckCapacity(t)
    <2>1. [Idle EXCEPT !.stage = FirstPhase, !.need = Excess] \in Thread
      BY IdleType, ExcessType DEF Idle, FirstPhase, Thread, Stage, TypeOK
    <2>2. thread' \in [Threads -> Thread]
      BY <1>3, <2>1, IdleType, BecomesType DEF CheckCapacity
    <2> QED
      BY <1>3, <2>2 DEF CheckCapacity, TypeOK
  <1> QED
    BY <1>1, <1>2, <1>3

LEMMA CleanPhaseType ==
    ASSUME TypeOK, NEW t \in Threads,
           \/ PickClean(t) \/ EvictClean(t) \/ Uncount(t) \/ CleanPhaseDone(t)
    PROVE  TypeOK'
  <1>1. CASE PickClean(t)
    <2> DEFINE n == Lesser(thread[t].need, Cardinality(Clean))
    <2> DEFINE r == [thread[t] EXCEPT !.stage = "evictClean",
                                      !.victims = Oldest(Clean, n),
                                      !.need = @ - n]
    <2>1. thread[t].need - n \in Nat
      BY ThreadType, LesserType, LoadedFinite
    <2>2. Oldest(Clean, n) \subseteq Pos
      BY DEF Oldest, Clean, Loaded
    <2>3. Becomes(t, r)
      BY <1>1 DEF PickClean
    <2>4. r \in Thread
      <3> HIDE DEF n
      <3> QED
        BY <2>1, <2>2, ThreadType DEF Thread, Stage
    <2>5. thread' \in [Threads -> Thread]
      BY <2>3, <2>4, BecomesType
    <2> QED
      BY <1>1, <2>5 DEF PickClean, TypeOK
  <1>2. CASE EvictClean(t)
    BY <1>2, RemoveType, ThreadType DEF EvictClean, TypeOK
  <1>3. CASE Uncount(t)
    <2>1. [thread[t] EXCEPT !.stage = thread[t].then] \in Thread
      BY ThreadType DEF Thread, Stage
    <2>2. thread' \in [Threads -> Thread]
      BY <1>3, <2>1, BecomesType DEF Uncount
    <2> QED
      BY <1>3, <2>2 DEF Uncount, TypeOK
  <1>4. CASE CleanPhaseDone(t)
    <2>1. [thread[t] EXCEPT !.stage = "pickDirty"] \in Thread
      BY ThreadType DEF Thread, Stage
    <2>2. thread' \in [Threads -> Thread]
      BY <1>4, <2>1, IdleType, BecomesType DEF CleanPhaseDone
    <2> QED
      BY <1>4, <2>2 DEF CleanPhaseDone, TypeOK
  <1> QED
    BY <1>1, <1>2, <1>3, <1>4

LEMMA DirtyPhaseType ==
    ASSUME TypeOK, NEW t \in Threads,
           \/ PickDirty(t) \/ CloneVictim(t) \/ WriteVictim(t)
           \/ WriteVictimFails(t) \/ EvictDirty(t) \/ DirtyPhaseDone(t)
    PROVE  TypeOK'
  <1>1. CASE PickDirty(t)
    <2> DEFINE n == Lesser(thread[t].need, Cardinality(Dirty))
    <2> DEFINE r == [thread[t] EXCEPT !.stage = "clone",
                                      !.victims = Oldest(Dirty, n),
                                      !.need = 0]
    <2>1. Oldest(Dirty, n) \subseteq Pos
      BY DEF Oldest, Dirty, Loaded
    <2>2. Becomes(t, r)
      BY <1>1 DEF PickDirty
    <2>3. r \in Thread
      <3> HIDE DEF n
      <3> QED
        BY <2>1, ThreadType DEF Thread, Stage
    <2>4. thread' \in [Threads -> Thread]
      BY <2>2, <2>3, BecomesType
    <2> QED
      BY <1>1, <2>4 DEF PickDirty, TypeOK
  <1>2. CASE CloneVictim(t)
    <2> DEFINE r(p) == [thread[t] EXCEPT
            !.victim = p,
            !.held = Content(p),
            !.stage = IF p \in Loaded THEN "write" ELSE "evictDirty"]
    <2>1. PICK p \in Pos : Becomes(t, r(p))
      BY <1>2, ThreadType DEF CloneVictim
    <2>2. r(p) \in Thread
      BY ContentType, ThreadType DEF Thread, Stage
    <2>3. thread' \in [Threads -> Thread]
      BY <2>1, <2>2, BecomesType
    <2> QED
      BY <1>2, <2>3 DEF CloneVictim, TypeOK
  <1>3. CASE WriteVictim(t) \/ WriteVictimFails(t)
    <2>1. [thread[t] EXCEPT !.stage = "evictDirty"] \in Thread
      BY ThreadType DEF Thread, Stage
    <2>2. thread' \in [Threads -> Thread]
      BY <1>3, <2>1, BecomesType DEF WriteVictim, WriteVictimFails
    <2>3. thread[t].held \subseteq Edit /\ \A q \in Pos : disk[q] \subseteq Edit
      BY ThreadType DEF TypeOK
    <2>4. disk' \in [Pos -> SUBSET Edit]
      BY <1>3, <2>3 DEF WriteVictim, WriteVictimFails, TypeOK
    <2>5. exposed' \in [Pos -> SUBSET Edit]
      BY <1>3, <2>3 DEF WriteVictim, WriteVictimFails, TypeOK
    <2> QED
      BY <1>3, <2>2, <2>4, <2>5 DEF WriteVictim, WriteVictimFails, TypeOK
  <1>4. CASE EvictDirty(t)
    BY <1>4, RemoveType, ThreadType DEF EvictDirty, TypeOK
  <1>5. CASE DirtyPhaseDone(t)
    BY <1>5, IdleType, BecomesType DEF DirtyPhaseDone, TypeOK
  <1> QED
    BY <1>1, <1>2, <1>3, <1>4, <1>5

LEMMA OtherTasksType ==
    ASSUME TypeOK, NEW p \in Pos, SetBlock(p) \/ Unload(p)
    PROVE  TypeOK'
  <1>1. CASE SetBlock(p)
    <2>1. edits[p] + 1 \in Edit /\ edits[p] + 1 \in 0..MaxEdits
      BY <1>1, StoreAssumption DEF SetBlock, TypeOK, Edit
    <2>2. chunks[p].edits \subseteq Edit
      BY <1>1, ContentType DEF SetBlock, Content
    <2>3. chunks' \in [Pos -> Chunk \cup {NoChunk}]
      BY <1>1, <2>1, <2>2 DEF SetBlock, Chunk, TypeOK
    <2>4. lru' \in [Pos -> SUBSET Pos]
      BY <1>1 DEF SetBlock, Touch, Loaded, TypeOK
    <2>5. exposed' \in [Pos -> SUBSET Edit]
      BY <1>1, <2>1 DEF SetBlock, TypeOK
    <2> QED
      BY <1>1, <2>1, <2>3, <2>4, <2>5 DEF SetBlock, TypeOK
  <1>2. CASE Unload(p)
    <2>1. chunks[p].edits \subseteq Edit
      BY <1>2, ContentType DEF Unload, Content
    <2> QED
      BY <1>2, <2>1 DEF Unload, Unstamp, TypeOK
  <1> QED
    BY <1>1, <1>2

LEMMA TypeStep == TypeOK /\ [Next]_vars => TypeOK'
  <1> SUFFICES ASSUME TypeOK, [Next]_vars
               PROVE  TypeOK'
    OBVIOUS
  <1>1. CASE UNCHANGED vars
    BY <1>1 DEF vars, TypeOK
  <1>2. ASSUME NEW t \in Threads, Step(t)
        PROVE  TypeOK'
    BY <1>2, InsertSideType, CleanPhaseType, DirtyPhaseType DEF Step
  <1> QED
    BY <1>1, <1>2, OtherTasksType DEF Next

(* Every variable of the store keeps its type.                             *)
THEOREM TypeCorrect == Spec => []TypeOK
  <1>1. Init => TypeOK
    BY StoreAssumption, IdleType DEF Init, TypeOK
  <1> QED
    BY <1>1, TypeStep, PTL DEF Spec
-----------------------------------------------------------------------------
(* CountAccounting                                                         *)

(* What a step of task t does to the two sets of tasks that are between a  *)
(* map access and the counter access that goes with it.                    *)
LEMMA AtStage ==
    ASSUME TypeOK, NEW t \in Threads, NEW r, Becomes(t, r)
    PROVE  /\ Uncounted' = IF r.stage = "count" THEN Uncounted \cup {t}
                                                ELSE Uncounted \ {t}
           /\ Unsubtracted' = IF r.stage = "uncount" THEN Unsubtracted \cup {t}
                                                     ELSE Unsubtracted \ {t}
  BY DEF TypeOK, Becomes, Uncounted, Unsubtracted

LEMMA AddOne ==
    ASSUME NEW S, IsFiniteSet(S), NEW x
    PROVE  /\ x \notin S => Cardinality(S \cup {x}) = Cardinality(S) + 1
           /\ x \in S => Cardinality(S \cup {x}) = Cardinality(S)
           /\ x \in S => Cardinality(S \ {x}) = Cardinality(S) - 1
           /\ x \notin S => Cardinality(S \ {x}) = Cardinality(S)
  <1>1. x \in S => S \cup {x} = S
    OBVIOUS
  <1>2. x \notin S => S \ {x} = S
    OBVIOUS
  <1> QED
    BY <1>1, <1>2, FS_AddElement, FS_RemoveElement

(* A step of one task, told apart by the stage it leaves and enters and by *)
(* what it does to the map and to the counter.                             *)
LEMMA AccountingOfStep ==
    ASSUME TypeOK, CountAccounting, NEW t \in Threads, NEW r, Becomes(t, r),
           leaked' = leaked, NEW p,
           \/ /\ thread[t].stage \notin {"count", "uncount"}
              /\ r.stage \notin {"count", "uncount"}
              /\ Loaded' = Loaded /\ count' = count
           \/ /\ thread[t].stage \notin {"count", "uncount"}
              /\ r.stage = "count"
              /\ p \notin Loaded /\ Loaded' = Loaded \cup {p} /\ count' = count
           \/ /\ thread[t].stage = "count"
              /\ r.stage \notin {"count", "uncount"}
              /\ Loaded' = Loaded /\ count' = count + 1
           \/ /\ thread[t].stage \notin {"count", "uncount"}
              /\ r.stage = "uncount"
              /\ p \in Loaded /\ Loaded' = Loaded \ {p} /\ count' = count
           \/ /\ thread[t].stage = "uncount"
              /\ r.stage \notin {"count", "uncount"}
              /\ Loaded' = Loaded /\ count' = count - 1
    PROVE  CountAccounting'
  <1> DEFINE L == Cardinality(Loaded)
             U == Cardinality(Uncounted)
             S == Cardinality(Unsubtracted)
  <1>1. L \in Nat /\ U \in Nat /\ S \in Nat /\ count \in Int /\ leaked \in Nat
    BY LoadedFinite, ThreadsFinite DEF TypeOK
  <1>2. count + U = L + leaked + S
    BY DEF CountAccounting
  <1>3. /\ (t \in Uncounted) = (thread[t].stage = "count")
        /\ (t \in Unsubtracted) = (thread[t].stage = "uncount")
    BY DEF Uncounted, Unsubtracted
  <1>4. Cardinality(Uncounted') =
          IF r.stage = "count"
          THEN IF thread[t].stage = "count" THEN U ELSE U + 1
          ELSE IF thread[t].stage = "count" THEN U - 1 ELSE U
    <2>1. Uncounted' = IF r.stage = "count" THEN Uncounted \cup {t}
                                            ELSE Uncounted \ {t}
      BY AtStage
    <2>2. IsFiniteSet(Uncounted)
      BY ThreadsFinite
    <2> QED
      BY <1>3, <2>1, <2>2, AddOne
  <1>5. Cardinality(Unsubtracted') =
          IF r.stage = "uncount"
          THEN IF thread[t].stage = "uncount" THEN S ELSE S + 1
          ELSE IF thread[t].stage = "uncount" THEN S - 1 ELSE S
    <2>1. Unsubtracted' = IF r.stage = "uncount" THEN Unsubtracted \cup {t}
                                                 ELSE Unsubtracted \ {t}
      BY AtStage
    <2>2. IsFiniteSet(Unsubtracted)
      BY ThreadsFinite
    <2> QED
      BY <1>3, <2>1, <2>2, AddOne
  <1>6. /\ p \notin Loaded => Cardinality(Loaded \cup {p}) = L + 1
        /\ p \in Loaded => Cardinality(Loaded \ {p}) = L - 1
    BY AddOne, LoadedFinite
  <1>7. Cardinality(Loaded') =
          IF Loaded' = Loaded THEN L
          ELSE IF Loaded' = Loaded \cup {p} THEN L + 1 ELSE L - 1
    BY <1>6
  <1>8. /\ p \notin Loaded => Loaded \cup {p} # Loaded
        /\ p \in Loaded => Loaded \ {p} # Loaded \cup {p} /\ Loaded \ {p} # Loaded
    OBVIOUS
  <1> HIDE DEF L, U, S
  <1>9. count' + Cardinality(Uncounted')
          = Cardinality(Loaded') + leaked' + Cardinality(Unsubtracted')
    BY <1>1, <1>2, <1>4, <1>5, <1>7, <1>8
  <1> QED
    BY <1>9 DEF CountAccounting
LEMMA NoChunkNotChunk == NoChunk \notin Chunk
  BY StoreAssumption DEF Chunk, Edit

(* What the map's operations do to the set of loaded positions.            *)
LEMMA LoadedAfterInsert ==
    ASSUME TypeOK, NEW t \in Threads, NEW p \in Pos, InsertChunk(t, p)
    PROVE  Loaded' = Loaded \cup {p}
  <1>1. [edits |-> {}, dirty |-> FALSE] \in Chunk
    BY DEF Chunk
  <1>2. [edits |-> {}, dirty |-> FALSE] # NoChunk
    BY <1>1, NoChunkNotChunk
  <1> QED
    BY <1>2 DEF InsertChunk, Loaded, TypeOK

LEMMA LoadedAfterRemove ==
    ASSUME TypeOK, NEW t \in Threads, NEW p, NEW after, Remove(t, p, after)
    PROVE  Loaded' = Loaded \ {p}
  BY DEF Remove, Loaded, TypeOK

LEMMA LoadedAfterSetBlock ==
    ASSUME TypeOK, NEW p \in Pos, SetBlock(p)
    PROVE  Loaded' = Loaded
  <1>1. edits[p] + 1 \in Edit /\ chunks[p].edits \subseteq Edit
    BY StoreAssumption, ContentType DEF SetBlock, TypeOK, Edit, Content
  <1>2. [edits |-> chunks[p].edits \cup {edits[p] + 1}, dirty |-> TRUE] \in Chunk
    BY <1>1 DEF Chunk
  <1>3. [edits |-> chunks[p].edits \cup {edits[p] + 1}, dirty |-> TRUE] # NoChunk
    BY <1>2, NoChunkNotChunk
  <1> QED
    BY <1>3 DEF SetBlock, Loaded, TypeOK

LEMMA AccountingStep == TypeOK /\ CountAccounting /\ [Next]_vars => CountAccounting'
  <1> SUFFICES ASSUME TypeOK, CountAccounting, [Next]_vars
               PROVE  CountAccounting'
    OBVIOUS
  <1>1. CASE UNCHANGED vars
    BY <1>1 DEF vars, CountAccounting, Uncounted, Unsubtracted, Loaded
  <1>2. ASSUME NEW t \in Threads, NEW p \in Pos, InsertChunk(t, p)
        PROVE  CountAccounting'
    <2> DEFINE r == [thread[t] EXCEPT !.stage = AfterInsert(p)]
    <2>1. Becomes(t, r) /\ count' = count /\ leaked' = leaked
      BY <1>2 DEF InsertChunk
    <2>2. thread[t].stage = "idle" /\ r.stage = AfterInsert(p)
      BY <1>2, ThreadType DEF InsertChunk, Thread
    <2>3. Loaded' = Loaded \cup {p}
      BY <1>2, LoadedAfterInsert
    <2>4. p \in Loaded => Loaded' = Loaded
      BY <2>3
    <2> HIDE DEF r
    <2> QED
      BY <2>1, <2>2, <2>3, <2>4, AccountingOfStep DEF AfterInsert
  <1>3. ASSUME NEW t \in Threads, CountInserted(t)
        PROVE  CountAccounting'
    <2> DEFINE r == [thread[t] EXCEPT !.stage = "check"]
    <2>1. Becomes(t, r) /\ count' = count + 1 /\ leaked' = leaked /\ Loaded' = Loaded
      BY <1>3 DEF CountInserted, Loaded
    <2>2. thread[t].stage = "count" /\ r.stage = "check"
      BY <1>3, ThreadType DEF CountInserted, Thread
    <2> HIDE DEF r
    <2> QED
      BY <2>1, <2>2, AccountingOfStep
  <1>4. ASSUME NEW t \in Threads, CheckCapacity(t)
        PROVE  CountAccounting'
    <2> DEFINE r == IF Excess > 0
                    THEN [Idle EXCEPT !.stage = FirstPhase, !.need = Excess]
                    ELSE Idle
    <2>1. Becomes(t, r) /\ count' = count /\ leaked' = leaked /\ Loaded' = Loaded
      BY <1>4 DEF CheckCapacity, Loaded
    <2>2. thread[t].stage = "check" /\ r.stage \in {"idle", "pickClean"}
      BY <1>4 DEF CheckCapacity, Idle, FirstPhase
    <2> HIDE DEF r
    <2> QED
      BY <2>1, <2>2, AccountingOfStep
  <1>5. ASSUME NEW t \in Threads, Uncount(t)
        PROVE  CountAccounting'
    <2> DEFINE r == [thread[t] EXCEPT !.stage = thread[t].then]
    <2>1. Becomes(t, r) /\ count' = count - 1 /\ leaked' = leaked /\ Loaded' = Loaded
      BY <1>5 DEF Uncount, Loaded
    <2>2. thread[t].stage = "uncount" /\ r.stage \in {"evictClean", "clone"}
      BY <1>5, ThreadType DEF Uncount, Thread
    <2> HIDE DEF r
    <2> QED
      BY <2>1, <2>2, AccountingOfStep
  <1>6. ASSUME NEW t \in Threads, NEW p, NEW after \in {"evictClean", "clone"},
               thread[t].stage \in {"evictClean", "evictDirty"},
               Remove(t, p, after), count' = count, leaked' = leaked
        PROVE  CountAccounting'
    <2> DEFINE r == [thread[t] EXCEPT
                       !.victims = @ \ {p},
                       !.victim = NoChunk,
                       !.held = {},
                       !.then = after,
                       !.stage = IF p \in Loaded THEN "uncount" ELSE after]
    <2>1. Becomes(t, r)
      BY <1>6 DEF Remove
    <2>2. r.stage = IF p \in Loaded THEN "uncount" ELSE after
      BY ThreadType DEF Thread
    <2>3. Loaded' = Loaded \ {p}
      BY <1>6, LoadedAfterRemove
    <2>4. p \notin Loaded => Loaded' = Loaded
      BY <2>3
    <2> HIDE DEF r
    <2> QED
      BY <1>6, <2>1, <2>2, <2>3, <2>4, AccountingOfStep
  <1>7. ASSUME NEW t \in Threads, EvictClean(t)
        PROVE  CountAccounting'
    BY <1>6, <1>7 DEF EvictClean
  <1>8. ASSUME NEW t \in Threads, EvictDirty(t)
        PROVE  CountAccounting'
    BY <1>6, <1>8 DEF EvictDirty
  <1>9. ASSUME NEW t \in Threads,
               \/ PickClean(t) \/ CleanPhaseDone(t) \/ PickDirty(t)
               \/ CloneVictim(t) \/ WriteVictim(t) \/ WriteVictimFails(t)
               \/ DirtyPhaseDone(t)
        PROVE  CountAccounting'
    <2>1. /\ count' = count /\ leaked' = leaked /\ Loaded' = Loaded
          /\ thread[t].stage \notin {"count", "uncount"}
      BY <1>9 DEF PickClean, CleanPhaseDone, PickDirty, CloneVictim,
                  WriteVictim, WriteVictimFails, DirtyPhaseDone, Loaded
    <2>2. \E r : Becomes(t, r) /\ r.stage \notin {"count", "uncount"}
      <3>1. thread[t] \in Thread
        BY ThreadType
      <3>2. CASE PickClean(t)
        <4> DEFINE r == [thread[t] EXCEPT
                  !.stage = "evictClean",
                  !.victims = Oldest(Clean, Lesser(thread[t].need, Cardinality(Clean))),
                  !.need = @ - Lesser(thread[t].need, Cardinality(Clean))]
        <4>1. Becomes(t, r) /\ r.stage = "evictClean"
          BY <3>1, <3>2 DEF PickClean, Thread
        <4> QED
          BY <4>1
      <3>3. CASE CleanPhaseDone(t)
        BY <3>1, <3>3 DEF CleanPhaseDone, Thread, Idle
      <3>4. CASE PickDirty(t)
        <4> DEFINE r == [thread[t] EXCEPT
                  !.stage = "clone",
                  !.victims = Oldest(Dirty, Lesser(thread[t].need, Cardinality(Dirty))),
                  !.need = 0]
        <4>1. Becomes(t, r) /\ r.stage = "clone"
          BY <3>1, <3>4 DEF PickDirty, Thread
        <4> QED
          BY <4>1
      <3>5. CASE CloneVictim(t)
        <4>1. PICK p \in thread[t].victims :
                Becomes(t, [thread[t] EXCEPT
                    !.victim = p,
                    !.held = Content(p),
                    !.stage = IF p \in Loaded THEN "write" ELSE "evictDirty"])
          BY <3>5 DEF CloneVictim
        <4>2. [thread[t] EXCEPT
                 !.victim = p,
                 !.held = Content(p),
                 !.stage = IF p \in Loaded THEN "write" ELSE "evictDirty"].stage
                \in {"write", "evictDirty"}
          BY <3>1 DEF Thread
        <4> QED
          BY <4>1, <4>2
      <3>6. CASE WriteVictim(t) \/ WriteVictimFails(t)
        BY <3>1, <3>6 DEF WriteVictim, WriteVictimFails, Thread
      <3>7. CASE DirtyPhaseDone(t)
        BY <3>7 DEF DirtyPhaseDone, Idle
      <3> QED
        BY <1>9, <3>2, <3>3, <3>4, <3>5, <3>6, <3>7
    <2> QED
      BY <2>1, <2>2, AccountingOfStep
  <1>10. ASSUME NEW p \in Pos, SetBlock(p)
         PROVE  CountAccounting'
    BY <1>10, LoadedAfterSetBlock
       DEF SetBlock, CountAccounting, Uncounted, Unsubtracted
  <1>11. ASSUME NEW p \in Pos, Unload(p)
         PROVE  CountAccounting'
    <2>1. Loaded' = Loaded \ {p} /\ p \in Loaded
      BY <1>11 DEF Unload, Loaded, TypeOK
    <2>2. Cardinality(Loaded') = Cardinality(Loaded) - 1
      BY <2>1, AddOne, LoadedFinite
    <2>3. /\ Uncounted' = Uncounted /\ Unsubtracted' = Unsubtracted
          /\ count' = count /\ leaked' = leaked + 1
      BY <1>11 DEF Unload, Uncounted, Unsubtracted
    <2>4. /\ Cardinality(Loaded) \in Nat /\ Cardinality(Unsubtracted) \in Nat
          /\ leaked \in Nat
      BY LoadedFinite, ThreadsFinite DEF TypeOK
    <2> QED
      BY <2>2, <2>3, <2>4 DEF CountAccounting
  <1> QED
    BY <1>1, <1>2, <1>3, <1>4, <1>5, <1>7, <1>8, <1>9, <1>10, <1>11
       DEF Next, Step

(* The counter differs from the number of chunks in the map by exactly the *)
(* increments and decrements under way and the chunks `remove` leaked.     *)
THEOREM CounterIsAccountedFor == Spec => []CountAccounting
  <1>1. Init => CountAccounting
    <2> SUFFICES ASSUME Init
                 PROVE  CountAccounting
      OBVIOUS
    <2>1. Loaded = {} /\ Uncounted = {} /\ Unsubtracted = {}
      BY DEF Init, Loaded, Uncounted, Unsubtracted, Idle
    <2> QED
      BY <2>1, FS_EmptySet DEF Init, CountAccounting
  <1> QED
    BY <1>1, AccountingStep, TypeCorrect, PTL DEF Spec

-----------------------------------------------------------------------------
(* Where the edits are                                                     *)
(*                                                                         *)
(* EditsAccountedFor is not inductive: an evictor may be about to remove a *)
(* chunk.  The strengthening says what each evictor knows of its victims.  *)

(* p's edits that need no chunk in memory.                                 *)
Safe(p) == disk[p] \cup exposed[p]

(* A clean chunk is one nobody edited since it was inserted.               *)
CleanHoldsNoEdits == \A p \in Pos : p \in Clean => chunks[p].edits = {}

(* What a task whose record is r may assume of its victims.                *)
VictimsSafe(r) ==
    (r.stage = "evictClean" \/ (r.stage = "uncount" /\ r.then = "evictClean"))
        => \A p \in Pos : p \in r.victims => Content(p) \subseteq Safe(p)

HeldSafe(r) ==
    \A p \in Pos : p = r.victim =>
        /\ r.stage = "write" => Content(p) \subseteq r.held \cup Safe(p)
        /\ r.stage = "evictDirty" => Content(p) \subseteq Safe(p)

Covered(r) == VictimsSafe(r) /\ HeldSafe(r)

EditInv ==
    /\ CleanHoldsNoEdits
    /\ \A t \in Threads : Covered(thread[t])
    /\ EditsAccountedFor

(* No step forgets an edit that is on disk or that met a window.           *)
LEMMA SafeGrows ==
    ASSUME TypeOK, Next, NEW p \in Pos
    PROVE  Safe(p) \subseteq Safe(p)'
  <1>1. ASSUME NEW t \in Threads, NEW q \in Pos, InsertChunk(t, q)
        PROVE  Safe(p) \subseteq Safe(p)'
    BY <1>1 DEF InsertChunk, Safe, TypeOK
  <1>2. ASSUME NEW t \in Threads,
               \/ CountInserted(t) \/ CheckCapacity(t) \/ PickClean(t)
               \/ EvictClean(t) \/ Uncount(t) \/ CleanPhaseDone(t)
               \/ PickDirty(t) \/ CloneVictim(t) \/ EvictDirty(t)
               \/ DirtyPhaseDone(t)
        PROVE  Safe(p) \subseteq Safe(p)'
    BY <1>2 DEF CountInserted, CheckCapacity, PickClean, EvictClean, Uncount,
                CleanPhaseDone, PickDirty, CloneVictim, EvictDirty,
                DirtyPhaseDone, Safe
  <1>3. ASSUME NEW t \in Threads, WriteVictim(t)
        PROVE  Safe(p) \subseteq Safe(p)'
    BY <1>3 DEF WriteVictim, Safe, TypeOK
  <1>4. ASSUME NEW t \in Threads, WriteVictimFails(t)
        PROVE  Safe(p) \subseteq Safe(p)'
    BY <1>4 DEF WriteVictimFails, Safe, TypeOK
  <1>5. ASSUME NEW q \in Pos, SetBlock(q)
        PROVE  Safe(p) \subseteq Safe(p)'
    BY <1>5 DEF SetBlock, Safe, TypeOK
  <1>6. ASSUME NEW q \in Pos, Unload(q)
        PROVE  Safe(p) \subseteq Safe(p)'
    BY <1>6 DEF Unload, Safe, TypeOK
  <1> QED
    BY <1>1, <1>2, <1>3, <1>4, <1>5, <1>6 DEF Next, Step

(* Covered survives any step that adds no edit to a chunk in memory.       *)
LEMMA CoveredKept ==
    ASSUME NEW u \in Threads, Covered(thread[u]), thread'[u] = thread[u],
           \A p \in Pos : Content(p)' \subseteq Content(p),
           \A p \in Pos : Safe(p) \subseteq Safe(p)'
    PROVE  Covered(thread[u])'
  <1>1. VictimsSafe(thread[u])'
    BY DEF Covered, VictimsSafe
  <1>2. HeldSafe(thread[u])'
    <2> SUFFICES ASSUME NEW p \in Pos, p = thread[u].victim
                 PROVE  /\ thread[u].stage = "write"
                             => Content(p)' \subseteq thread[u].held \cup Safe(p)'
                        /\ thread[u].stage = "evictDirty"
                             => Content(p)' \subseteq Safe(p)'
      BY DEF HeldSafe
    <2>1. /\ thread[u].stage = "write" => Content(p) \subseteq thread[u].held \cup Safe(p)
          /\ thread[u].stage = "evictDirty" => Content(p) \subseteq Safe(p)
      BY DEF Covered, HeldSafe
    <2> QED
      BY <2>1
  <1> QED
    BY <1>1, <1>2 DEF Covered

(* A step that takes edits out of memory only when they are safe, and      *)
(* whose own task stays covered, keeps the invariant.                      *)
LEMMA EditsKept ==
    ASSUME TypeOK, EditInv, Next, edits' = edits,
           CleanHoldsNoEdits',
           \A p \in Pos : Content(p)' \subseteq Content(p),
           \A p \in Pos : Content(p) \subseteq Content(p)' \cup Safe(p)',
           \A u \in Threads : thread'[u] = thread[u] \/ Covered(thread[u])'
    PROVE  EditInv'
  <1>1. \A p \in Pos : Safe(p) \subseteq Safe(p)'
    BY SafeGrows
  <1>2. ASSUME NEW u \in Threads
        PROVE  Covered(thread[u])'
    BY <1>1, CoveredKept DEF EditInv
  <1>3. EditsAccountedFor'
    <2> SUFFICES ASSUME NEW p \in Pos, NEW e \in 1..edits[p]
                 PROVE  e \in Content(p)' \cup disk'[p] \cup exposed'[p]
      BY DEF EditsAccountedFor
    <2>1. e \in Content(p) \cup Safe(p)
      BY DEF EditInv, EditsAccountedFor, Safe
    <2> QED
      BY <1>1, <2>1 DEF Safe
  <1> QED
    BY <1>2, <1>3 DEF EditInv

(* A step that leaves the chunks alone.                                    *)
LEMMA ChunksUntouched ==
    ASSUME TypeOK, EditInv, Next, chunks' = chunks, edits' = edits,
           \A u \in Threads : thread'[u] = thread[u] \/ Covered(thread[u])'
    PROVE  EditInv'
  <1>1. CleanHoldsNoEdits'
    BY DEF EditInv, CleanHoldsNoEdits, Clean, Loaded
  <1>2. \A p \in Pos : Content(p)' = Content(p)
    BY DEF Content, Loaded
  <1> QED
    BY <1>1, <1>2, EditsKept

LEMMA OthersKept ==
    ASSUME TypeOK, NEW t \in Threads, NEW r, Becomes(t, r)
    PROVE  thread'[t] = r /\ \A u \in Threads \ {t} : thread'[u] = thread[u]
  BY DEF Becomes, TypeOK

(* A task that does not hold victims is covered by nothing at all.         *)
LEMMA CoveredAtOtherStages ==
    ASSUME NEW t \in Threads,
           thread'[t].stage \notin {"evictClean", "uncount", "write", "evictDirty"}
    PROVE  Covered(thread[t])'
  BY DEF Covered, VictimsSafe, HeldSafe

(* Remove takes out one of the chunks its task has covered.                *)
LEMMA RemoveKeepsEdits ==
    ASSUME TypeOK, EditInv, Next,
           NEW t \in Threads, NEW p, NEW after \in {"evictClean", "clone"},
           Remove(t, p, after), UNCHANGED <<disk, edits, exposed>>,
           p \in Pos => Content(p) \subseteq Safe(p),
           after = "evictClean" => thread[t].stage = "evictClean"
    PROVE  EditInv'
  <1> DEFINE r == [thread[t] EXCEPT
                     !.victims = @ \ {p},
                     !.victim = NoChunk,
                     !.held = {},
                     !.then = after,
                     !.stage = IF p \in Loaded THEN "uncount" ELSE after]
  <1>1. /\ r.stage \in {"uncount", "evictClean", "clone"} /\ r.then = after
        /\ r.stage \in {"uncount", after}
        /\ r.victims = thread[t].victims \ {p}
    BY ThreadType DEF Thread
  <1>2. Becomes(t, r)
    BY DEF Remove
  <1>3. thread'[t] = r /\ \A u \in Threads \ {t} : thread'[u] = thread[u]
    BY <1>2, OthersKept
  <1>4. \A q \in Pos : chunks'[q] = chunks[q] \/ (q = p /\ chunks'[q] = NoChunk)
    BY DEF Remove, TypeOK
  <1>5. \A q \in Pos : /\ Content(q)' \subseteq Content(q)
                       /\ q # p => Content(q)' = Content(q)
    BY <1>4 DEF Content, Loaded
  <1>6. CleanHoldsNoEdits'
    BY <1>4 DEF EditInv, CleanHoldsNoEdits, Clean, Loaded
  <1>7. \A q \in Pos : Safe(q)' = Safe(q)
    BY DEF Safe
  <1> HIDE DEF r
  <1>8. VictimsSafe(thread[t])'
    <2> SUFFICES ASSUME r.stage = "evictClean" \/ (r.stage = "uncount" /\ r.then = "evictClean"),
                        NEW q \in Pos, q \in r.victims
                 PROVE  Content(q)' \subseteq Safe(q)'
      BY <1>3 DEF VictimsSafe
    <2>1. thread[t].stage = "evictClean" /\ q \in thread[t].victims
      BY <1>1
    <2>2. Content(q) \subseteq Safe(q)
      BY <2>1 DEF EditInv, Covered, VictimsSafe
    <2> QED
      BY <2>2, <1>5, <1>7
  <1>9. HeldSafe(thread[t])'
    BY <1>1, <1>3 DEF HeldSafe
  <1>10. \A u \in Threads : thread'[u] = thread[u] \/ Covered(thread[u])'
    BY <1>3, <1>8, <1>9 DEF Covered
  <1>11. \A q \in Pos : Content(q) \subseteq Content(q)' \cup Safe(q)'
    BY <1>5, <1>7
  <1> QED
    BY <1>5, <1>6, <1>10, <1>11, EditsKept

LEMMA EditStep == TypeOK /\ EditInv /\ [Next]_vars => EditInv'
  <1> SUFFICES ASSUME TypeOK, EditInv, [Next]_vars
               PROVE  EditInv'
    OBVIOUS
  <1>1. CASE UNCHANGED vars
    BY <1>1 DEF vars, EditInv, CleanHoldsNoEdits, Covered, VictimsSafe, HeldSafe,
                EditsAccountedFor, Clean, Loaded, Content, Safe
  <1> SUFFICES ASSUME Next
               PROVE  EditInv'
    BY <1>1
  <1>2. ASSUME NEW t \in Threads, NEW p \in Pos, InsertChunk(t, p)
        PROVE  EditInv'
    <2>1. [edits |-> {}, dirty |-> FALSE] \in Chunk
      BY DEF Chunk
    <2>2. \A q \in Pos : chunks'[q] = IF q = p THEN [edits |-> {}, dirty |-> FALSE]
                                               ELSE chunks[q]
      BY <1>2 DEF InsertChunk, TypeOK
    <2>3. \A q \in Pos : Content(q)' = IF q = p THEN {} ELSE Content(q)
      BY <2>1, <2>2, NoChunkNotChunk DEF Content, Loaded
    <2>4. CleanHoldsNoEdits'
      BY <2>1, <2>2, NoChunkNotChunk DEF EditInv, CleanHoldsNoEdits, Clean, Loaded
    <2>5. \A q \in Pos : Content(q) \subseteq Content(q)' \cup Safe(q)'
      BY <1>2, <2>3 DEF InsertChunk, Safe, TypeOK
    <2>6. /\ thread'[t] = [thread[t] EXCEPT !.stage = AfterInsert(p)]
          /\ \A u \in Threads \ {t} : thread'[u] = thread[u]
      BY <1>2, OthersKept DEF InsertChunk
    <2>7. thread'[t].stage \in {"check", "count"}
      BY <2>6, ThreadType DEF Thread, AfterInsert
    <2> QED
      BY <1>2, <2>3, <2>4, <2>5, <2>6, <2>7, CoveredAtOtherStages, EditsKept
         DEF InsertChunk
  <1>3. ASSUME NEW t \in Threads,
               \/ CountInserted(t) \/ CheckCapacity(t) \/ CleanPhaseDone(t)
               \/ PickDirty(t) \/ DirtyPhaseDone(t)
        PROVE  EditInv'
    <2>1. chunks' = chunks /\ edits' = edits
      BY <1>3 DEF CountInserted, CheckCapacity, CleanPhaseDone, PickDirty,
                  DirtyPhaseDone
    <2>2. \A u \in Threads \ {t} : thread'[u] = thread[u]
      BY <1>3 DEF CountInserted, CheckCapacity, CleanPhaseDone, PickDirty,
                  DirtyPhaseDone, Becomes, TypeOK
    <2>3. thread'[t].stage \in {"idle", "check", "pickClean", "pickDirty", "clone"}
      <3>1. thread[t] \in Thread /\ t \in DOMAIN thread
        BY ThreadType DEF TypeOK
      <3>2. CASE CountInserted(t)
        <4>1. thread'[t] = [thread[t] EXCEPT !.stage = "check"]
          BY <3>2, OthersKept DEF CountInserted
        <4> QED
          BY <3>1, <4>1 DEF Thread
      <3>5. CASE CheckCapacity(t)
        <4> DEFINE r == [Idle EXCEPT !.stage = FirstPhase, !.need = Excess]
        <4>1. r.stage = "pickClean" /\ Idle.stage = "idle"
          BY DEF Idle, FirstPhase
        <4>2. Becomes(t, r) \/ Becomes(t, Idle)
          BY <3>5 DEF CheckCapacity
        <4> HIDE DEF r
        <4> QED
          BY <4>1, <4>2, OthersKept
      <3>3. CASE CleanPhaseDone(t) \/ DirtyPhaseDone(t)
        BY <3>1, <3>3 DEF CleanPhaseDone, DirtyPhaseDone, Becomes, Idle,
                          Thread, TypeOK
      <3>4. CASE PickDirty(t)
        <4> DEFINE n == Lesser(thread[t].need, Cardinality(Dirty))
                   r == [thread[t] EXCEPT !.stage = "clone",
                                          !.victims = Oldest(Dirty, n),
                                          !.need = 0]
        <4>1. Becomes(t, r) /\ r.stage = "clone"
          BY <3>1, <3>4 DEF PickDirty, Thread
        <4> HIDE DEF r
        <4> QED
          BY <4>1, OthersKept
      <3> QED
        BY <1>3, <3>2, <3>3, <3>4, <3>5
    <2> QED
      BY <2>1, <2>2, <2>3, CoveredAtOtherStages, ChunksUntouched
  <1>4. ASSUME NEW t \in Threads, PickClean(t)
        PROVE  EditInv'
    <2> DEFINE n == Lesser(thread[t].need, Cardinality(Clean))
               r == [thread[t] EXCEPT !.stage = "evictClean",
                                      !.victims = Oldest(Clean, n),
                                      !.need = @ - n]
    <2>1. thread'[t] = r /\ \A u \in Threads \ {t} : thread'[u] = thread[u]
      BY <1>4, OthersKept DEF PickClean
    <2>2. r.stage = "evictClean" /\ r.victims = Oldest(Clean, n)
      BY ThreadType DEF Thread
    <2>3. \A p \in Clean : Content(p) = {}
      BY DEF EditInv, CleanHoldsNoEdits, Clean, Loaded, Content
    <2>4. chunks' = chunks /\ edits' = edits /\ \A p \in Pos : Content(p)' = Content(p)
      BY <1>4 DEF PickClean, Content, Loaded
    <2>5. Oldest(Clean, n) \subseteq Clean
      BY DEF Oldest
    <2> HIDE DEF r
    <2>6. Covered(thread[t])'
      BY <2>1, <2>2, <2>3, <2>4, <2>5 DEF Covered, VictimsSafe, HeldSafe
    <2> QED
      BY <2>1, <2>4, <2>6, ChunksUntouched
  <1>5. ASSUME NEW t \in Threads, Uncount(t)
        PROVE  EditInv'
    <2>1. chunks' = chunks /\ edits' = edits /\ Safe(t)' = Safe(t)
          /\ \A p \in Pos : Content(p)' = Content(p) /\ Safe(p)' = Safe(p)
      BY <1>5 DEF Uncount, Content, Loaded, Safe
    <2>2. /\ thread'[t] = [thread[t] EXCEPT !.stage = thread[t].then]
          /\ \A u \in Threads \ {t} : thread'[u] = thread[u]
      BY <1>5, OthersKept DEF Uncount
    <2>3. /\ thread'[t].stage = thread[t].then
          /\ thread'[t].victims = thread[t].victims
          /\ thread[t].then \in {"evictClean", "clone"}
      BY <2>2, ThreadType DEF Thread
    <2>4. Covered(thread[t])'
      BY <1>5, <2>1, <2>3 DEF Uncount, EditInv, Covered, VictimsSafe, HeldSafe
    <2> QED
      BY <2>1, <2>2, <2>4, ChunksUntouched
  <1>6. ASSUME NEW t \in Threads, CloneVictim(t)
        PROVE  EditInv'
    <2>1. PICK p \in thread[t].victims :
            Becomes(t, [thread[t] EXCEPT
                !.victim = p,
                !.held = Content(p),
                !.stage = IF p \in Loaded THEN "write" ELSE "evictDirty"])
      BY <1>6 DEF CloneVictim
    <2>2. /\ thread'[t] = [thread[t] EXCEPT
                !.victim = p,
                !.held = Content(p),
                !.stage = IF p \in Loaded THEN "write" ELSE "evictDirty"]
          /\ \A u \in Threads \ {t} : thread'[u] = thread[u]
      BY <2>1, OthersKept
    <2>3. /\ thread'[t].victim = p /\ thread'[t].held = Content(p)
          /\ thread'[t].stage = IF p \in Loaded THEN "write" ELSE "evictDirty"
      BY <2>2, ThreadType DEF Thread
    <2>4. /\ chunks' = chunks /\ edits' = edits
          /\ \A q \in Pos : Content(q)' = Content(q)
      BY <1>6 DEF CloneVictim, Content, Loaded
    <2>5. p \notin Loaded => Content(p) = {}
      BY DEF Content
    <2>6. Covered(thread[t])'
      BY <2>3, <2>4, <2>5 DEF Covered, VictimsSafe, HeldSafe
    <2> QED
      BY <2>2, <2>4, <2>6, ChunksUntouched
  <1>7. ASSUME NEW t \in Threads, WriteVictim(t)
        PROVE  EditInv'
    <2>1. /\ thread'[t] = [thread[t] EXCEPT !.stage = "evictDirty"]
          /\ \A u \in Threads \ {t} : thread'[u] = thread[u]
      BY <1>7, OthersKept DEF WriteVictim
    <2>2. thread'[t].stage = "evictDirty" /\ thread'[t].victim = thread[t].victim
      BY <2>1, ThreadType DEF Thread
    <2>3. /\ chunks' = chunks /\ edits' = edits
          /\ \A q \in Pos : Content(q)' = Content(q)
      BY <1>7 DEF WriteVictim, Content, Loaded
    <2>4. \A q \in Pos : q = thread[t].victim => thread[t].held \cup Safe(q) \subseteq Safe(q)'
      BY <1>7 DEF WriteVictim, Safe, TypeOK
    <2>5. Covered(thread[t])'
      BY <1>7, <2>2, <2>3, <2>4
         DEF WriteVictim, EditInv, Covered, VictimsSafe, HeldSafe
    <2> QED
      BY <2>1, <2>3, <2>5, ChunksUntouched
  <1>8. ASSUME NEW t \in Threads, WriteVictimFails(t)
        PROVE  EditInv'
    <2>1. /\ thread'[t] = [thread[t] EXCEPT !.stage = "evictDirty"]
          /\ \A u \in Threads \ {t} : thread'[u] = thread[u]
      BY <1>8, OthersKept DEF WriteVictimFails
    <2>2. thread'[t].stage = "evictDirty" /\ thread'[t].victim = thread[t].victim
      BY <2>1, ThreadType DEF Thread
    <2>3. /\ chunks' = chunks /\ edits' = edits
          /\ \A q \in Pos : Content(q)' = Content(q)
      BY <1>8 DEF WriteVictimFails, Content, Loaded
    <2>4. \A q \in Pos : q = thread[t].victim => thread[t].held \cup Safe(q) \subseteq Safe(q)'
      BY <1>8 DEF WriteVictimFails, Safe, TypeOK
    <2>5. Covered(thread[t])'
      BY <1>8, <2>2, <2>3, <2>4
         DEF WriteVictimFails, EditInv, Covered, VictimsSafe, HeldSafe
    <2> QED
      BY <2>1, <2>3, <2>5, ChunksUntouched
  <1>9. ASSUME NEW t \in Threads, EvictClean(t)
        PROVE  EditInv'
    <2>1. PICK p \in thread[t].victims : Remove(t, p, "evictClean")
      BY <1>9 DEF EvictClean
    <2>2. thread[t].stage = "evictClean" /\ UNCHANGED <<disk, edits, exposed>>
      BY <1>9 DEF EvictClean
    <2>3. p \in Pos => Content(p) \subseteq Safe(p)
      BY <2>2 DEF EditInv, Covered, VictimsSafe
    <2> QED
      BY <2>1, <2>2, <2>3, RemoveKeepsEdits
  <1>10. ASSUME NEW t \in Threads, EvictDirty(t)
         PROVE  EditInv'
    <2>1. /\ thread[t].stage = "evictDirty" /\ UNCHANGED <<disk, edits, exposed>>
          /\ Remove(t, thread[t].victim, "clone")
      BY <1>10 DEF EvictDirty
    <2>2. thread[t].victim \in Pos => Content(thread[t].victim) \subseteq Safe(thread[t].victim)
      BY <2>1 DEF EditInv, Covered, HeldSafe
    <2> QED
      BY <2>1, <2>2, RemoveKeepsEdits
  <1>11. ASSUME NEW p \in Pos, SetBlock(p)
         PROVE  EditInv'
    <2> DEFINE e == edits[p] + 1
               c == [edits |-> chunks[p].edits \cup {e}, dirty |-> TRUE]
    <2>1. /\ e \in Edit /\ chunks[p] \in Chunk /\ chunks[p].edits \subseteq Edit
          /\ p \in Loaded
      BY <1>11, StoreAssumption DEF SetBlock, TypeOK, Edit, Loaded, Chunk
    <2>2. c \in Chunk /\ c # NoChunk /\ c.dirty = TRUE /\ c.edits = chunks[p].edits \cup {e}
      <3>1. c \in Chunk
        BY <2>1 DEF Chunk
      <3>2. c.dirty = TRUE /\ c.edits = chunks[p].edits \cup {e}
        OBVIOUS
      <3> QED
        BY <3>1, <3>2, NoChunkNotChunk
    <2>3. /\ \A q \in Pos : chunks'[q] = IF q = p THEN c ELSE chunks[q]
          /\ \A q \in Pos : edits'[q] = IF q = p THEN e ELSE edits[q]
          /\ thread' = thread /\ disk' = disk
          /\ Doomed(p) => e \in exposed'[p]
      BY <1>11 DEF SetBlock, TypeOK
    <2> HIDE DEF c
    <2>4. \A q \in Pos : Content(q)' = IF q = p THEN Content(q) \cup {e} ELSE Content(q)
      BY <2>1, <2>2, <2>3 DEF Content, Loaded
    <2>5. CleanHoldsNoEdits'
      BY <2>2, <2>3 DEF EditInv, CleanHoldsNoEdits, Clean, Loaded
    <2>6. \A q \in Pos : Safe(q) \subseteq Safe(q)'
      BY SafeGrows
    <2>7. Doomed(p) => \A q \in Pos : Content(q)' \subseteq Content(q) \cup Safe(q)'
      BY <2>3, <2>4 DEF Safe
    <2>8. ASSUME NEW u \in Threads
          PROVE  Covered(thread[u])'
      <3>1. VictimsSafe(thread[u])'
        <4> SUFFICES ASSUME \/ thread[u].stage = "evictClean"
                            \/ thread[u].stage = "uncount" /\ thread[u].then = "evictClean",
                            NEW q \in Pos, q \in thread[u].victims
                     PROVE  Content(q)' \subseteq Safe(q)'
          BY <2>3 DEF VictimsSafe
        <4>1. Content(q) \subseteq Safe(q)
          BY DEF EditInv, Covered, VictimsSafe
        <4>2. q = p => Doomed(p)
          BY DEF Doomed
        <4> QED
          BY <2>4, <2>6, <2>7, <4>1, <4>2
      <3>2. HeldSafe(thread[u])'
        <4> SUFFICES ASSUME NEW q \in Pos, q = thread[u].victim
                     PROVE  /\ thread[u].stage = "write"
                                 => Content(q)' \subseteq thread[u].held \cup Safe(q)'
                            /\ thread[u].stage = "evictDirty"
                                 => Content(q)' \subseteq Safe(q)'
          BY <2>3 DEF HeldSafe
        <4>1. /\ thread[u].stage = "write" => Content(q) \subseteq thread[u].held \cup Safe(q)
              /\ thread[u].stage = "evictDirty" => Content(q) \subseteq Safe(q)
          BY DEF EditInv, Covered, HeldSafe
        <4>2. q = p /\ thread[u].stage \in {"write", "evictDirty"} => Doomed(p)
          BY DEF Doomed
        <4> QED
          BY <2>4, <2>6, <2>7, <4>1, <4>2
      <3> QED
        BY <3>1, <3>2 DEF Covered
    <2>9. EditsAccountedFor'
      <3> SUFFICES ASSUME NEW q \in Pos, NEW d \in 1..edits'[q]
                   PROVE  d \in Content(q)' \cup disk'[q] \cup exposed'[q]
        BY DEF EditsAccountedFor
      <3>1. CASE d \in 1..edits[q]
        <4>1. d \in Content(q) \cup Safe(q)
          BY <3>1 DEF EditInv, EditsAccountedFor, Safe
        <4> QED
          BY <2>4, <2>6, <4>1 DEF Safe
      <3>2. CASE d \notin 1..edits[q]
        <4>1. q = p /\ d = e
          BY <2>3, <3>2 DEF TypeOK
        <4> QED
          BY <2>4, <4>1
      <3> QED
        BY <3>1, <3>2
    <2> QED
      BY <2>5, <2>8, <2>9 DEF EditInv
  <1>12. ASSUME NEW p \in Pos, Unload(p)
         PROVE  EditInv'
    <2>1. /\ \A q \in Pos : chunks'[q] = IF q = p THEN NoChunk ELSE chunks[q]
          /\ edits' = edits /\ thread' = thread
          /\ p \in Loaded /\ chunks[p].edits \subseteq exposed'[p]
      BY <1>12 DEF Unload, TypeOK
    <2>2. \A q \in Pos : Content(q)' = IF q = p THEN {} ELSE Content(q)
      BY <2>1 DEF Content, Loaded
    <2>3. CleanHoldsNoEdits'
      BY <2>1 DEF EditInv, CleanHoldsNoEdits, Clean, Loaded
    <2>4. \A q \in Pos : Content(q) \subseteq Content(q)' \cup Safe(q)'
      BY <2>1, <2>2 DEF Content, Safe
    <2> QED
      BY <2>1, <2>2, <2>3, <2>4, EditsKept
  <1> QED
    BY <1>2, <1>3, <1>4, <1>5, <1>6, <1>7, <1>8, <1>9, <1>10, <1>11, <1>12
       DEF Next, Step

(* Every edit is in memory or on disk, or met one of the named windows:    *)
(* for any number of tasks, positions and edits, nothing else loses one.   *)
THEOREM EditsAreAccountedFor == Spec => []EditsAccountedFor
  <1>1. Init => EditInv
    <2> SUFFICES ASSUME Init
                 PROVE  EditInv
      OBVIOUS
    <2>1. Loaded = {} /\ Clean = {}
      BY DEF Init, Loaded, Clean
    <2>2. \A t \in Threads : Covered(thread[t])
      BY DEF Init, Idle, Covered, VictimsSafe, HeldSafe
    <2>3. EditsAccountedFor
      BY DEF Init, EditsAccountedFor
    <2> QED
      BY <2>1, <2>2, <2>3 DEF EditInv, CleanHoldsNoEdits
  <1>2. EditInv => EditsAccountedFor
    BY DEF EditInv
  <1> QED
    BY <1>1, <1>2, EditStep, TypeCorrect, PTL DEF Spec

-----------------------------------------------------------------------------
(* lru_order orders the chunks                                             *)

(* The chunks of the map are in a strict total order, and no other is.     *)
InOrder ==
    /\ \A p \in Pos : lru[p] \subseteq Loaded /\ p \notin lru[p]
    /\ \A p \in Pos : p \notin Loaded => lru[p] = {}
    /\ \A p, q \in Loaded : p # q => p \in lru[q] \/ q \in lru[p]
    /\ \A p \in Pos : \A q \in lru[p] : lru[q] \subseteq lru[p]

LEMMA StampOrder ==
    ASSUME TypeOK, InOrder, NEW p \in Pos, Stamp(p), Loaded' = Loaded \cup {p}
    PROVE  InOrder'
  <1>1. PICK older \in SUBSET (Loaded \ {p}) :
            /\ \A q \in older : lru[q] \ {p} \subseteq older
            /\ lru' = [q \in Pos |->
                         IF q = p THEN older
                         ELSE IF q \in older \/ q \notin Loaded THEN lru[q] \ {p}
                         ELSE lru[q] \cup {p}]
    BY DEF Stamp
  <1>2. Loaded \subseteq Pos
    BY DEF Loaded
  <1>3. /\ lru'[p] = older
        /\ \A q \in older : lru'[q] = lru[q] \ {p} /\ lru'[q] \subseteq older
        /\ \A q \in Pos \ (Loaded \cup {p}) : lru'[q] = {}
        /\ \A q \in Loaded \ (older \cup {p}) :
              lru'[q] = lru[q] \cup {p} /\ older \subseteq lru'[q]
    BY <1>1, <1>2 DEF InOrder
  <1>4. \A q \in Pos : lru'[q] \subseteq Loaded' /\ q \notin lru'[q]
    BY <1>1, <1>3 DEF InOrder
  <1>5. \A q \in Pos : q \notin Loaded' => lru'[q] = {}
    BY <1>3
  <1>6. ASSUME NEW q \in Loaded', NEW r \in Loaded', q # r
        PROVE  q \in lru'[r] \/ r \in lru'[q]
    <2>1. q # p /\ r # p => q \in lru[r] \/ r \in lru[q]
      BY <1>6 DEF InOrder
    <2> QED
      BY <1>1, <1>2, <1>3, <1>6, <2>1
  <1>7. ASSUME NEW q \in Pos, NEW r \in lru'[q]
        PROVE  lru'[r] \subseteq lru'[q]
    <2>1. CASE q = p \/ q \notin Loaded
      BY <1>3, <2>1
    <2>3. CASE q \in older
      <3>1. r \in lru[q] /\ r \in older
        BY <1>3, <2>3
      <3>2. lru[r] \subseteq lru[q]
        BY <3>1 DEF InOrder
      <3> QED
        BY <1>3, <2>3, <3>1, <3>2
    <2>2. CASE q \in Loaded \ (older \cup {p})
      <3>1. r = p \/ (r \in lru[q] /\ r # p /\ r \in Loaded)
        BY <1>3, <2>2 DEF InOrder
      <3>2. r = p => lru'[r] \subseteq lru'[q]
        BY <1>3, <2>2
      <3>3. r \in lru[q] => lru[r] \subseteq lru[q]
        BY DEF InOrder
      <3>4. r \in Loaded /\ r # p => lru'[r] \subseteq lru[r] \cup {p}
        BY <1>3
      <3> QED
        BY <1>3, <2>2, <3>1, <3>2, <3>3, <3>4
    <2> QED
      BY <2>1, <2>2, <2>3
  <1> QED
    BY <1>4, <1>5, <1>6, <1>7 DEF InOrder

LEMMA UnstampOrder ==
    ASSUME TypeOK, InOrder, NEW p, Unstamp(p), Loaded' = Loaded \ {p}
    PROVE  InOrder'
  <1>1. \A q \in Pos : lru'[q] = IF q = p THEN {} ELSE lru[q] \ {p}
    BY DEF Unstamp
  <1>2. Loaded \subseteq Pos
    BY DEF Loaded
  <1>3. ASSUME NEW q \in Pos, NEW r \in lru'[q]
        PROVE  lru'[r] \subseteq lru'[q]
    <2>0. lru[q] \subseteq Pos
      BY <1>2 DEF InOrder
    <2>1. q # p /\ r \in lru[q] /\ r # p /\ r \in Pos
      BY <1>1, <1>3, <2>0
    <2>2. lru[r] \subseteq lru[q]
      BY <2>1 DEF InOrder
    <2> QED
      BY <1>1, <2>1, <2>2
  <1>4. \A q \in Pos : lru'[q] \subseteq Loaded' /\ q \notin lru'[q]
    BY <1>1, ZenonT(60) DEF InOrder
  <1>5. \A q \in Pos : q \notin Loaded' => lru'[q] = {}
    BY <1>1 DEF InOrder
  <1>6. ASSUME NEW q \in Loaded', NEW r \in Loaded', q # r
        PROVE  q \in lru'[r] \/ r \in lru'[q]
    <2>1. q \in Loaded /\ r \in Loaded /\ q # p /\ r # p
      OBVIOUS
    <2>2. q \in lru[r] \/ r \in lru[q]
      BY <1>6, <2>1 DEF InOrder
    <2>3. lru'[q] = lru[q] \ {p} /\ lru'[r] = lru[r] \ {p}
      BY <1>1, <1>2, <2>1
    <2> QED
      BY <2>1, <2>2, <2>3
  <1> QED
    BY <1>3, <1>4, <1>5, <1>6 DEF InOrder

LEMMA TouchOrder ==
    ASSUME TypeOK, InOrder, NEW p \in Loaded, Touch(p), Loaded' = Loaded
    PROVE  InOrder'
  <1>1. \A q \in Pos : lru'[q] = IF q = p THEN Loaded \ {p} ELSE lru[q] \ {p}
    BY DEF Touch
  <1>2. Loaded \subseteq Pos
    BY DEF Loaded
  <1>3. \A q \in Pos : lru[q] \subseteq Loaded /\ q \notin lru[q]
    BY DEF InOrder
  <1>4. \A q \in Pos : lru'[q] \subseteq Loaded' /\ q \notin lru'[q]
    BY <1>1, <1>3
  <1>5. \A q \in Pos : q \notin Loaded' => lru'[q] = {}
    <2>1. \A q \in Pos : q \notin Loaded => lru[q] = {} /\ q # p
      BY DEF InOrder
    <2> QED
      BY <1>1, <2>1
  <1>6. ASSUME NEW q \in Pos, NEW r \in lru'[q]
        PROVE  lru'[r] \subseteq lru'[q]
    <2>1. r \in Loaded /\ r \in Pos /\ r # p
      BY <1>1, <1>2, <1>3
    <2>2. lru'[r] = lru[r] \ {p}
      BY <1>1, <2>1
    <2>3. CASE q = p
      BY <1>1, <1>3, <2>1, <2>2, <2>3
    <2>4. CASE q # p
      <3>1. r \in lru[q] /\ lru'[q] = lru[q] \ {p}
        BY <1>1, <2>4
      <3>2. lru[r] \subseteq lru[q]
        BY <3>1 DEF InOrder
      <3> QED
        BY <2>2, <3>1, <3>2
    <2> QED
      BY <2>3, <2>4
  <1>7. ASSUME NEW q \in Loaded', NEW r \in Loaded', q # r
        PROVE  q \in lru'[r] \/ r \in lru'[q]
    <2>1. q \in Loaded /\ r \in Loaded /\ q \in Pos /\ r \in Pos
      BY <1>2
    <2>2. q \in lru[r] \/ r \in lru[q]
      BY <1>7, <2>1 DEF InOrder
    <2> QED
      BY <1>1, <1>7, <2>1, <2>2
  <1> QED
    BY <1>4, <1>5, <1>6, <1>7 DEF InOrder

LEMMA OrderUntouched ==
    ASSUME InOrder, lru' = lru, Loaded' = Loaded
    PROVE  InOrder'
  BY DEF InOrder

LEMMA OrderStep == TypeOK /\ InOrder /\ [Next]_vars => InOrder'
  <1> SUFFICES ASSUME TypeOK, InOrder, [Next]_vars
               PROVE  InOrder'
    OBVIOUS
  <1>1. CASE UNCHANGED vars
    BY <1>1, OrderUntouched DEF vars, Loaded
  <1>2. ASSUME NEW t \in Threads, NEW p \in Pos, InsertChunk(t, p)
        PROVE  InOrder'
    BY <1>2, LoadedAfterInsert, StampOrder DEF InsertChunk
  <1>3. ASSUME NEW t \in Threads, EvictClean(t) \/ EvictDirty(t)
        PROVE  InOrder'
    <2>1. \E p, after : Remove(t, p, after)
      BY <1>3 DEF EvictClean, EvictDirty
    <2> QED
      BY <2>1, LoadedAfterRemove, UnstampOrder DEF Remove
  <1>4. ASSUME NEW t \in Threads,
               \/ CountInserted(t) \/ CheckCapacity(t) \/ PickClean(t)
               \/ Uncount(t) \/ CleanPhaseDone(t) \/ PickDirty(t)
               \/ CloneVictim(t) \/ WriteVictim(t) \/ WriteVictimFails(t)
               \/ DirtyPhaseDone(t)
        PROVE  InOrder'
    <2>1. lru' = lru /\ Loaded' = Loaded
      BY <1>4 DEF CountInserted, CheckCapacity, PickClean, Uncount, CleanPhaseDone,
                  PickDirty, CloneVictim, WriteVictim, WriteVictimFails,
                  DirtyPhaseDone, Loaded
    <2> QED
      BY <2>1, OrderUntouched
  <1>5. ASSUME NEW p \in Pos, SetBlock(p)
        PROVE  InOrder'
    BY <1>5, LoadedAfterSetBlock, TouchOrder DEF SetBlock
  <1>6. ASSUME NEW p \in Pos, Unload(p)
        PROVE  InOrder'
    <2>1. Loaded' = Loaded \ {p} /\ Unstamp(p)
      BY <1>6 DEF Unload, Loaded, TypeOK
    <2> QED
      BY <2>1, UnstampOrder
  <1> QED
    BY <1>1, <1>2, <1>3, <1>4, <1>5, <1>6 DEF Next, Step

LEMMA OrderInit == Init => InOrder
  BY DEF Init, InOrder, Loaded

(* How many chunks of S are older than p.                                  *)
Rank(S, p) == Cardinality(lru[p] \cap S)

LEMMA RankType ==
    ASSUME TypeOK, InOrder, NEW S \in SUBSET Loaded, NEW p \in S
    PROVE  Rank(S, p) \in 0..(Cardinality(S) - 1)
  <1>1. IsFiniteSet(S) /\ Cardinality(S) \in Nat
    BY LoadedFinite, FS_Subset, FS_CardinalityType
  <1>2. p \in Pos /\ lru[p] \cap S \subseteq S \ {p}
    BY DEF InOrder, Loaded
  <1>3. IsFiniteSet(S \ {p}) /\ Cardinality(S \ {p}) = Cardinality(S) - 1
    BY <1>1, FS_RemoveElement
  <1>4. /\ IsFiniteSet(lru[p] \cap S)
        /\ Cardinality(lru[p] \cap S) <= Cardinality(S \ {p})
        /\ Cardinality(lru[p] \cap S) \in Nat
    BY <1>2, <1>3, FS_Subset, FS_CardinalityType
  <1> QED
    BY <1>1, <1>3, <1>4 DEF Rank

LEMMA RankGrows ==
    ASSUME TypeOK, InOrder, NEW S \in SUBSET Loaded, NEW p \in S, NEW q \in S,
           p \in lru[q]
    PROVE  Rank(S, p) < Rank(S, q)
  <1> DEFINE P == lru[p] \cap S
             Q == lru[q] \cap S
  <1>1. p \in Pos /\ q \in Pos /\ P \subseteq Q /\ p \in Q /\ p \notin P
    BY DEF InOrder, Loaded
  <1>2. IsFiniteSet(S)
    BY LoadedFinite, FS_Subset
  <1>3. IsFiniteSet(Q) /\ Cardinality(Q) \in Nat
    BY <1>2, FS_Subset, FS_CardinalityType
  <1> HIDE DEF P, Q
  <1>4. /\ IsFiniteSet(P) /\ Cardinality(P) \in Nat /\ Cardinality(P) <= Cardinality(Q)
        /\ Cardinality(P) # Cardinality(Q)
    BY <1>1, <1>3, FS_Subset, FS_CardinalityType
  <1> QED
    BY <1>3, <1>4 DEF Rank, P, Q

(* candidates.iter().take(n) gives n candidates, if there are so many.     *)
LEMMA OldestCount ==
    ASSUME TypeOK, InOrder, NEW S \in SUBSET Loaded,
           NEW n \in 0..Cardinality(S)
    PROVE  Cardinality(Oldest(S, n)) = n
  <1> DEFINE m == Cardinality(S)
             f == [p \in S |-> Rank(S, p)]
             O == Oldest(S, n)
             g == [p \in O |-> f[p]]
  <1>1. IsFiniteSet(S) /\ m \in Nat
    BY LoadedFinite, FS_Subset, FS_CardinalityType
  <1>2. IsFiniteSet(0..(m-1)) /\ Cardinality(0..(m-1)) = m
    <2> HIDE DEF m
    <2>1. m - 1 \in Int
      BY <1>1
    <2> QED
      BY <1>1, <2>1, FS_Interval
  <1>3. f \in [S -> 0..(m-1)]
    BY RankType
  <1>4. ASSUME NEW p \in S, NEW q \in S, p # q
        PROVE  f[p] # f[q]
    <2>1. p \in lru[q] \/ q \in lru[p]
      BY <1>4 DEF InOrder
    <2>2. Rank(S, p) < Rank(S, q) \/ Rank(S, q) < Rank(S, p)
      BY <2>1, RankGrows
    <2>3. Rank(S, p) \in Int /\ Rank(S, q) \in Int
      BY RankType, <1>1
    <2> QED
      BY <2>2, <2>3
  <1>5. f \in Injection(S, 0..(m-1))
    <2> HIDE DEF f
    <2> QED
      BY <1>3, <1>4 DEF Injection, IsInjective
  <1>6. f \in Surjection(S, 0..(m-1))
    BY <1>1, <1>2, <1>5, FS_Injection
  <1>7. O = {p \in S : f[p] < n}
    BY DEF Oldest, Rank
  <1> HIDE DEF f, O, m
  <1>8. g \in [O -> 0..(n-1)]
    BY <1>3, <1>7, <1>1 DEF m
  <1>9. \A p, q \in O : g[p] = g[q] => p = q
    BY <1>4, <1>7
  <1>10. ASSUME NEW i \in 0..(n-1)
         PROVE  \E p \in O : g[p] = i
    <2>1. i \in 0..(m-1)
      BY <1>1 DEF m
    <2>2. PICK p \in S : f[p] = i
      BY <1>6, <2>1 DEF Surjection
    <2> QED
      BY <1>7, <2>2
  <1>11. g \in Bijection(O, 0..(n-1))
    <2> HIDE DEF g
    <2> QED
      BY <1>8, <1>9, <1>10 DEF Bijection, Injection, IsInjective, Surjection
  <1>12. IsFiniteSet(O)
    BY <1>1, <1>7, FS_Subset
  <1>13. Cardinality(0..(n-1)) = Cardinality(O)
    BY <1>11, <1>12, FS_Bijection DEF ExistsBijection
  <1>14. Cardinality(0..(n-1)) = n
    BY FS_Interval, <1>1
  <1> QED
    BY <1>13, <1>14 DEF O

-----------------------------------------------------------------------------
(* Capacity                                                                *)
(*                                                                         *)
(* The store is above max_chunks only while some task will see it: one     *)
(* that has not yet compared the counter, or an evictor that still asks    *)
(* for enough chunks, whatever the others take out or make dirty.          *)

(* The victims of r that are still in the map.                             *)
Left(r) == Cardinality(r.victims \cap Loaded)

EvictsClean(r) ==
    r.stage = "evictClean" \/ (r.stage = "uncount" /\ r.then = "evictClean")

EvictsDirty(r) ==
    \/ r.stage \in {"clone", "write", "evictDirty"}
    \/ r.stage = "uncount" /\ r.then = "clone"

(* What r will still take out brings the store down to max_chunks.         *)
Suffices(r) ==
    \/ /\ r.stage = "pickClean"
       /\ Cardinality(Loaded) <= MaxChunks + r.need
    \/ /\ EvictsClean(r)
       /\ Cardinality(Loaded) <= MaxChunks + r.need + Left(r)
       /\ r.need > 0 => Clean \subseteq r.victims
    \/ /\ r.stage = "pickDirty"
       /\ Cardinality(Loaded) <= MaxChunks + r.need
       /\ Clean = {}
    \/ /\ EvictsDirty(r)
       /\ Cardinality(Loaded) <= MaxChunks + Left(r)

WillCompare(r) == r.stage \in {"count", "check"}

CapInv ==
    \/ Cardinality(Loaded) <= MaxChunks
    \/ \E t \in Threads : WillCompare(thread[t]) \/ Suffices(thread[t])

LEMMA LeftType ==
    ASSUME NEW S
    PROVE  /\ IsFiniteSet(S \cap Loaded) /\ Cardinality(S \cap Loaded) \in Nat
           /\ Cardinality(S \cap Loaded) <= Cardinality(Loaded)
  BY LoadedFinite, FS_Subset, FS_CardinalityType

(* A chunk that leaves the map leaves at most one set of victims smaller   *)
(* than it leaves the map.                                                 *)
LEMMA OneLess ==
    ASSUME NEW p, Loaded' = Loaded \/ Loaded' = Loaded \ {p}, NEW S
    PROVE  /\ Cardinality(Loaded') \in Nat
           /\ Cardinality(S \cap Loaded') \in Nat
           /\ Cardinality(Loaded') <= Cardinality(Loaded)
           /\ Cardinality(Loaded') + Cardinality(S \cap Loaded)
                <= Cardinality(Loaded) + Cardinality(S \cap Loaded')
  <1> DEFINE A == Loaded
             B == Loaded'
  <1>1. IsFiniteSet(A) /\ Cardinality(A) \in Nat
    BY LoadedFinite
  <1>2. IsFiniteSet(S \cap A) /\ Cardinality(S \cap A) \in Nat
    BY LeftType
  <1>3. B = A \/ (B = A \ {p} /\ S \cap B = (S \cap A) \ {p})
    OBVIOUS
  <1>4. p \in S \cap A => p \in A
    OBVIOUS
  <1> HIDE DEF A, B
  <1>5. CASE B = A
    BY <1>1, <1>2, <1>5 DEF A, B
  <1>6. CASE B = A \ {p} /\ S \cap B = (S \cap A) \ {p}
    <2>1. Cardinality(B) = IF p \in A THEN Cardinality(A) - 1 ELSE Cardinality(A)
      BY <1>1, <1>6, AddOne
    <2>2. Cardinality(S \cap B) = IF p \in S \cap A THEN Cardinality(S \cap A) - 1
                                                     ELSE Cardinality(S \cap A)
      <3>1. Cardinality((S \cap A) \ {p}) = IF p \in S \cap A
                                            THEN Cardinality(S \cap A) - 1
                                            ELSE Cardinality(S \cap A)
        <4> DEFINE T == S \cap A
        <4>1. IsFiniteSet(T)
          BY <1>2
        <4> HIDE DEF T
        <4>2. Cardinality(T \ {p}) = IF p \in T THEN Cardinality(T) - 1
                                                ELSE Cardinality(T)
          BY <4>1, AddOne
        <4> QED
          BY <4>2 DEF T
      <3> QED
        BY <1>6, <3>1
    <2>3. p \in A => Cardinality(A) > 0
      BY <1>1, FS_EmptySet
    <2>4. p \in S \cap A => Cardinality(S \cap A) > 0
      BY <1>2, FS_EmptySet
    <2> QED
      BY <1>1, <1>2, <1>4, <2>1, <2>2, <2>3, <2>4 DEF A, B
  <1> QED
    BY <1>3, <1>5, <1>6

(* The work of a task that does not move still suffices when a chunk goes  *)
(* or gets dirty.                                                          *)
LEMMA SufficesKept ==
    ASSUME TypeOK, NEW u \in Threads, Suffices(thread[u]), thread'[u] = thread[u],
           NEW p, Loaded' = Loaded \/ Loaded' = Loaded \ {p},
           Clean' \subseteq Clean
    PROVE  Suffices(thread[u])'
  <1> DEFINE r == thread[u]
             a == Cardinality(Loaded)
             b == Cardinality(Loaded')
             v == Cardinality(r.victims \cap Loaded)
             w == Cardinality(r.victims \cap Loaded')
  <1>1. /\ a \in Nat /\ b \in Nat /\ v \in Nat /\ w \in Nat
        /\ b <= a /\ b + v <= a + w
    BY LoadedFinite, LeftType, OneLess
  <1>2. r.need \in Nat /\ MaxChunks \in Nat
    BY ThreadType, StoreAssumption
  <1>3. \/ r.stage = "pickClean" /\ a <= MaxChunks + r.need
        \/ /\ EvictsClean(r)
           /\ a <= MaxChunks + r.need + v
           /\ r.need > 0 => Clean \subseteq r.victims
        \/ r.stage = "pickDirty" /\ a <= MaxChunks + r.need /\ Clean = {}
        \/ EvictsDirty(r) /\ a <= MaxChunks + v
    BY DEF Suffices, Left
  <1> HIDE DEF r, a, b, v, w
  <1>4. \/ r.stage = "pickClean" /\ b <= MaxChunks + r.need
        \/ /\ EvictsClean(r)
           /\ b <= MaxChunks + r.need + w
           /\ r.need > 0 => Clean' \subseteq r.victims
        \/ r.stage = "pickDirty" /\ b <= MaxChunks + r.need /\ Clean' = {}
        \/ EvictsDirty(r) /\ b <= MaxChunks + w
    <2>1. b <= a /\ \A n \in Nat : a <= n + v => b <= n + w
      BY <1>1
    <2>2. \A n \in Nat : a <= n => b <= n
      BY <1>1
    <2>3. MaxChunks + r.need \in Nat
      BY <1>2
    <2> QED
      BY <1>2, <1>3, <2>1, <2>2, <2>3
  <1>5. (r.stage = thread'[u].stage) /\ r.need = thread'[u].need /\ r = thread'[u]
    BY DEF r
  <1> QED
    BY <1>4, <1>5 DEF Suffices, Left, EvictsClean, EvictsDirty, b, w

(* A step under which no chunk appears and the work of the task that moves *)
(* still suffices.                                                         *)
LEMMA CapacityKept ==
    ASSUME TypeOK, CapInv,
           NEW p, Loaded' = Loaded \/ Loaded' = Loaded \ {p},
           Clean' \subseteq Clean,
           \A u \in Threads :
              \/ thread'[u] = thread[u]
              \/ WillCompare(thread[u])' \/ Cardinality(Loaded') <= MaxChunks
              \/ ~WillCompare(thread[u]) /\ (Suffices(thread[u]) => Suffices(thread[u])')
    PROVE  CapInv'
  <1>1. CASE Cardinality(Loaded) <= MaxChunks
    <2>1. /\ Cardinality(Loaded') <= Cardinality(Loaded)
          /\ Cardinality(Loaded') \in Nat /\ Cardinality(Loaded) \in Nat
          /\ MaxChunks \in Nat
      BY OneLess, LoadedFinite, StoreAssumption
    <2>2. Cardinality(Loaded') <= MaxChunks
      BY <1>1, <2>1
    <2> QED
      BY <2>2 DEF CapInv
  <1>2. ASSUME NEW u \in Threads, WillCompare(thread[u]) \/ Suffices(thread[u])
        PROVE  CapInv'
    <2>1. CASE thread'[u] = thread[u]
      <3>1. WillCompare(thread[u]) => WillCompare(thread[u])'
        BY <2>1 DEF WillCompare
      <3>2. Suffices(thread[u]) => Suffices(thread[u])'
        BY <2>1, SufficesKept
      <3> QED
        BY <1>2, <3>1, <3>2 DEF CapInv
    <2>2. CASE thread'[u] # thread[u]
      BY <1>2, <2>2 DEF CapInv
    <2> QED
      BY <2>1, <2>2
  <1> QED
    BY <1>1, <1>2 DEF CapInv


LEMMA CapacityInsert ==
    ASSUME TypeOK, CapInv, NEW t \in Threads, NEW p \in Pos, InsertChunk(t, p)
    PROVE  CapInv'
  <1> DEFINE r == [thread[t] EXCEPT !.stage = AfterInsert(p)]
  <1>1. r.stage \in {"count", "check"}
    BY ThreadType DEF Thread, AfterInsert
  <1>2. Becomes(t, r)
    BY DEF InsertChunk
  <1>3. thread'[t] = r
    BY <1>2, OthersKept
  <1> QED
    BY <1>1, <1>3 DEF CapInv, WillCompare

(* The comparison of the last task that could see the excess: every other  *)
(* task that moves the counter has done so, and the counter holds at least *)
(* the chunks of the map.                                                  *)
LEMMA CapacityCompare ==
    ASSUME TypeOK, CountAccounting, CapInv, leaked <= MaxUnloads,
           NEW t \in Threads, CheckCapacity(t)
    PROVE  CapInv'
  <1> DEFINE L == Cardinality(Loaded)
             r == IF Excess > 0
                  THEN [Idle EXCEPT !.stage = FirstPhase, !.need = Excess]
                  ELSE Idle
  <1>1. Loaded' = Loaded /\ Clean' = Clean
    BY DEF CheckCapacity, Loaded, Clean
  <1>2. Becomes(t, r) /\ thread[t].stage = "check"
    BY DEF CheckCapacity
  <1>3. thread'[t] = r /\ \A u \in Threads \ {t} : thread'[u] = thread[u]
    BY <1>2, OthersKept
  <1>4. CASE \E u \in Threads \ {t} : WillCompare(thread[u])
    BY <1>3, <1>4 DEF CapInv, WillCompare
  <1>5. CASE \A u \in Threads \ {t} : ~WillCompare(thread[u])
    <2>1. Uncounted = {}
      BY <1>2, <1>5 DEF Uncounted, WillCompare
    <2>2. /\ count = L + leaked + Cardinality(Unsubtracted)
          /\ L \in Nat /\ leaked \in Nat /\ Cardinality(Unsubtracted) \in Nat
      BY <2>1, FS_EmptySet, LoadedFinite, ThreadsFinite, SMTT(40) DEF CountAccounting, TypeOK
    <2>3. L <= Cardinality(Pos) /\ Cardinality(Unsubtracted) <= Cardinality(Threads)
      BY StoreAssumption, FS_Subset DEF Loaded, Unsubtracted
    <2>4. Cardinality(Pos) \in Nat /\ Cardinality(Threads) \in Nat
          /\ UsizeRange \in Nat \ {0} /\ MaxUnloads \in Nat /\ MaxChunks \in Nat
      BY StoreAssumption, FS_CardinalityType
    <2> HIDE DEF L, r
    <2>5. count >= L /\ count \in 0..(UsizeRange - 1)
      BY <2>2, <2>3, <2>4, RangeAssumption
    <2>6. Current = count
      BY <2>4, <2>5 DEF Current
    <2>7. CASE L <= MaxChunks
      BY <1>1, <2>7 DEF CapInv, L
    <2>8. CASE L > MaxChunks
      <3>1. Excess = count - MaxChunks /\ Excess \in Nat /\ Excess > 0
        BY <2>2, <2>4, <2>5, <2>6, <2>8 DEF Excess
      <3>2. r.stage = "pickClean" /\ r.need = Excess
        BY <3>1 DEF r, Idle, FirstPhase
      <3>3. L <= MaxChunks + Excess
        BY <2>2, <2>4, <2>5, <3>1
      <3>4. Suffices(thread[t])'
        BY <1>1, <1>3, <3>2, <3>3 DEF Suffices, L
      <3> QED
        BY <3>4 DEF CapInv
    <2> QED
      BY <2>2, <2>4, <2>7, <2>8
  <1> QED
    BY <1>4, <1>5

(* The pass over the clean chunks that is not enough takes all of them.    *)
LEMMA PickedClean ==
    ASSUME TypeOK, InOrder, NEW need \in Nat,
           need - Lesser(need, Cardinality(Clean)) > 0
    PROVE  Clean \subseteq Oldest(Clean, Lesser(need, Cardinality(Clean)))
  <1> DEFINE n == Lesser(need, Cardinality(Clean))
             V == Oldest(Clean, n)
  <1>1. IsFiniteSet(Clean) /\ Cardinality(Clean) \in Nat /\ Clean \in SUBSET Loaded
    BY LoadedFinite DEF Clean
  <1>2. n = Cardinality(Clean)
    BY <1>1 DEF Lesser
  <1> HIDE DEF n
  <1>3. Cardinality(V) = Cardinality(Clean) /\ V \subseteq Clean
    <2>1. n \in 0..Cardinality(Clean)
      BY <1>1, <1>2
    <2> QED
      BY <1>1, <1>2, <2>1, OldestCount DEF Oldest
  <1> QED
    BY <1>1, <1>3, FS_Subset DEF n

LEMMA CapacityClean ==
    ASSUME TypeOK, InOrder, CapInv, NEW t \in Threads,
           PickClean(t) \/ CleanPhaseDone(t)
    PROVE  CapInv'
  <1>1. Loaded' = Loaded /\ Clean' = Clean
    BY DEF PickClean, CleanPhaseDone, Loaded, Clean
  <1>2. MaxChunks \in Nat /\ Cardinality(Loaded) \in Nat /\ thread[t].need \in Nat
    BY StoreAssumption, LoadedFinite, ThreadType
  <1>3. CASE PickClean(t)
    <2> DEFINE c == Cardinality(Clean)
               n == Lesser(thread[t].need, c)
               V == Oldest(Clean, n)
               r == [thread[t] EXCEPT !.stage = "evictClean", !.victims = V,
                                      !.need = @ - n]
    <2>1. c \in Nat /\ n \in 0..c /\ thread[t].need - n \in Nat
      BY <1>2, LoadedFinite DEF Lesser
    <2>2. Clean \subseteq Loaded
      BY DEF Clean
    <2>3. Cardinality(V) = n /\ V \subseteq Clean
      BY <2>1, <2>2, OldestCount DEF Oldest
    <2>4. thread[t].need - n > 0 => Clean \subseteq V
      BY <1>2, PickedClean
    <2>5. V \cap Loaded = V
      BY <2>2, <2>3
    <2>6. Becomes(t, r) /\ thread[t].stage = "pickClean"
      BY <1>3 DEF PickClean
    <2>7. thread'[t] = r /\ \A u \in Threads \ {t} : thread'[u] = thread[u]
      BY <2>6, OthersKept
    <2> HIDE DEF V, n, c
    <2>8. /\ r.stage = "evictClean" /\ r.victims = V
          /\ r.need = thread[t].need - n
      BY ThreadType DEF Thread
    <2>9. Suffices(thread[t]) =>
            Cardinality(Loaded) <= MaxChunks + r.need + Cardinality(V)
      <3>1. Suffices(thread[t]) => Cardinality(Loaded) <= MaxChunks + thread[t].need
        BY <2>6 DEF Suffices, EvictsClean, EvictsDirty
      <3> QED
        BY <1>2, <2>1, <2>3, <2>8, <3>1
    <2>10. Suffices(thread[t]) => Suffices(thread[t])'
      BY <1>1, <2>4, <2>5, <2>7, <2>8, <2>9 DEF Suffices, Left, EvictsClean
    <2>11. ~WillCompare(thread[t])
      BY <2>6 DEF WillCompare
    <2> QED
      BY <1>1, <2>7, <2>10, <2>11, CapacityKept
  <1>4. CASE CleanPhaseDone(t)
    <2> DEFINE r == IF thread[t].need > 0
                    THEN [thread[t] EXCEPT !.stage = "pickDirty"]
                    ELSE Idle
    <2>1. Becomes(t, r) /\ thread[t].stage = "evictClean" /\ thread[t].victims = {}
      BY <1>4 DEF CleanPhaseDone
    <2>2. thread'[t] = r /\ \A u \in Threads \ {t} : thread'[u] = thread[u]
      BY <2>1, OthersKept
    <2>3. Left(thread[t]) = 0
      BY <2>1, FS_EmptySet DEF Left
    <2>4. Suffices(thread[t]) =>
            /\ Cardinality(Loaded) <= MaxChunks + thread[t].need
            /\ thread[t].need > 0 => Clean = {}
      BY <1>2, <2>1, <2>3 DEF Suffices, EvictsClean, EvictsDirty
    <2>5. thread[t].need > 0 => r.stage = "pickDirty" /\ r.need = thread[t].need
      BY ThreadType DEF Thread
    <2> HIDE DEF r
    <2>6. Suffices(thread[t]) =>
            Suffices(thread[t])' \/ Cardinality(Loaded') <= MaxChunks
      <3>1. CASE thread[t].need > 0
        BY <1>1, <2>2, <2>4, <2>5, <3>1 DEF Suffices
      <3>2. CASE thread[t].need = 0
        BY <1>1, <1>2, <2>4, <3>2
      <3> QED
        BY <1>2, <3>1, <3>2
    <2>7. ~WillCompare(thread[t])
      BY <2>1 DEF WillCompare
    <2> QED
      BY <1>1, <2>2, <2>6, <2>7, CapacityKept
  <1> QED
    BY <1>3, <1>4


LEMMA CapacityRemove ==
    ASSUME TypeOK, CapInv, NEW t \in Threads, NEW p,
           \/ thread[t].stage = "evictClean" /\ Remove(t, p, "evictClean")
           \/ thread[t].stage = "evictDirty" /\ Remove(t, p, "clone")
    PROVE  CapInv'
  <1> DEFINE after == IF thread[t].stage = "evictClean" THEN "evictClean" ELSE "clone"
             r == [thread[t] EXCEPT
                     !.victims = @ \ {p},
                     !.victim = NoChunk,
                     !.held = {},
                     !.then = after,
                     !.stage = IF p \in Loaded THEN "uncount" ELSE after]
  <1>1. Remove(t, p, after) /\ thread[t].stage \in {"evictClean", "evictDirty"}
    OBVIOUS
  <1>2. Becomes(t, r)
    BY <1>1 DEF Remove
  <1>3. thread'[t] = r /\ \A u \in Threads \ {t} : thread'[u] = thread[u]
    BY <1>2, OthersKept
  <1>4. Loaded' = Loaded \ {p}
    BY <1>1, LoadedAfterRemove
  <1>5. Clean' \subseteq Clean /\ (p \in Loaded => p \notin Clean')
    <2>1. \A q \in Pos : chunks'[q] = chunks[q] \/ (q = p /\ chunks'[q] = NoChunk)
      BY <1>1 DEF Remove, TypeOK
    <2> QED
      BY <1>4, <2>1 DEF Clean, Loaded
  <1>6. /\ r.stage \in {"uncount", after} /\ r.then = after
        /\ r.victims = thread[t].victims \ {p} /\ r.need = thread[t].need
    BY ThreadType DEF Thread
  <1>7. r.victims \cap Loaded' = thread[t].victims \cap Loaded'
    BY <1>4, <1>6
  <1> DEFINE a == Cardinality(Loaded)
             b == Cardinality(Loaded')
             v == Cardinality(thread[t].victims \cap Loaded)
             w == Cardinality(thread[t].victims \cap Loaded')
  <1>8. /\ a \in Nat /\ b \in Nat /\ v \in Nat /\ w \in Nat
        /\ b + v <= a + w
    BY <1>4, LoadedFinite, LeftType, OneLess
  <1>9. thread[t].need \in Nat /\ MaxChunks \in Nat
    BY ThreadType, StoreAssumption
  <1> HIDE DEF r, a, b, v, w, after
  <1>10. Clean \subseteq thread[t].victims => Clean' \subseteq r.victims
    BY <1>4, <1>5, <1>6 DEF Clean
  <1>11. CASE thread[t].stage = "evictClean"
    <2>1. Suffices(thread[t]) =>
            /\ a <= MaxChunks + thread[t].need + v
            /\ thread[t].need > 0 => Clean \subseteq thread[t].victims
      BY <1>11 DEF Suffices, EvictsClean, EvictsDirty, Left, a, v
    <2>2. Suffices(thread[t]) =>
            /\ b <= MaxChunks + r.need + w
            /\ r.need > 0 => Clean' \subseteq r.victims
      BY <1>6, <1>8, <1>9, <1>10, <2>1
    <2>3. EvictsClean(r)
      BY <1>6, <1>11 DEF EvictsClean, after
    <2>4. EvictsClean(thread[t])'
      BY <1>3, <2>3 DEF EvictsClean
    <2> QED
      BY <1>3, <1>4, <1>5, <1>7, <1>11, <2>2, <2>4, CapacityKept
      DEF Suffices, Left, b, w, WillCompare
  <1>12. CASE thread[t].stage = "evictDirty"
    <2>1. Suffices(thread[t]) => a <= MaxChunks + v
      BY <1>12 DEF Suffices, EvictsClean, EvictsDirty, Left, a, v
    <2>2. Suffices(thread[t]) => b <= MaxChunks + w
      BY <1>8, <1>9, <2>1
    <2>3. EvictsDirty(r)
      BY <1>6, <1>12 DEF EvictsDirty, after
    <2>4. EvictsDirty(thread[t])'
      BY <1>3, <2>3 DEF EvictsDirty
    <2> QED
      BY <1>3, <1>4, <1>5, <1>7, <1>12, <2>2, <2>4, CapacityKept
      DEF Suffices, Left, b, w, WillCompare
  <1> QED
    BY <1>1, <1>11, <1>12

(* The steps of an evictor that leave the map alone.                       *)
LEMMA CapacityQuiet ==
    ASSUME TypeOK, InOrder, CapInv, NEW t \in Threads,
           \/ CountInserted(t) \/ Uncount(t) \/ PickDirty(t)
           \/ CloneVictim(t) \/ WriteVictim(t) \/ WriteVictimFails(t)
           \/ DirtyPhaseDone(t)
    PROVE  CapInv'
  <1>1. Loaded' = Loaded /\ Clean' = Clean
    BY DEF CountInserted, Uncount, PickDirty, CloneVictim, WriteVictim,
           WriteVictimFails, DirtyPhaseDone, Loaded, Clean
  <1>2. MaxChunks \in Nat /\ Cardinality(Loaded) \in Nat /\ thread[t].need \in Nat
    BY StoreAssumption, LoadedFinite, ThreadType
  <1>3. CASE CountInserted(t)
    <2> DEFINE r == [thread[t] EXCEPT !.stage = "check"]
    <2>1. Becomes(t, r) /\ r.stage = "check"
      BY <1>3, ThreadType DEF CountInserted, Thread
    <2>2. thread'[t] = r
      BY <2>1, OthersKept
    <2> QED
      BY <2>1, <2>2 DEF CapInv, WillCompare
  <1>4. CASE Uncount(t)
    <2> DEFINE r == [thread[t] EXCEPT !.stage = thread[t].then]
    <2>1. Becomes(t, r) /\ thread[t].stage = "uncount"
      BY <1>4 DEF Uncount
    <2>2. /\ r.stage = thread[t].then /\ r.need = thread[t].need
          /\ r.victims = thread[t].victims
      BY ThreadType DEF Thread
    <2>3. thread'[t] = r /\ \A u \in Threads \ {t} : thread'[u] = thread[u]
      BY <2>1, OthersKept
    <2> HIDE DEF r
    <2>4. Suffices(thread[t]) => Suffices(thread[t])'
      BY <1>1, <2>1, <2>2, <2>3 DEF Suffices, Left, EvictsClean, EvictsDirty
    <2> QED
      BY <1>1, <2>1, <2>3, <2>4, CapacityKept DEF WillCompare
  <1>5. CASE PickDirty(t)
    <2> DEFINE c == Cardinality(Dirty)
               n == Lesser(thread[t].need, c)
               V == Oldest(Dirty, n)
               r == [thread[t] EXCEPT !.stage = "clone", !.victims = V, !.need = 0]
    <2>1. c \in Nat /\ n \in 0..c
      BY <1>2, LoadedFinite DEF Lesser
    <2>2. Dirty \subseteq Loaded /\ (Clean = {} => Dirty = Loaded)
      BY DEF Dirty, Clean
    <2>3. Cardinality(V) = n /\ V \subseteq Dirty
      BY <2>1, <2>2, OldestCount DEF Oldest
    <2>4. V \cap Loaded = V
      BY <2>2, <2>3
    <2>5. Becomes(t, r) /\ thread[t].stage = "pickDirty"
      BY <1>5 DEF PickDirty
    <2>6. thread'[t] = r /\ \A u \in Threads \ {t} : thread'[u] = thread[u]
      BY <2>5, OthersKept
    <2>7. n = thread[t].need \/ n = c
      BY DEF Lesser
    <2>8. Clean = {} => c = Cardinality(Loaded)
      BY <2>2
    <2> HIDE DEF V, n, c
    <2>9. r.stage = "clone" /\ r.victims = V
      BY ThreadType DEF Thread
    <2> HIDE DEF r
    <2>10. Suffices(thread[t]) =>
             Cardinality(Loaded) <= MaxChunks + thread[t].need /\ Clean = {}
      BY <2>5 DEF Suffices, EvictsClean, EvictsDirty
    <2>11. Suffices(thread[t]) => Cardinality(Loaded) <= MaxChunks + Cardinality(V)
      BY <1>2, <2>1, <2>3, <2>7, <2>8, <2>10
    <2>12. Suffices(thread[t]) => Suffices(thread[t])'
      BY <1>1, <2>4, <2>6, <2>9, <2>11 DEF Suffices, Left, EvictsDirty
    <2> QED
      BY <1>1, <2>5, <2>6, <2>12, CapacityKept DEF WillCompare
  <1>6. CASE CloneVictim(t) \/ WriteVictim(t) \/ WriteVictimFails(t)
    <2>1. PICK r : /\ Becomes(t, r) /\ r.victims = thread[t].victims
                   /\ r.stage \in {"write", "evictDirty"}
      <3>1. CASE CloneVictim(t)
        <4>1. PICK q \in thread[t].victims :
                Becomes(t, [thread[t] EXCEPT
                    !.victim = q,
                    !.held = Content(q),
                    !.stage = IF q \in Loaded THEN "write" ELSE "evictDirty"])
          BY <3>1 DEF CloneVictim
        <4> DEFINE w == [thread[t] EXCEPT
                    !.victim = q,
                    !.held = Content(q),
                    !.stage = IF q \in Loaded THEN "write" ELSE "evictDirty"]
        <4>2. w.victims = thread[t].victims /\ w.stage \in {"write", "evictDirty"}
          BY ThreadType DEF Thread
        <4> QED
          BY <4>1, <4>2
      <3>2. CASE WriteVictim(t) \/ WriteVictimFails(t)
        <4>1. Becomes(t, [thread[t] EXCEPT !.stage = "evictDirty"])
          BY <3>2 DEF WriteVictim, WriteVictimFails
        <4> QED
          BY <4>1, ThreadType DEF Thread
      <3> QED
        BY <1>6, <3>1, <3>2
    <2>2. thread[t].stage \in {"clone", "write"}
      BY <1>6 DEF CloneVictim, WriteVictim, WriteVictimFails
    <2>3. thread'[t] = r /\ \A u \in Threads \ {t} : thread'[u] = thread[u]
      BY <2>1, OthersKept
    <2>4. Suffices(thread[t]) => Cardinality(Loaded) <= MaxChunks + Left(thread[t])
      BY <2>2 DEF Suffices, EvictsClean, EvictsDirty
    <2>5. Suffices(thread[t]) => Suffices(thread[t])'
      BY <1>1, <2>1, <2>3, <2>4 DEF Suffices, Left, EvictsDirty
    <2> QED
      BY <1>1, <2>2, <2>3, <2>5, CapacityKept DEF WillCompare
  <1>7. CASE DirtyPhaseDone(t)
    <2>1. /\ Becomes(t, Idle) /\ thread[t].stage = "clone"
          /\ thread[t].victims = {}
      BY <1>7 DEF DirtyPhaseDone
    <2>2. thread'[t] = Idle /\ \A u \in Threads \ {t} : thread'[u] = thread[u]
      BY <2>1, OthersKept
    <2>3. Left(thread[t]) = 0
      BY <2>1, FS_EmptySet DEF Left
    <2>4. Suffices(thread[t]) => Cardinality(Loaded') <= MaxChunks
      BY <1>1, <1>2, <2>1, <2>3 DEF Suffices, EvictsClean, EvictsDirty
    <2> QED
      BY <1>1, <2>1, <2>2, <2>4, CapacityKept DEF WillCompare
  <1> QED
    BY <1>3, <1>4, <1>5, <1>6, <1>7

(* Edits make chunks dirty and views take chunks away: neither is a reason *)
(* to ask for more.                                                        *)
LEMMA CapacityOthers ==
    ASSUME TypeOK, CapInv, NEW p \in Pos, SetBlock(p) \/ Unload(p)
    PROVE  CapInv'
  <1>1. thread' = thread
    BY DEF SetBlock, Unload
  <1>2. CASE SetBlock(p)
    <2>1. Loaded' = Loaded
      BY <1>2, LoadedAfterSetBlock
    <2>2. Clean' \subseteq Clean
      BY <1>2, <2>1 DEF SetBlock, Clean, TypeOK
    <2> QED
      BY <1>1, <2>1, <2>2, CapacityKept
  <1>3. CASE Unload(p)
    <2>1. Loaded' = Loaded \ {p} /\ Clean' \subseteq Clean
      BY <1>3 DEF Unload, Loaded, Clean, TypeOK
    <2> QED
      BY <1>1, <2>1, CapacityKept
  <1> QED
    BY <1>2, <1>3

CapacityInv == InOrder /\ leaked <= MaxUnloads /\ CapInv

LEMMA LeakedBounded ==
    ASSUME TypeOK, leaked <= MaxUnloads, [Next]_vars
    PROVE  leaked' <= MaxUnloads
  <1>1. CASE UNCHANGED leaked
    BY <1>1
  <1>2. ASSUME NEW p \in Pos, Unload(p)
        PROVE  leaked' <= MaxUnloads
    BY <1>2, StoreAssumption DEF Unload, TypeOK
  <1>3. ASSUME NEW p \in Pos, SetBlock(p)
        PROVE  leaked' = leaked
    BY <1>3 DEF SetBlock
  <1>4. ASSUME NEW t \in Threads, Step(t)
        PROVE  leaked' = leaked
    BY <1>4 DEF Step, InsertChunk, CountInserted, CheckCapacity, PickClean,
                EvictClean, Uncount, CleanPhaseDone, PickDirty, CloneVictim,
                WriteVictim, WriteVictimFails, EvictDirty, DirtyPhaseDone
  <1> QED
    BY <1>1, <1>2, <1>3, <1>4 DEF Next, vars

LEMMA CapacityStep ==
    TypeOK /\ CountAccounting /\ CapacityInv /\ [Next]_vars => CapacityInv'
  <1> SUFFICES ASSUME TypeOK, CountAccounting, CapacityInv, [Next]_vars
               PROVE  CapacityInv'
    OBVIOUS
  <1>1. InOrder' /\ leaked' <= MaxUnloads
    BY OrderStep, LeakedBounded DEF CapacityInv
  <1>2. CASE UNCHANGED vars
    BY <1>1, <1>2 DEF vars, CapacityInv, CapInv, Suffices, Left, EvictsClean,
                      EvictsDirty, WillCompare, Loaded, Clean
  <1>3. ASSUME NEW t \in Threads, Step(t)
        PROVE  CapInv'
    <2>1. ASSUME EvictClean(t) \/ EvictDirty(t)
          PROVE  CapInv'
      BY <2>1, CapacityRemove DEF EvictClean, EvictDirty, CapacityInv
    <2>2. ASSUME ~EvictClean(t), ~EvictDirty(t)
          PROVE  CapInv'
      BY <1>3, <2>2, CapacityInsert, CapacityCompare, CapacityClean, CapacityQuiet
      DEF Step, CapacityInv
    <2> QED
      BY <2>1, <2>2
  <1>4. ASSUME NEW p \in Pos, SetBlock(p) \/ Unload(p)
        PROVE  CapInv'
    BY <1>4, CapacityOthers DEF CapacityInv
  <1> QED
    BY <1>1, <1>2, <1>3, <1>4 DEF Next, CapacityInv

(* When no insert is under way the store holds at most max_chunks chunks,  *)
(* whatever the evictors' counts and candidate lists missed meanwhile.     *)
THEOREM CapacityOnceSettled == Spec => []SettledCapacity
  <1>1. Init => CapacityInv
    <2> SUFFICES ASSUME Init PROVE CapacityInv
      OBVIOUS
    <2>1. Loaded = {}
      BY DEF Init, Loaded
    <2>2. Cardinality(Loaded) <= MaxChunks
      BY <2>1, FS_EmptySet, StoreAssumption
    <2> QED
      BY <2>2, OrderInit, StoreAssumption DEF Init, CapacityInv, CapInv
  <1>2. TypeOK /\ CapacityInv => SettledCapacity
    BY DEF CapacityInv, CapInv, SettledCapacity, Suffices, EvictsClean,
           EvictsDirty, WillCompare
  <1> QED
    BY <1>1, <1>2, CapacityStep, TypeCorrect, CounterIsAccountedFor, PTL DEF Spec


-----------------------------------------------------------------------------
(* The order of eviction, for one inserting task                           *)

(* What the task knows of the clean chunks: a victim is older than every   *)
(* clean chunk it has not chosen, and when it will flush dirty chunks no   *)
(* clean one is left.                                                      *)
OlderThanRest(r) ==
    \A p \in r.victims \cap Clean : \A q \in Clean \ r.victims : q \notin lru[p]

InDirtyPhase(r) == r.stage = "pickDirty" \/ EvictsDirty(r)

KnowsOrder(r) ==
    /\ EvictsClean(r) => /\ OlderThanRest(r)
                         /\ r.need > 0 => Clean \subseteq r.victims
    /\ InDirtyPhase(r) => Clean = {}

OrderInv ==
    /\ inserting \subseteq Threads
    /\ \A t \in Threads \ inserting : thread[t].stage = "idle"
    /\ Alone => \A t \in Threads : KnowsOrder(thread[t])

LEMMA AloneIsOne ==
    ASSUME inserting \subseteq Threads, Alone
    PROVE  \E s \in Threads : inserting = {s}
  <1>1. IsFiniteSet(inserting)
    BY StoreAssumption, FS_Subset
  <1> QED
    BY <1>1, FS_Singleton DEF Alone

LEMMA OldestAreOlder ==
    ASSUME TypeOK, InOrder, NEW S \in SUBSET Loaded, NEW n \in Nat,
           NEW p \in Oldest(S, n), NEW q \in S \ Oldest(S, n)
    PROVE  q \notin lru[p]
  <1>1. p \in S /\ Rank(S, p) < n /\ ~(Rank(S, q) < n)
    BY DEF Oldest, Rank
  <1>2. Rank(S, p) \in Nat /\ Rank(S, q) \in Nat
    <2>1. Cardinality(S) \in Nat
      BY LoadedFinite, FS_Subset, FS_CardinalityType
    <2> QED
      BY <1>1, <2>1, RankType
  <1>3. q \in lru[p] => Rank(S, q) < Rank(S, p)
    BY <1>1, RankGrows
  <1> QED
    BY <1>1, <1>2, <1>3

(* What a task knows it keeps knowing while clean chunks only go or get    *)
(* dirty and no order between two of them changes.                         *)
LEMMA OrderKept ==
    ASSUME NEW t \in Threads, KnowsOrder(thread[t]),
           Clean' \subseteq Clean,
           \A p \in Clean' : lru'[p] \subseteq lru[p],
           EvictsClean(thread[t])' => EvictsClean(thread[t]),
           InDirtyPhase(thread[t])' => InDirtyPhase(thread[t]),
           thread'[t].need = thread[t].need \/ ~EvictsClean(thread[t])',
           thread'[t].victims \subseteq thread[t].victims \/ ~EvictsClean(thread[t])',
           \/ Clean' \cap thread[t].victims \subseteq thread'[t].victims
           \/ ~EvictsClean(thread[t])'
    PROVE  KnowsOrder(thread[t])'
  BY DEF KnowsOrder, OlderThanRest


(* The steps of the one inserting task.                                    *)
LEMMA OrderOfStep ==
    ASSUME TypeOK, InOrder, NEW t \in Threads, KnowsOrder(thread[t]), Step(t)
    PROVE  KnowsOrder(thread[t])'
  <1>1. thread[t].need \in Nat
    BY ThreadType
  <1>2. ASSUME NEW p \in Pos, InsertChunk(t, p)
        PROVE  KnowsOrder(thread[t])'
    <2> DEFINE r == [thread[t] EXCEPT !.stage = AfterInsert(p)]
    <2>1. Becomes(t, r) /\ r.stage \in {"count", "check"}
      BY <1>2, ThreadType DEF InsertChunk, AfterInsert, Thread
    <2>2. thread'[t] = r
      BY <2>1, OthersKept
    <2> HIDE DEF r
    <2> QED
      BY <2>1, <2>2 DEF KnowsOrder, EvictsClean, EvictsDirty, InDirtyPhase
  <1>3. CASE CountInserted(t)
    <2> DEFINE r == [thread[t] EXCEPT !.stage = "check"]
    <2>1. Becomes(t, r) /\ r.stage = "check"
      BY <1>3, ThreadType DEF CountInserted, Thread
    <2>2. thread'[t] = r
      BY <2>1, OthersKept
    <2> HIDE DEF r
    <2> QED
      BY <2>1, <2>2 DEF KnowsOrder, EvictsClean, EvictsDirty, InDirtyPhase
  <1>4. CASE CheckCapacity(t)
    <2> DEFINE r == IF Excess > 0
                    THEN [Idle EXCEPT !.stage = FirstPhase, !.need = Excess]
                    ELSE Idle
    <2>1. Becomes(t, r) /\ r.stage \in {"pickClean", "idle"}
      BY <1>4 DEF CheckCapacity, Idle, FirstPhase
    <2>2. thread'[t] = r
      BY <2>1, OthersKept
    <2> HIDE DEF r
    <2> QED
      BY <2>1, <2>2 DEF KnowsOrder, EvictsClean, EvictsDirty, InDirtyPhase
  <1>5. CASE PickClean(t)
    <2> DEFINE n == Lesser(thread[t].need, Cardinality(Clean))
               V == Oldest(Clean, n)
               r == [thread[t] EXCEPT !.stage = "evictClean", !.victims = V,
                                      !.need = @ - n]
    <2>1. Becomes(t, r)
      BY <1>5 DEF PickClean
    <2>2. thread'[t] = r
      BY <2>1, OthersKept
    <2>3. r.stage = "evictClean" /\ r.victims = V /\ r.need = thread[t].need - n
      BY ThreadType DEF Thread
    <2>4. Clean' = Clean /\ lru' = lru /\ Clean \subseteq Loaded
      BY <1>5 DEF PickClean, Clean, Loaded
    <2>5. r.need > 0 => Clean \subseteq r.victims
      BY <1>1, <2>3, PickedClean
    <2>6. n \in Nat
      BY <1>1, LesserType, LoadedFinite
    <2> HIDE DEF n
    <2>7. \A p \in V : \A q \in Clean \ V : q \notin lru[p]
      BY <2>4, <2>6, OldestAreOlder
    <2> HIDE DEF V, r
    <2> QED
      BY <2>2, <2>3, <2>4, <2>5, <2>7
      DEF KnowsOrder, EvictsClean, EvictsDirty, InDirtyPhase, OlderThanRest
  <1>6. CASE EvictClean(t) \/ EvictDirty(t)
    <2>1. PICK p, after :
             /\ Remove(t, p, after)
             /\ \/ thread[t].stage = "evictClean" /\ after = "evictClean"
                \/ thread[t].stage = "evictDirty" /\ after = "clone"
      BY <1>6 DEF EvictClean, EvictDirty
    <2> DEFINE r == [thread[t] EXCEPT
                       !.victims = @ \ {p},
                       !.victim = NoChunk,
                       !.held = {},
                       !.then = after,
                       !.stage = IF p \in Loaded THEN "uncount" ELSE after]
    <2>2. thread'[t] = r
      BY <2>1, OthersKept DEF Remove
    <2>3. /\ r.stage \in {"uncount", after} /\ r.then = after
          /\ r.victims = thread[t].victims \ {p} /\ r.need = thread[t].need
      BY ThreadType DEF Thread
    <2> HIDE DEF r
    <2>4. Loaded' = Loaded \ {p}
      BY <2>1, LoadedAfterRemove
    <2>5. Clean' \subseteq Clean /\ p \notin Clean'
      BY <2>1, <2>4 DEF Remove, Clean, Loaded, TypeOK
    <2>6. \A q \in Clean' : lru'[q] \subseteq lru[q]
      BY <2>1, <2>5 DEF Remove, Unstamp, Clean, Loaded
    <2>7. /\ EvictsClean(thread[t])' => EvictsClean(thread[t])
          /\ InDirtyPhase(thread[t])' => InDirtyPhase(thread[t])
      BY <2>1, <2>2, <2>3 DEF EvictsClean, EvictsDirty, InDirtyPhase
    <2> QED
      BY <2>2, <2>3, <2>5, <2>6, <2>7, OrderKept
  <1>7. CASE Uncount(t) \/ CloneVictim(t) \/ WriteVictim(t) \/ WriteVictimFails(t)
    <2>1. PICK r :
             /\ Becomes(t, r)
             /\ r.victims = thread[t].victims /\ r.need = thread[t].need
             /\ \/ thread[t].stage = "uncount" /\ r.stage = thread[t].then
                \/ /\ thread[t].stage \in {"clone", "write"}
                   /\ r.stage \in {"write", "evictDirty"}
      <3>1. CASE Uncount(t)
        <4> DEFINE w == [thread[t] EXCEPT !.stage = thread[t].then]
        <4>1. /\ w.victims = thread[t].victims /\ w.need = thread[t].need
              /\ w.stage = thread[t].then
          BY ThreadType DEF Thread
        <4> QED
          BY <3>1, <4>1 DEF Uncount
      <3>2. CASE CloneVictim(t)
        <4>1. PICK q \in thread[t].victims :
                Becomes(t, [thread[t] EXCEPT
                    !.victim = q,
                    !.held = Content(q),
                    !.stage = IF q \in Loaded THEN "write" ELSE "evictDirty"])
          BY <3>2 DEF CloneVictim
        <4> DEFINE w == [thread[t] EXCEPT
                    !.victim = q,
                    !.held = Content(q),
                    !.stage = IF q \in Loaded THEN "write" ELSE "evictDirty"]
        <4>2. /\ w.victims = thread[t].victims /\ w.need = thread[t].need
              /\ w.stage \in {"write", "evictDirty"}
          BY ThreadType DEF Thread
        <4> QED
          BY <3>2, <4>1, <4>2 DEF CloneVictim
      <3>3. CASE WriteVictim(t) \/ WriteVictimFails(t)
        <4> DEFINE w == [thread[t] EXCEPT !.stage = "evictDirty"]
        <4>1. /\ w.victims = thread[t].victims /\ w.need = thread[t].need
              /\ w.stage = "evictDirty"
          BY ThreadType DEF Thread
        <4> QED
          BY <3>3, <4>1 DEF WriteVictim, WriteVictimFails
      <3> QED
        BY <1>7, <3>1, <3>2, <3>3
    <2>2. thread'[t] = r
      BY <2>1, OthersKept
    <2>3. Clean' = Clean /\ lru' = lru
      BY <1>7 DEF Uncount, CloneVictim, WriteVictim, WriteVictimFails, Clean, Loaded
    <2>4. thread[t].then \in {"evictClean", "clone"}
      BY ThreadType
    <2>5. /\ EvictsClean(thread[t])' => EvictsClean(thread[t])
          /\ InDirtyPhase(thread[t])' => InDirtyPhase(thread[t])
      BY <2>1, <2>2, <2>4 DEF EvictsClean, EvictsDirty, InDirtyPhase
    <2> QED
      BY <2>1, <2>2, <2>3, <2>5, OrderKept
  <1>8. CASE CleanPhaseDone(t)
    <2> DEFINE r == IF thread[t].need > 0
                    THEN [thread[t] EXCEPT !.stage = "pickDirty"]
                    ELSE Idle
    <2>1. Becomes(t, r) /\ thread[t].stage = "evictClean" /\ thread[t].victims = {}
      BY <1>8 DEF CleanPhaseDone
    <2>2. thread'[t] = r /\ Clean' = Clean
      BY <1>8, <2>1, OthersKept DEF CleanPhaseDone, Clean, Loaded
    <2>3. r.stage = IF thread[t].need > 0 THEN "pickDirty" ELSE "idle"
      BY ThreadType DEF Thread, Idle
    <2> HIDE DEF r
    <2>4. thread[t].need > 0 => Clean = {}
      BY <2>1 DEF KnowsOrder, EvictsClean
    <2> QED
      BY <2>2, <2>3, <2>4 DEF KnowsOrder, EvictsClean, EvictsDirty, InDirtyPhase
  <1>9. CASE PickDirty(t)
    <2> DEFINE V == Oldest(Dirty, Lesser(thread[t].need, Cardinality(Dirty)))
               r == [thread[t] EXCEPT !.stage = "clone", !.victims = V, !.need = 0]
    <2>1. Becomes(t, r) /\ thread[t].stage = "pickDirty"
      BY <1>9 DEF PickDirty
    <2>2. thread'[t] = r /\ Clean' = Clean
      BY <1>9, <2>1, OthersKept DEF PickDirty, Clean, Loaded
    <2> HIDE DEF V
    <2>3. r.stage = "clone"
      BY ThreadType DEF Thread
    <2> HIDE DEF r
    <2> QED
      BY <2>1, <2>2, <2>3 DEF KnowsOrder, EvictsClean, EvictsDirty, InDirtyPhase
  <1>10. CASE DirtyPhaseDone(t)
    <2>1. thread'[t] = Idle
      BY <1>10, OthersKept DEF DirtyPhaseDone
    <2> QED
      BY <2>1 DEF KnowsOrder, EvictsClean, EvictsDirty, InDirtyPhase, Idle
  <1> QED
    BY <1>2, <1>3, <1>4, <1>5, <1>6, <1>7, <1>8, <1>9, <1>10 DEF Step

LEMMA StepMovesOne ==
    ASSUME TypeOK, NEW t \in Threads, Step(t)
    PROVE  \A u \in Threads \ {t} : thread'[u] = thread[u]
  <1>1. \E r : Becomes(t, r)
    BY DEF Step, InsertChunk, CountInserted, CheckCapacity, PickClean, EvictClean,
           Remove, Uncount, CleanPhaseDone, PickDirty, CloneVictim, WriteVictim,
           WriteVictimFails, EvictDirty, DirtyPhaseDone
  <1> QED
    BY <1>1, OthersKept

LEMMA OrderInvStep ==
    ASSUME TypeOK, InOrder, OrderInv, [StoreNext]_<<vars, inserting>>
    PROVE  OrderInv'
  <1>1. inserting' = inserting /\ Alone' = Alone
    BY DEF StoreNext, Alone
  <1>2. CASE UNCHANGED <<vars, inserting>>
    BY <1>1, <1>2 DEF vars, OrderInv, KnowsOrder, EvictsClean, EvictsDirty,
                      InDirtyPhase, OlderThanRest, Clean, Loaded
  <1>3. ASSUME NEW s \in inserting, Step(s)
        PROVE  OrderInv'
    <2>1. s \in Threads /\ \A u \in Threads \ {s} : thread'[u] = thread[u]
      BY <1>3, StepMovesOne DEF OrderInv
    <2>2. \A t \in Threads \ inserting : thread'[t].stage = "idle"
      BY <2>1 DEF OrderInv
    <2>3. ASSUME Alone, NEW t \in Threads
          PROVE  KnowsOrder(thread[t])'
      <3>1. CASE t = s
        BY <1>3, <2>1, <2>3, <3>1, OrderOfStep DEF OrderInv
      <3>2. CASE t # s
        <4>1. t \notin inserting
          BY <2>3, <3>2, AloneIsOne DEF OrderInv
        <4> QED
          BY <2>2, <4>1 DEF KnowsOrder, EvictsClean, EvictsDirty, InDirtyPhase
      <3> QED
        BY <3>1, <3>2
    <2> QED
      BY <1>1, <2>2, <2>3 DEF OrderInv
  <1>4. ASSUME NEW p \in Pos, SetBlock(p)
        PROVE  OrderInv'
    <2>1. thread' = thread /\ Loaded' = Loaded
      BY <1>4, LoadedAfterSetBlock DEF SetBlock
    <2>2. Clean' \subseteq Clean \ {p}
      BY <1>4, <2>1 DEF SetBlock, Clean, Loaded, TypeOK
    <2>3. \A q \in Clean' : lru'[q] \subseteq lru[q]
      BY <1>4, <2>2 DEF SetBlock, Touch, Clean, Loaded
    <2>4. ASSUME NEW t \in Threads, KnowsOrder(thread[t])
          PROVE  KnowsOrder(thread[t])'
      <3>1. /\ EvictsClean(thread[t])' => EvictsClean(thread[t])
            /\ InDirtyPhase(thread[t])' => InDirtyPhase(thread[t])
        BY <2>1 DEF EvictsClean, EvictsDirty, InDirtyPhase
      <3> QED
        BY <2>1, <2>2, <2>3, <2>4, <3>1, OrderKept
    <2> QED
      BY <1>1, <2>1, <2>4 DEF OrderInv
  <1>5. CASE ~Alone /\ \E p \in Pos : Unload(p)
    BY <1>1, <1>5 DEF OrderInv, Unload
  <1> QED
    BY <1>2, <1>3, <1>4, <1>5 DEF StoreNext

(* The chunk that a step takes out in phase 1 is a victim of the task that *)
(* moved.                                                                  *)
LEMMA OldestIsTaken ==
    ASSUME TypeOK, OrderInv, Alone, StoreNext
    PROVE  OldestGoes
  <1> SUFFICES ASSUME NEW t \in Threads, NEW p \in Pos, Evicts(t, p),
                      thread'[t] # thread[t], thread[t].stage = "evictClean",
                      p \in Clean
               PROVE  \A q \in Clean \ thread[t].victims : q \notin lru[p]
    BY DEF OldestGoes
  <1>1. p \in Loaded /\ chunks'[p] = NoChunk
    BY DEF Evicts
  <1>2. PICK s \in Threads : Step(s)
    BY DEF StoreNext, OrderInv, SetBlock
  <1>3. s = t
    BY <1>2, StepMovesOne
  <1>4. EvictClean(t) \/ CleanPhaseDone(t)
    BY <1>2, <1>3 DEF Step, InsertChunk, CountInserted, CheckCapacity, PickClean,
           Uncount, PickDirty, CloneVictim, WriteVictim,
           WriteVictimFails, EvictDirty, DirtyPhaseDone
  <1>5. chunks' # chunks
    BY <1>1 DEF Loaded
  <1>6. PICK v \in thread[t].victims : Remove(t, v, "evictClean")
    BY <1>4, <1>5 DEF EvictClean, CleanPhaseDone
  <1>7. p = v
    BY <1>1, <1>6 DEF Remove, Loaded, TypeOK
  <1> QED
    BY <1>6, <1>7 DEF OrderInv, KnowsOrder, EvictsClean, OlderThanRest

LEMMA StoreStep ==
    ASSUME OrderInv, [StoreNext]_<<vars, inserting>>
    PROVE  [Next]_vars
  BY DEF OrderInv, StoreNext, Next, vars

(* One inserting task flushes a dirty chunk only when no clean chunk is    *)
(* left, and evicts in phase 1 only chunks older than the clean ones that  *)
(* stay, whatever is edited and touched between its passes and removals.   *)
THEOREM OneTaskEvictsInOrder == StoreSpec => EvictsInOrder
  <1> DEFINE Inv == TypeOK /\ InOrder /\ OrderInv
  <1>1. StoreInit => Inv
    <2> SUFFICES ASSUME StoreInit PROVE Inv
      OBVIOUS
    <2>1. TypeOK
      BY StoreAssumption, IdleType DEF StoreInit, Init, TypeOK
    <2>2. InOrder
      BY OrderInit DEF StoreInit
    <2>3. OrderInv
      BY DEF StoreInit, Init, OrderInv, KnowsOrder, EvictsClean, EvictsDirty,
             InDirtyPhase, Idle
    <2> QED
      BY <2>1, <2>2, <2>3
  <1>2. Inv /\ [StoreNext]_<<vars, inserting>> => Inv'
    BY StoreStep, TypeStep, OrderStep, OrderInvStep
  <1>3. Inv /\ Inv' /\ [StoreNext]_<<vars, inserting>>
          => [Alone => CleanFirst' /\ OldestGoes]_<<vars, inserting>>
    <2> SUFFICES ASSUME Inv, Inv', StoreNext, Alone
                 PROVE  CleanFirst' /\ OldestGoes
      BY DEF StoreNext
    <2>1. OldestGoes
      BY OldestIsTaken
    <2>2. Alone'
      BY DEF StoreNext, Alone
    <2>3. CleanFirst'
      BY <2>2 DEF CleanFirst, OrderInv, KnowsOrder, InDirtyPhase, EvictsDirty
    <2> QED
      BY <2>1, <2>3
  <1> QED
    BY <1>1, <1>2, <1>3, PTL DEF StoreSpec, EvictsInOrder
=============================================================================
