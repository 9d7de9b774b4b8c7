---------------------------- MODULE SessionProofs ----------------------------
(* Proofs about Session, for every set of players and connections and      *)
(* every value of the bounds.                                              *)
EXTENDS Session, FiniteSetTheorems, TLAPS

TaskRecord == [stage: Stages, who: Players \cup {Nobody}]

(* What a step does to the table of tasks.                                 *)
LEMMA Moved ==
    ASSUME task \in [Conns -> TaskRecord], NEW c \in Conns, NEW stage \in Stages,
           ToStage(c, stage)
    PROVE  /\ task' \in [Conns -> TaskRecord]
           /\ task'[c].stage = stage /\ task'[c].who = task[c].who
           /\ \A d \in Conns \ {c} : task'[d] = task[d]
  BY DEF ToStage, TaskRecord

LEMMA Closed ==
    ASSUME task \in [Conns -> TaskRecord], NEW c \in Conns, Close(c)
    PROVE  /\ task' \in [Conns -> TaskRecord]
           /\ task'[c].stage = "none" /\ task'[c].who = Nobody
           /\ \A d \in Conns \ {c} : task'[d] = task[d]
           /\ kicked' = kicked \ {c} /\ slipped' = slipped \ {c}
  BY DEF Close, TaskRecord, NoTask, Stages

(* What a step does to PlayerManager's map.                                *)
LEMMA PutEffect ==
    ASSUME NEW u, NEW units, Put(u, units)
    PROVE  /\ Online' = Online \cup {u}
           /\ online'[u] = units
           /\ \A v \in Online \ {u} : online'[v] = online[v]
           /\ online' = [v \in Online \cup {u} |-> online'[v]]
  BY DEF Put, Online

LEMMA PutType ==
    ASSUME Online \subseteq Players, online \in [Online -> SUBSET Unit],
           NEW u \in Players, NEW units \in SUBSET Unit, Put(u, units)
    PROVE  Online' \subseteq Players /\ online' \in [Online' -> SUBSET Unit]
  <1>1. Online' = Online \cup {u}
    BY PutEffect
  <1>2. online' = [v \in Online \cup {u} |-> IF v = u THEN units ELSE online[v]]
    BY DEF Put
  <1> HIDE DEF Online
  <1>3. online' \in [Online \cup {u} -> SUBSET Unit]
    BY <1>2
  <1> QED
    BY <1>1, <1>3

LEMMA WithoutEffect ==
    ASSUME NEW u, online' = Without(u)
    PROVE  /\ Online' = Online \ {u}
           /\ \A v \in Online \ {u} : online'[v] = online[v]
           /\ online' = [v \in Online \ {u} |-> online'[v]]
  BY DEF Without, Online

-----------------------------------------------------------------------------
(* Type correctness                                                        *)

SaverType ==
    \E D \in SUBSET Players :
        saver \in [stage: {"idle", "rows", "bans", "finalRows", "finalBans"},
                   todo: [D -> SUBSET Unit], bans: SUBSET Players]

(* TypeOK, with what the saves hold and whom the connections are for.      *)
TypeInv ==
    /\ TypeOK
    /\ SaverType
    /\ \A c \in Conns : task[c].stage # "none" => task[c].who \in Players
    /\ \A c \in Conns : task[c].stage = "none" => task[c].who = Nobody

(* TypeOK by parts, one for each group of variables.                       *)
TasksOK ==
    /\ task \in [Conns -> TaskRecord]
    /\ \A c \in Conns : task[c].stage # "none" => task[c].who \in Players
    /\ \A c \in Conns : task[c].stage = "none" => task[c].who = Nobody
    /\ kicked \subseteq At({"playing"}) /\ slipped \subseteq Conns

PlayersOK ==
    /\ Online \subseteq Players /\ online \in [Online -> SUBSET Unit]
    /\ UNION {joined, stale, gone} \subseteq Players
    /\ made \in [Players -> 0..MaxProgress]

DiskOK ==
    /\ banned \subseteq Players /\ command \in Players \cup {Nobody}
    /\ startup \in [Players -> SUBSET Unit] /\ rows \in [Players -> SUBSET Unit]
    /\ due \in [Players -> SUBSET Unit]
    /\ banRows \subseteq Players /\ kept \subseteq Players
    /\ server \in {"running", "stopping", "down"} /\ maxPlayers \in Capacities

BoundsOK == logins \in 0..MaxLogins /\ starts \in 0..MaxStarts

LEMMA TypeParts ==
    TypeInv <=> TasksOK /\ PlayersOK /\ SaverType /\ DiskOK /\ BoundsOK
  <1>1. SaverType =>
          /\ saver.stage \in {"idle", "rows", "bans", "finalRows", "finalBans"}
          /\ DOMAIN saver.todo \subseteq Players /\ saver.bans \subseteq Players
    BY DEF SaverType
  <1> QED
    BY <1>1 DEF TypeInv, TypeOK, TasksOK, PlayersOK, DiskOK, BoundsOK, TaskRecord

LEMMA TasksMoved ==
    ASSUME TasksOK, NEW c \in Conns, NEW stage \in Stages \ {"none"},
           task[c].stage \notin {"none", stage}, ToStage(c, stage),
           kicked' \subseteq kicked \ {c}, slipped' \subseteq Conns
    PROVE  TasksOK'
  <1>1. /\ task' \in [Conns -> TaskRecord]
        /\ task'[c].stage = stage /\ task'[c].who = task[c].who
        /\ \A d \in Conns \ {c} : task'[d] = task[d]
    BY Moved DEF TasksOK
  <1> QED
    BY <1>1 DEF TasksOK, At

LEMMA TasksClosed ==
    ASSUME TasksOK, NEW c \in Conns, Close(c)
    PROVE  TasksOK'
  <1>1. /\ task' \in [Conns -> TaskRecord]
        /\ task'[c].stage = "none" /\ task'[c].who = Nobody
        /\ \A d \in Conns \ {c} : task'[d] = task[d]
        /\ kicked' = kicked \ {c} /\ slipped' = slipped \ {c}
    BY Closed DEF TasksOK
  <1> QED
    BY <1>1 DEF TasksOK, At

LEMMA TasksSame ==
    ASSUME TasksOK, task' = task, kicked' \subseteq At({"playing"}),
           slipped' \subseteq Conns
    PROVE  TasksOK'
  BY DEF TasksOK, At

LEMMA TasksStep == TypeInv /\ Next => TasksOK'
  <1> SUFFICES ASSUME TypeInv, Next
               PROVE  TasksOK'
    OBVIOUS
  <1>0. TasksOK
    BY TypeParts
  <1> USE DEF task_vars, player_vars, ban_vars, disk_vars, run_vars
  <1>1. ASSUME NEW c \in Conns, NEW u \in Players, Connect(c, u)
        PROVE  TasksOK'
    <2>1. task[c].stage = "none" /\ c \notin kicked
      BY <1>0, <1>1 DEF Connect, NoTask, TasksOK, At
    <2>2. /\ task'[c] = [stage |-> "login", who |-> u]
          /\ \A d \in Conns \ {c} : task'[d] = task[d]
      BY <1>0, <1>1 DEF Connect, TasksOK
    <2>3. task' \in [Conns -> TaskRecord]
      BY <1>0, <1>1 DEF Connect, TasksOK, TaskRecord, Stages
    <2>4. kicked' = kicked /\ slipped' = slipped
      BY <1>1 DEF Connect
    <2>5. kicked' \subseteq At({"playing"})'
      BY <1>0, <2>1, <2>2, <2>4 DEF TasksOK, At
    <2>6. \A d \in Conns : /\ task'[d].stage # "none" => task'[d].who \in Players
                           /\ task'[d].stage = "none" => task'[d].who = Nobody
      BY <1>0, <2>2 DEF TasksOK
    <2> QED
      BY <1>0, <2>3, <2>4, <2>5, <2>6 DEF TasksOK
  <1>2. ASSUME NEW c \in Conns, Abort(c) \/ BreakJoin(c) \/ Leave(c)
        PROVE  TasksOK'
    BY <1>0, <1>2, TasksClosed DEF Abort, BreakJoin, Leave, Drop
  <1>3. ASSUME NEW c \in Conns,
               \/ CheckBan(c) \/ CheckCapacity(c) \/ AddPlayer(c) \/ Restore(c)
               \/ Subscribe(c) \/ EndPlay(c)
        PROVE  TasksOK'
    <2>1. CASE Close(c)
      BY <1>0, <2>1, TasksClosed
    <2>2. CASE ~Close(c)
      <3>1. task[c].stage # "playing" => c \notin kicked
        BY <1>0 DEF TasksOK, At
      <3>2. slipped \subseteq Conns
        BY <1>0 DEF TasksOK
      <3>3. PICK stage \in Stages \ {"none"} :
              /\ ToStage(c, stage) /\ task[c].stage \notin {"none", stage}
              /\ kicked' \subseteq kicked \ {c}
              /\ slipped' \subseteq Conns
        <4>1. CASE CheckBan(c)
          BY <2>2, <3>1, <3>2, <4>1 DEF CheckBan, Stages
        <4>2. CASE CheckCapacity(c)
          BY <2>2, <3>1, <3>2, <4>2 DEF CheckCapacity, Stages
        <4>3. CASE AddPlayer(c)
          BY <3>1, <3>2, <4>3 DEF AddPlayer, Stages
        <4>4. CASE Restore(c)
          BY <3>1, <3>2, <4>4 DEF Restore, Stages
        <4>5. CASE Subscribe(c)
          BY <3>1, <3>2, <4>5 DEF Subscribe, Stages
        <4>6. CASE EndPlay(c)
          BY <3>1, <3>2, <4>6 DEF EndPlay, Stages
        <4> QED
          BY <1>3, <4>1, <4>2, <4>3, <4>4, <4>5, <4>6
      <3> QED
        BY <1>0, <3>3, TasksMoved
    <2> QED
      BY <2>1, <2>2
  <1>4. ASSUME NEW c \in Conns, Play(c) \/ LoseKick(c)
        PROVE  TasksOK'
    BY <1>0, <1>4, TasksSame DEF Play, LoseKick, TasksOK
  <1>5. ASSUME NEW u \in Players, Kick(u) \/ LookUpBan(u)
        PROVE  TasksOK'
    BY <1>0, <1>5, TasksSame DEF Kick, LookUpBan, TasksOK, Kicks, Of, At
  <1>6. ASSUME NEW u \in Players, Pardon(u) \/ SaveRow(u) \/ InsertBan(u)
        PROVE  TasksOK'
    BY <1>0, <1>6, TasksSame DEF Pardon, SaveRow, InsertBan, TasksOK
  <1>7. CASE Ban \/ BeginSave \/ ClearBans \/ EndSave \/ Stop \/ Start
    BY <1>0, <1>7, TasksSame DEF Ban, BeginSave, ClearBans, EndSave, Stop, Start, TasksOK
  <1>8. CASE Exit \/ Crash
    BY <1>8 DEF Exit, Crash, Die, TasksOK, TaskRecord, NoTask, Stages, At
  <1> QED
    BY <1>1, <1>2, <1>3, <1>4, <1>5, <1>6, <1>7, <1>8 DEF Next

LEMMA PlayersStep == TypeInv /\ Next => PlayersOK'
  <1> SUFFICES ASSUME TypeInv, Next
               PROVE  PlayersOK'
    OBVIOUS
  <1>0. TasksOK /\ PlayersOK /\ DiskOK
    BY TypeParts
  <1> USE DEF task_vars, player_vars, ban_vars, disk_vars, run_vars
  <1>1. ASSUME UNCHANGED <<player_vars, made>>
        PROVE  PlayersOK'
    BY <1>0, <1>1 DEF PlayersOK, Online
  <1>2. ASSUME NEW c \in Conns, AddPlayer(c)
        PROVE  PlayersOK'
    <2>1. task[c].who \in Players
      BY <1>0, <1>2 DEF TasksOK, AddPlayer
    <2>2. Put(task[c].who, {})
      BY <1>2 DEF AddPlayer
    <2>3. Online' \subseteq Players /\ online' \in [Online' -> SUBSET Unit]
      BY <1>0, <2>1, <2>2, PutType DEF PlayersOK
    <2> QED
      BY <1>0, <1>2, <2>1, <2>3 DEF AddPlayer, PlayersOK
  <1>3. ASSUME NEW c \in Conns, Restore(c)
        PROVE  PlayersOK'
    <2>1. /\ task[c].who \in Players
          /\ Restored(task[c].who) \in SUBSET Unit
      BY <1>0, <1>3 DEF TasksOK, Restore, DiskOK, Restored
    <2>2. CASE online' = online
      BY <1>0, <1>3, <2>2 DEF Restore, PlayersOK, Online
    <2>3. CASE Put(task[c].who, Restored(task[c].who))
      <3>1. Online' \subseteq Players /\ online' \in [Online' -> SUBSET Unit]
        BY <1>0, <2>1, <2>3, PutType DEF PlayersOK
      <3> QED
        BY <1>0, <1>3, <3>1 DEF Restore, PlayersOK
    <2> QED
      BY <1>3, <2>2, <2>3 DEF Restore
  <1>4. ASSUME NEW c \in Conns, BreakJoin(c) \/ Leave(c)
        PROVE  PlayersOK'
    <2>1. /\ task[c].who \in Players
          /\ online' = Without(task[c].who)
      BY <1>0, <1>4 DEF TasksOK, BreakJoin, Leave, Drop, RemovePlayer
    <2>2. Online' \subseteq Players /\ online' \in [Online' -> SUBSET Unit]
      BY <1>0, <2>1, WithoutEffect DEF PlayersOK
    <2> QED
      BY <1>0, <1>4, <2>1, <2>2 DEF BreakJoin, Leave, Drop, PlayersOK
  <1>5. ASSUME NEW c \in Conns, Play(c)
        PROVE  PlayersOK'
    <2> DEFINE u == task[c].who
    <2>1. u \in Players /\ u \in Online
      BY <1>0, <1>5 DEF TasksOK, Play
    <2>2. made[u] \in Nat /\ made[u] + 1 \in 0..MaxProgress /\ made[u] + 1 \in Unit
      BY <1>0, <1>5, <2>1, SessionAssumption DEF PlayersOK, Play, Unit
    <2>3. Put(u, online[u] \cup {made[u] + 1})
      BY <1>5 DEF Play
    <2>4. online[u] \cup {made[u] + 1} \subseteq Unit
      BY <1>0, <2>1, <2>2 DEF PlayersOK
    <2>5. made' \in [Players -> 0..MaxProgress]
      BY <1>0, <1>5, <2>1, <2>2 DEF PlayersOK, Play
    <2> HIDE DEF u
    <2>6. Online' \subseteq Players /\ online' \in [Online' -> SUBSET Unit]
      BY <1>0, <2>1, <2>3, <2>4, PutType DEF PlayersOK
    <2> QED
      BY <1>0, <1>5, <2>5, <2>6 DEF Play, PlayersOK
  <1>6. CASE BeginSave
    BY <1>0, <1>6 DEF BeginSave, PlayersOK, TasksOK, At, Online
  <1>7. CASE Exit \/ Crash
    <2>1. Online' = {} /\ online' \in [Online' -> SUBSET Unit]
      BY <1>7 DEF Exit, Crash, Die, Online
    <2> QED
      BY <1>0, <1>7, <2>1 DEF Exit, Crash, Die, PlayersOK
  <1>8. CASE Start
    BY <1>0, <1>8 DEF Start, PlayersOK, Online
  <1>9. ASSUME NEW c \in Conns,
               \/ \E u \in Players : Connect(c, u)
               \/ Abort(c) \/ CheckBan(c) \/ CheckCapacity(c) \/ Subscribe(c)
               \/ EndPlay(c) \/ LoseKick(c)
        PROVE  PlayersOK'
    BY <1>1, <1>9 DEF Connect, Abort, CheckBan, CheckCapacity, Subscribe, EndPlay,
                      LoseKick
  <1>10. ASSUME NEW u \in Players,
                Kick(u) \/ LookUpBan(u) \/ Pardon(u) \/ SaveRow(u) \/ InsertBan(u)
         PROVE  PlayersOK'
    BY <1>1, <1>10 DEF Kick, LookUpBan, Pardon, SaveRow, InsertBan
  <1>11. CASE Ban \/ ClearBans \/ EndSave \/ Stop
    BY <1>1, <1>11 DEF Ban, ClearBans, EndSave, Stop
  <1> QED
    BY <1>2, <1>3, <1>4, <1>5, <1>6, <1>7, <1>8, <1>9, <1>10, <1>11 DEF Next

LEMMA SaverStep == TypeInv /\ Next => SaverType'
  <1> SUFFICES ASSUME TypeInv, Next
               PROVE  SaverType'
    OBVIOUS
  <1>0. SaverType /\ PlayersOK /\ DiskOK
    BY TypeParts
  <1> USE DEF task_vars, player_vars, ban_vars, disk_vars, run_vars
  <1>1. PICK D \in SUBSET Players :
          saver \in [stage: {"idle", "rows", "bans", "finalRows", "finalBans"},
                     todo: [D -> SUBSET Unit], bans: SUBSET Players]
    BY <1>0 DEF SaverType
  <1>2. ASSUME UNCHANGED saver
        PROVE  SaverType'
    BY <1>0, <1>2 DEF SaverType
  <1>3. ASSUME saver' = Idle
        PROVE  SaverType'
    <2>1. Idle \in [stage: {"idle", "rows", "bans", "finalRows", "finalBans"},
                    todo: [{} -> SUBSET Unit], bans: SUBSET Players]
      BY DEF Idle
    <2> QED
      BY <1>3, <2>1 DEF SaverType
  <1>4. CASE BeginSave
    <2>1. saver' \in [stage: {"idle", "rows", "bans", "finalRows", "finalBans"},
                      todo: [Online -> SUBSET Unit], bans: SUBSET Players]
      BY <1>0, <1>4 DEF BeginSave, Snapshot, PlayersOK
    <2> QED
      BY <1>0, <2>1 DEF SaverType, PlayersOK
  <1>5. ASSUME NEW u \in Players, SaveRow(u)
        PROVE  SaverType'
    <2>1. saver' \in [stage: {"idle", "rows", "bans", "finalRows", "finalBans"},
                      todo: [D \ {u} -> SUBSET Unit], bans: SUBSET Players]
      BY <1>1, <1>5 DEF SaveRow
    <2> QED
      BY <2>1 DEF SaverType
  <1>6. CASE ClearBans
    <2>1. saver' \in [stage: {"idle", "rows", "bans", "finalRows", "finalBans"},
                      todo: [D -> SUBSET Unit], bans: SUBSET Players]
      BY <1>0, <1>1, <1>6 DEF ClearBans, DiskOK
    <2> QED
      BY <2>1 DEF SaverType
  <1>7. ASSUME NEW u \in Players, InsertBan(u)
        PROVE  SaverType'
    <2>1. saver' \in [stage: {"idle", "rows", "bans", "finalRows", "finalBans"},
                      todo: [D -> SUBSET Unit], bans: SUBSET Players]
      BY <1>1, <1>7 DEF InsertBan
    <2> QED
      BY <2>1 DEF SaverType
  <1>8. CASE EndSave \/ Exit \/ Crash
    BY <1>3, <1>8 DEF EndSave, Exit, Crash, Die
  <1>9. ASSUME NEW c \in Conns,
               \/ \E u \in Players : Connect(c, u)
               \/ Abort(c) \/ CheckBan(c) \/ CheckCapacity(c) \/ AddPlayer(c)
               \/ Restore(c) \/ Subscribe(c) \/ BreakJoin(c) \/ Play(c)
               \/ EndPlay(c) \/ Leave(c) \/ LoseKick(c)
        PROVE  SaverType'
    BY <1>2, <1>9 DEF Connect, Abort, CheckBan, CheckCapacity, AddPlayer, Restore,
                      Subscribe, BreakJoin, Play, EndPlay, Leave, Drop, LoseKick
  <1>10. ASSUME NEW u \in Players, Kick(u) \/ LookUpBan(u) \/ Pardon(u)
         PROVE  SaverType'
    BY <1>2, <1>10 DEF Kick, LookUpBan, Pardon
  <1>11. CASE Ban \/ Stop \/ Start
    BY <1>2, <1>11 DEF Ban, Stop, Start
  <1> QED
    BY <1>4, <1>5, <1>6, <1>7, <1>8, <1>9, <1>10, <1>11 DEF Next

LEMMA DiskStep == TypeInv /\ Next => DiskOK' /\ BoundsOK'
  <1> SUFFICES ASSUME TypeInv, Next
               PROVE  DiskOK' /\ BoundsOK'
    OBVIOUS
  <1>0. SaverType /\ PlayersOK /\ DiskOK /\ BoundsOK
    BY TypeParts
  <1> USE DEF task_vars, player_vars, ban_vars, disk_vars, run_vars
  <1>1. ASSUME UNCHANGED <<ban_vars, disk_vars, run_vars>>
        PROVE  DiskOK'
    BY <1>0, <1>1 DEF DiskOK
  <1>2. ASSUME UNCHANGED <<logins, starts>>
        PROVE  BoundsOK'
    BY <1>0, <1>2 DEF BoundsOK
  <1>3. ASSUME NEW c \in Conns,
               \/ Abort(c) \/ CheckBan(c) \/ CheckCapacity(c) \/ AddPlayer(c)
               \/ Restore(c) \/ Subscribe(c) \/ BreakJoin(c) \/ Play(c)
               \/ EndPlay(c) \/ Leave(c) \/ LoseKick(c)
        PROVE  DiskOK' /\ BoundsOK'
    BY <1>1, <1>2, <1>3 DEF Abort, CheckBan, CheckCapacity, AddPlayer, Restore,
                      Subscribe, BreakJoin, Play, EndPlay, Leave, Drop, LoseKick
  <1>4. ASSUME NEW c \in Conns, NEW u \in Players, Connect(c, u)
        PROVE  DiskOK' /\ BoundsOK'
    <2>1. DiskOK'
      BY <1>1, <1>4 DEF Connect
    <2>2. BoundsOK'
      BY <1>0, <1>4, SessionAssumption DEF Connect, BoundsOK
    <2> QED
      BY <2>1, <2>2
  <1>5. ASSUME NEW u \in Players, Kick(u) \/ LookUpBan(u) \/ Pardon(u) \/ InsertBan(u)
        PROVE  DiskOK' /\ BoundsOK'
    BY <1>0, <1>5 DEF Kick, LookUpBan, Pardon, InsertBan, DiskOK, BoundsOK
  <1>6. ASSUME NEW u \in Players, SaveRow(u)
        PROVE  DiskOK' /\ BoundsOK'
    <2>1. saver.todo[u] \in SUBSET Unit
      BY <1>0, <1>6 DEF SaverType, SaveRow
    <2> QED
      BY <1>0, <1>6, <2>1 DEF SaveRow, DiskOK, BoundsOK
  <1>7. CASE Ban \/ BeginSave \/ ClearBans \/ EndSave
    BY <1>0, <1>7 DEF Ban, BeginSave, ClearBans, EndSave, DiskOK, BoundsOK
  <1>8. CASE Stop
    <2>1. due' \in [Players -> SUBSET Unit]
      BY <1>0, <1>8 DEF Stop, PlayersOK
    <2> QED
      BY <1>0, <1>8, <2>1 DEF Stop, DiskOK, BoundsOK
  <1>9. CASE Exit \/ Crash
    BY <1>0, <1>9 DEF Exit, Crash, Die, DiskOK, BoundsOK
  <1>10. CASE Start
    <2>1. DiskOK'
      BY <1>0, <1>10 DEF Start, LoadBans, DiskOK
    <2>2. BoundsOK'
      BY <1>0, <1>10, SessionAssumption DEF Start, BoundsOK
    <2> QED
      BY <2>1, <2>2
  <1> QED
    BY <1>3, <1>4, <1>5, <1>6, <1>7, <1>8, <1>9, <1>10 DEF Next

LEMMA TypeStep == TypeInv /\ [Next]_vars => TypeInv'
  <1> SUFFICES ASSUME TypeInv, [Next]_vars
               PROVE  TypeInv'
    OBVIOUS
  <1>1. CASE UNCHANGED vars
    BY <1>1 DEF vars, task_vars, player_vars, ban_vars, disk_vars, run_vars,
                TypeInv, TypeOK, SaverType, At, Online
  <1>2. CASE Next
    <2>1. TasksOK' /\ PlayersOK' /\ SaverType' /\ DiskOK' /\ BoundsOK'
      BY <1>2, TasksStep, PlayersStep, SaverStep, DiskStep
    <2>2. SaverType' =>
            /\ saver'.stage \in {"idle", "rows", "bans", "finalRows", "finalBans"}
            /\ DOMAIN saver'.todo \subseteq Players /\ saver'.bans \subseteq Players
      BY DEF SaverType
    <2> QED
      BY <2>1, <2>2 DEF TypeInv, TypeOK, TasksOK, PlayersOK, DiskOK, BoundsOK,
                        TaskRecord
  <1> QED
    BY <1>1, <1>2

LEMMA TypeInit == Init => TypeInv
  <1> SUFFICES ASSUME Init
               PROVE  TypeInv
    OBVIOUS
  <1>1. TasksOK
    BY DEF Init, TasksOK, TaskRecord, NoTask, Stages, At
  <1>2. PlayersOK
    BY SessionAssumption DEF Init, PlayersOK, Online
  <1>3. SaverType
    <2>1. Idle \in [stage: {"idle", "rows", "bans", "finalRows", "finalBans"},
                    todo: [{} -> SUBSET Unit], bans: SUBSET Players]
      BY DEF Idle
    <2> QED
      BY <2>1 DEF Init, SaverType
  <1>4. DiskOK /\ BoundsOK
    BY SessionAssumption DEF Init, DiskOK, BoundsOK
  <1> QED
    BY <1>1, <1>2, <1>3, <1>4, TypeParts

(* Every variable of a session keeps its type, and only a connection that  *)
(* has subscribed to the chat holds a Kick.                                *)
THEOREM SessionTypeCorrect == Spec => []TypeOK
  <1>1. TypeInv => TypeOK
    BY DEF TypeInv
  <1> QED
    BY <1>1, TypeInit, TypeStep, PTL DEF Spec

-----------------------------------------------------------------------------
(* A server that is down                                                   *)

(* The process is gone, with its tasks, its players and its bans.          *)
DownInv ==
    server = "down" =>
        /\ \A c \in Conns : task[c].stage = "none"
        /\ kicked = {} /\ slipped = {}
        /\ Online = {} /\ banned = {} /\ command = Nobody
        /\ saver = Idle

LEMMA WhenDown ==
    ASSUME TypeInv, DownInv, Next, server = "down"
    PROVE  Start
  <1>1. /\ \A c \in Conns : task[c].stage = "none"
        /\ kicked = {} /\ Online = {} /\ command = Nobody
        /\ saver.stage = "idle"
    BY DEF DownInv, Idle
  <1>2. ASSUME NEW c \in Conns,
               \/ \E u \in Players : Connect(c, u)
               \/ Abort(c) \/ CheckBan(c) \/ CheckCapacity(c) \/ AddPlayer(c)
               \/ Restore(c) \/ Subscribe(c) \/ BreakJoin(c) \/ Play(c)
               \/ EndPlay(c) \/ Leave(c) \/ LoseKick(c)
        PROVE  FALSE
    BY <1>1, <1>2 DEF Connect, Abort, CheckBan, CheckCapacity, AddPlayer, Restore,
                      Subscribe, BreakJoin, Play, EndPlay, Leave, LoseKick
  <1>3. ASSUME NEW u \in Players,
               Kick(u) \/ LookUpBan(u) \/ Pardon(u) \/ SaveRow(u) \/ InsertBan(u)
        PROVE  FALSE
    BY <1>1, <1>3 DEF Kick, LookUpBan, Pardon, SaveRow, InsertBan
  <1>4. ~(Ban \/ BeginSave \/ ClearBans \/ EndSave \/ Stop \/ Exit \/ Crash)
    BY <1>1 DEF Ban, BeginSave, ClearBans, EndSave, Stop, Exit, Crash
  <1> QED
    BY <1>2, <1>3, <1>4 DEF Next

LEMMA ServerKept ==
    ASSUME Next, ~Stop, ~Exit, ~Crash, ~Start
    PROVE  server' = server
  BY DEF Next, run_vars, Connect, Abort, CheckBan, CheckCapacity, AddPlayer,
         Restore, Subscribe, BreakJoin, Play, EndPlay, Leave, Drop, LoseKick, Kick,
         LookUpBan, Pardon, SaveRow, InsertBan, Ban, BeginSave, ClearBans, EndSave

LEMMA DieEffect ==
    ASSUME Die
    PROVE  /\ \A c \in Conns : task'[c] = NoTask
           /\ kicked' = {} /\ slipped' = {}
           /\ Online' = {} /\ banned' = {} /\ command' = Nobody
           /\ saver' = Idle /\ server' = "down"
  BY DEF Die, Online

LEMMA DownStep == TypeInv /\ DownInv /\ [Next]_vars => DownInv'
  <1> SUFFICES ASSUME TypeInv, DownInv, [Next]_vars
               PROVE  DownInv'
    OBVIOUS
  <1>1. CASE UNCHANGED vars
    BY <1>1 DEF vars, task_vars, player_vars, ban_vars, disk_vars, run_vars,
                DownInv, Online
  <1>2. CASE Exit \/ Crash
    BY <1>2, DieEffect DEF Exit, Crash, DownInv, NoTask
  <1>3. CASE Stop \/ Start
    BY <1>3 DEF Stop, Start, DownInv
  <1>4. CASE Next /\ ~Stop /\ ~Exit /\ ~Crash /\ ~Start
    <2>1. server' = server /\ server # "down"
      BY <1>4, WhenDown, ServerKept
    <2> QED
      BY <2>1 DEF DownInv
  <1> QED
    BY <1>1, <1>2, <1>3, <1>4

LEMMA DownInit == Init => DownInv
  BY DEF Init, DownInv

-----------------------------------------------------------------------------
(* Bans                                                                    *)

(* A connection that is past the ban check will hear of a ban of its       *)
(* player, unless it is one of those that cannot.                          *)
Reached(c) ==
    /\ task[c].stage \in {"configuring", "admitted", "registered", "entering"}
         => c \in slipped
    /\ task[c].stage = "playing" => c \in kicked \cup slipped

BanInv ==
    \A c \in Conns :
        task[c].who \in banned \/ (task[c].who = command /\ command # Nobody)
            => Reached(c)

(* A step that moves one connection and tells no one of a new ban.         *)
LEMMA BanKept ==
    ASSUME BanInv, UNCHANGED ban_vars, NEW c \in Conns,
           \A d \in Conns \ {c} : /\ task'[d] = task[d]
                                  /\ d \in kicked => d \in kicked'
                                  /\ d \in slipped => d \in slipped',
           \/ task'[c].stage \in {"none", "login", "leaving"}
           \/ /\ task'[c].who = task[c].who
              /\ Reached(c) => Reached(c)'
    PROVE  BanInv'
  BY DEF BanInv, Reached, ban_vars

LEMMA BanStep == TypeInv /\ DownInv /\ BanInv /\ [Next]_vars => BanInv'
  <1> SUFFICES ASSUME TypeInv, DownInv, BanInv, [Next]_vars
               PROVE  BanInv'
    OBVIOUS
  <1>0. TasksOK /\ DiskOK /\ task \in [Conns -> TaskRecord]
    BY TypeParts DEF TasksOK
  <1> USE DEF task_vars, player_vars, ban_vars, disk_vars, run_vars
  <1>1. CASE UNCHANGED vars
    BY <1>1 DEF vars, BanInv, Reached
  <1>2. ASSUME NEW c \in Conns, NEW u \in Players, Connect(c, u)
        PROVE  BanInv'
    <2>1. /\ task'[c].stage = "login"
          /\ \A d \in Conns \ {c} : task'[d] = task[d]
          /\ kicked' = kicked /\ slipped' = slipped
      BY <1>0, <1>2 DEF Connect
    <2> QED
      BY <1>2, <2>1, BanKept DEF Connect
  <1>3. ASSUME NEW c \in Conns, Close(c), UNCHANGED ban_vars
        PROVE  BanInv'
    BY <1>0, <1>3, Closed, BanKept
  <1>4. ASSUME NEW c \in Conns, Abort(c) \/ BreakJoin(c) \/ Leave(c)
        PROVE  BanInv'
    BY <1>3, <1>4 DEF Abort, BreakJoin, Leave, Drop
  <1>5. ASSUME NEW c \in Conns, CheckBan(c), ~Close(c)
        PROVE  BanInv'
    <2>1. /\ task'[c].stage = "configuring" /\ task'[c].who = task[c].who
          /\ \A d \in Conns \ {c} : task'[d] = task[d]
      <3>1. ToStage(c, "configuring") /\ "configuring" \in Stages
        BY <1>5 DEF CheckBan, Stages
      <3> QED
        BY <1>0, <3>1, Moved
    <2>2. /\ kicked' = kicked /\ slipped' = slipped \cup
              (IF command = task[c].who THEN {c} ELSE {})
          /\ task[c].who \notin banned
          /\ UNCHANGED <<banned, command>>
      BY <1>5 DEF CheckBan, MayLogIn
    <2> QED
      BY <2>1, <2>2 DEF BanInv, Reached
  <1>6. ASSUME NEW c \in Conns,
               CheckCapacity(c) \/ AddPlayer(c) \/ Restore(c) \/ Subscribe(c), ~Close(c)
        PROVE  BanInv'
    <2>1. PICK stage \in {"admitted", "registered", "entering", "playing"} :
            ToStage(c, stage)
      BY <1>6 DEF CheckCapacity, AddPlayer, Restore, Subscribe
    <2>2. /\ task'[c].stage = stage /\ task'[c].who = task[c].who
          /\ \A d \in Conns \ {c} : task'[d] = task[d]
      BY <1>0, <2>1, Moved DEF Stages
    <2>3. task[c].stage \in {"configuring", "admitted", "registered", "entering"}
      BY <1>6 DEF CheckCapacity, AddPlayer, Restore, Subscribe
    <2>4. UNCHANGED <<kicked, slipped, ban_vars>>
      BY <1>6 DEF CheckCapacity, AddPlayer, Restore, Subscribe
    <2>5. Reached(c) => Reached(c)'
      BY <2>2, <2>3, <2>4 DEF Reached
    <2> QED
      BY <2>2, <2>4, <2>5, BanKept
  <1>7. ASSUME NEW c \in Conns, EndPlay(c)
        PROVE  BanInv'
    <2>1. /\ task'[c].stage = "leaving"
          /\ \A d \in Conns \ {c} : task'[d] = task[d]
      BY <1>0, <1>7, Moved DEF EndPlay, Stages
    <2>2. kicked' = kicked \ {c} /\ UNCHANGED <<slipped, ban_vars>>
      BY <1>7 DEF EndPlay
    <2> QED
      BY <2>1, <2>2, BanKept
  <1>8. ASSUME NEW c \in Conns, LoseKick(c)
        PROVE  BanInv'
    BY <1>8 DEF LoseKick, BanInv, Reached
  <1>9. ASSUME UNCHANGED <<task, kicked, slipped>>, banned' \subseteq banned,
               command' = command
        PROVE  BanInv'
    BY <1>9 DEF BanInv, Reached
  <1>10. ASSUME NEW c \in Conns, Play(c)
         PROVE  BanInv'
    BY <1>9, <1>10 DEF Play
  <1>11. ASSUME NEW u \in Players, Kick(u)
         PROVE  BanInv'
    BY <1>11 DEF Kick, BanInv, Reached
  <1>12. ASSUME NEW u \in Players, LookUpBan(u)
         PROVE  BanInv'
    <2>1. /\ task' = task /\ banned' = banned /\ command' = u
          /\ kicked \subseteq kicked' /\ slipped \subseteq slipped'
      BY <1>12 DEF LookUpBan
    <2>2. ASSUME NEW c \in Conns, task[c].who = u
          PROVE  Reached(c)'
      BY <1>12, <2>1, <2>2 DEF LookUpBan, Kicks, Of, At, Reached
    <2> QED
      BY <2>1, <2>2 DEF BanInv, Reached
  <1>13. CASE Ban
    BY <1>13 DEF Ban, BanInv, Reached
  <1>14. ASSUME NEW u \in Players, Pardon(u) \/ SaveRow(u) \/ InsertBan(u)
         PROVE  BanInv'
    BY <1>9, <1>14 DEF Pardon, SaveRow, InsertBan
  <1>15. CASE BeginSave \/ ClearBans \/ EndSave \/ Stop
    BY <1>9, <1>15 DEF BeginSave, ClearBans, EndSave, Stop
  <1>16. CASE Exit \/ Crash
    BY <1>16, DieEffect DEF Exit, Crash, BanInv
  <1>17. CASE Start
    <2>1. \A c \in Conns : task'[c].stage = "none"
      BY <1>17 DEF Start, DownInv
    <2> QED
      BY <2>1 DEF BanInv, Reached
  <1>18. ASSUME NEW c \in Conns,
                \/ \E u \in Players : Connect(c, u)
                \/ Abort(c) \/ CheckBan(c) \/ CheckCapacity(c) \/ AddPlayer(c)
                \/ Restore(c) \/ Subscribe(c) \/ BreakJoin(c) \/ Play(c)
                \/ EndPlay(c) \/ Leave(c) \/ LoseKick(c)
         PROVE  BanInv'
    <2>1. CASE Close(c)
      <3>1. UNCHANGED ban_vars
        BY <1>18 DEF Connect, Abort, CheckBan, CheckCapacity, AddPlayer, Restore,
                     Subscribe, BreakJoin, Play, EndPlay, Leave, Drop, LoseKick
      <3> QED
        BY <1>3, <2>1, <3>1
    <2> QED
      BY <1>2, <1>4, <1>5, <1>6, <1>7, <1>8, <1>10, <1>18, <2>1
  <1> QED
    BY <1>1, <1>11, <1>12, <1>13, <1>14, <1>15, <1>16, <1>17, <1>18 DEF Next

(* A banned player who is in play holds a Kick, or its connection was one  *)
(* of those that a ban cannot reach.                                       *)
THEOREM BansReachPlayers == Spec => []BanHolds
  <1>1. Init => BanInv
    BY DEF Init, BanInv
  <1>2. TypeInv /\ BanInv => BanHolds
    BY DEF BanInv, Reached, BanHolds, At
  <1> QED
    BY <1>1, <1>2, TypeInit, TypeStep, DownInit, DownStep, BanStep, PTL DEF Spec

-----------------------------------------------------------------------------
(* The bans table                                                          *)

(* The table holds the bans of the last complete save, except while it is  *)
(* being filled again.                                                     *)
KeptInv ==
    /\ kept \subseteq banRows \/ saver.stage \in {"bans", "finalBans"}
    /\ server # "down" => kept \subseteq banned

LEMMA KeptStep == TypeInv /\ DownInv /\ KeptInv /\ [Next]_vars => KeptInv'
  <1> SUFFICES ASSUME TypeInv, DownInv, KeptInv, [Next]_vars
               PROVE  KeptInv'
    OBVIOUS
  <1> USE DEF ban_vars, disk_vars, run_vars
  <1>1. ASSUME UNCHANGED <<kept, banRows, banned, server, saver>>
        PROVE  KeptInv'
    BY <1>1 DEF KeptInv
  <1>2. CASE UNCHANGED vars
    BY <1>1, <1>2 DEF vars
  <1>3. ASSUME NEW c \in Conns,
               \/ \E u \in Players : Connect(c, u)
               \/ Abort(c) \/ CheckBan(c) \/ CheckCapacity(c) \/ AddPlayer(c)
               \/ Restore(c) \/ Subscribe(c) \/ BreakJoin(c) \/ Play(c)
               \/ EndPlay(c) \/ Leave(c) \/ LoseKick(c)
        PROVE  KeptInv'
    BY <1>1, <1>3 DEF Connect, Abort, CheckBan, CheckCapacity, AddPlayer, Restore,
                      Subscribe, BreakJoin, Play, EndPlay, Leave, Drop, LoseKick
  <1>4. ASSUME NEW u \in Players, Kick(u) \/ LookUpBan(u)
        PROVE  KeptInv'
    BY <1>1, <1>4 DEF Kick, LookUpBan
  <1>5. ASSUME NEW u \in Players, Pardon(u)
        PROVE  KeptInv'
    BY <1>5 DEF Pardon, KeptInv
  <1>6. SaverType
    BY TypeParts
  <1>7. ASSUME NEW u \in Players, SaveRow(u) \/ InsertBan(u)
        PROVE  KeptInv'
    BY <1>6, <1>7 DEF SaveRow, InsertBan, KeptInv, SaverType
  <1>8. CASE Ban
    BY <1>8 DEF Ban, KeptInv
  <1>9. CASE BeginSave
    BY <1>9 DEF BeginSave, KeptInv
  <1>10. CASE ClearBans
    BY <1>6, <1>10 DEF ClearBans, KeptInv, SaverType
  <1>11. CASE EndSave
    BY <1>11 DEF EndSave, KeptInv, Idle
  <1>12. CASE Stop
    BY <1>12 DEF Stop, KeptInv
  <1>13. CASE Exit
    BY <1>13 DEF Exit, Die, KeptInv
  <1>14. CASE Crash
    BY <1>14 DEF Crash, Die, KeptInv
  <1>15. CASE Start
    BY <1>15 DEF Start, LoadBans, KeptInv, DownInv, Idle
  <1> QED
    BY <1>2, <1>3, <1>4, <1>5, <1>7, <1>8, <1>9, <1>10, <1>11, <1>12, <1>13,
       <1>14, <1>15 DEF Next

(* A ban that a complete save wrote holds in every later run of the        *)
(* server, until it is pardoned or a crash catches the table half filled.  *)
THEOREM BansSurviveRestarts == Spec => []SavedBansHold
  <1>1. Init => KeptInv
    BY DEF Init, KeptInv
  <1>2. KeptInv => SavedBansHold
    BY DEF KeptInv, SavedBansHold
  <1> QED
    BY <1>1, <1>2, TypeInit, TypeStep, DownInit, DownStep, KeptStep, PTL DEF Spec

-----------------------------------------------------------------------------
(* Entries and tasks                                                       *)

InWorld == {"registered", "entering", "playing", "leaving"}

LEMMA HasTaskKept ==
    ASSUME OnlineHasTask, NEW c \in Conns, Online' \subseteq Online,
           \A d \in Conns \ {c} : task'[d] = task[d],
           \/ task[c].stage \notin InWorld
           \/ task[c].who \notin Online'
           \/ task'[c].stage \in InWorld /\ task'[c].who = task[c].who
    PROVE  OnlineHasTask'
  BY DEF OnlineHasTask, Of, At, InWorld

LEMMA HasTaskStep ==
    TypeInv /\ DownInv /\ OnlineHasTask /\ [Next]_vars => OnlineHasTask'
  <1> SUFFICES ASSUME TypeInv, DownInv, OnlineHasTask, [Next]_vars
               PROVE  OnlineHasTask'
    OBVIOUS
  <1>0. TasksOK /\ task \in [Conns -> TaskRecord]
    BY TypeParts DEF TasksOK
  <1> USE DEF task_vars, player_vars
  <1>1. ASSUME UNCHANGED <<task, online>>
        PROVE  OnlineHasTask'
    BY <1>1 DEF OnlineHasTask, Online, Of, At
  <1>2. ASSUME NEW c \in Conns, NEW u \in Players, Connect(c, u)
        PROVE  OnlineHasTask'
    <2>1. task[c].stage \notin InWorld /\ Online' = Online
      BY <1>2 DEF Connect, NoTask, InWorld, Online
    <2>2. \A d \in Conns \ {c} : task'[d] = task[d]
      BY <1>0, <1>2 DEF Connect
    <2> QED
      BY <2>1, <2>2, HasTaskKept
  <1>3. ASSUME NEW c \in Conns, Close(c), online' = online,
               task[c].stage \notin InWorld
        PROVE  OnlineHasTask'
    BY <1>0, <1>3, Closed, HasTaskKept DEF Online
  <1>4. ASSUME NEW c \in Conns, BreakJoin(c) \/ Leave(c)
        PROVE  OnlineHasTask'
    <2>1. online' = Without(task[c].who) /\ Close(c)
      BY <1>4 DEF BreakJoin, Leave, Drop, RemovePlayer
    <2> QED
      BY <1>0, <2>1, Closed, WithoutEffect, HasTaskKept, ZenonT(60)
  <1>5. ASSUME NEW c \in Conns, NEW stage \in Stages, ToStage(c, stage),
               Online' \subseteq Online,
               task[c].stage \notin InWorld \/ stage \in InWorld
        PROVE  OnlineHasTask'
    BY <1>0, <1>5, Moved, HasTaskKept
  <1>6. ASSUME NEW c \in Conns, Abort(c) \/ CheckBan(c) \/ CheckCapacity(c)
        PROVE  OnlineHasTask'
    <2>1. task[c].stage \notin InWorld /\ online' = online
      BY <1>6 DEF Abort, CheckBan, CheckCapacity, InWorld
    <2>2. Close(c) \/ \E stage \in Stages : ToStage(c, stage)
      BY <1>6 DEF Abort, CheckBan, CheckCapacity, Stages
    <2> QED
      BY <1>3, <1>5, <2>1, <2>2 DEF Online
  <1>7. ASSUME NEW c \in Conns, AddPlayer(c)
        PROVE  OnlineHasTask'
    <2>1. Online' = Online \cup {task[c].who}
      BY <1>7, PutEffect DEF AddPlayer
    <2>2. /\ task'[c].stage = "registered" /\ task'[c].who = task[c].who
          /\ \A d \in Conns \ {c} : task'[d] = task[d]
      BY <1>0, <1>7, Moved DEF AddPlayer, Stages
    <2>3. task[c].stage = "admitted"
      BY <1>7 DEF AddPlayer
    <2> QED
      BY <2>1, <2>2, <2>3 DEF OnlineHasTask, Of, At
  <1>8. ASSUME NEW c \in Conns, Restore(c) \/ Subscribe(c) \/ EndPlay(c)
        PROVE  OnlineHasTask'
    <2>1. \E stage \in InWorld : ToStage(c, stage)
      BY <1>8 DEF Restore, Subscribe, EndPlay, InWorld
    <2>2. Online' \subseteq Online
      BY <1>8, PutEffect DEF Restore, Subscribe, EndPlay, Online
    <2> QED
      BY <1>5, <2>1, <2>2 DEF InWorld, Stages
  <1>9. ASSUME NEW c \in Conns, Play(c)
        PROVE  OnlineHasTask'
    <2>1. /\ Put(task[c].who, online[task[c].who] \cup {made[task[c].who] + 1})
          /\ task[c].who \in Online /\ task' = task
      BY <1>9 DEF Play
    <2>2. Online' = Online
      <3> DEFINE w == task[c].who
                 units == online[w] \cup {made[w] + 1}
      <3>1. Put(w, units)
        BY <2>1
      <3> HIDE DEF w, units
      <3>2. Online' = Online \cup {w}
        BY <3>1, PutEffect
      <3> QED
        BY <2>1, <3>2 DEF w
    <2> QED
      BY <2>1, <2>2 DEF OnlineHasTask, Of, At
  <1>10. ASSUME NEW c \in Conns, LoseKick(c)
         PROVE  OnlineHasTask'
    BY <1>1, <1>10 DEF LoseKick
  <1>11. ASSUME NEW u \in Players,
                Kick(u) \/ LookUpBan(u) \/ Pardon(u) \/ SaveRow(u) \/ InsertBan(u)
         PROVE  OnlineHasTask'
    BY <1>1, <1>11 DEF Kick, LookUpBan, Pardon, SaveRow, InsertBan
  <1>12. CASE Ban \/ BeginSave \/ ClearBans \/ EndSave \/ Stop \/ Start
    BY <1>1, <1>12 DEF Ban, BeginSave, ClearBans, EndSave, Stop, Start
  <1>13. CASE Exit \/ Crash
    BY <1>13, DieEffect DEF Exit, Crash, OnlineHasTask
  <1>14. CASE UNCHANGED vars
    BY <1>1, <1>14 DEF vars
  <1> QED
    BY <1>2, <1>4, <1>6, <1>7, <1>8, <1>9, <1>10, <1>11, <1>12, <1>13, <1>14 DEF Next

(* No early return of handle_play and no second login of the same player   *)
(* leaves an entry behind that no connection will remove.                  *)
THEOREM OnlinePlayersHaveTasks == Spec => []OnlineHasTask
  <1>1. Init => OnlineHasTask
    BY DEF Init, OnlineHasTask, Online
  <1> QED
    BY <1>1, TypeInit, TypeStep, DownInit, DownStep, HasTaskStep, PTL DEF Spec

-----------------------------------------------------------------------------
(* The rows of the database                                                *)

InWorldOf(u) == {c \in Conns : task[c].who = u /\ task[c].stage \in InWorld}
Registered(u) == {c \in Conns : task[c].who = u /\ task[c].stage = "registered"}

(* What is saved of a player who has not been added yet is what the server *)
(* read when it started.                                                   *)
NotJoined(u) ==
    /\ u \notin Online /\ u \notin DOMAIN saver.todo
    /\ InWorldOf(u) = {}
    /\ rows[u] = startup[u]

(* A player who was added once holds what is saved of it, as soon as it is *)
(* restored, and so does the clone that the saver is about to write.       *)
JoinedOnce(u) ==
    /\ \A c, d \in InWorldOf(u) : c = d
    /\ Registered(u) # {} => /\ u \notin DOMAIN saver.todo
                             /\ rows[u] = startup[u]
                             /\ u \in Online => online[u] = {}
    /\ Registered(u) = {} /\ u \in Online => rows[u] \subseteq online[u]
    /\ u \in DOMAIN saver.todo =>
         /\ rows[u] \subseteq saver.todo[u]
         /\ u \in Online => saver.todo[u] \subseteq online[u]

RowInv(u) ==
    /\ u \notin joined => NotJoined(u)
    /\ u \notin stale => JoinedOnce(u)

RowsInv == \A u \in Players : RowInv(u)

(* A step that touches nothing RowInv(u) reads, or takes u's entry away.   *)
LEMMA RowKept ==
    ASSUME NEW u \in Players, RowInv(u),
           \/ u \notin Online'
           \/ u \in Online /\ online'[u] = online[u],
           DOMAIN saver'.todo \subseteq DOMAIN saver.todo,
           u \in DOMAIN saver'.todo => saver'.todo[u] = saver.todo[u],
           UNCHANGED <<rows, startup, joined>>,
           u \in stale => u \in stale',
           InWorldOf(u)' \subseteq InWorldOf(u), Registered(u)' = Registered(u)
    PROVE  RowInv(u)'
  BY DEF RowInv, NotJoined, JoinedOnce

LEMMA SameTasks ==
    ASSUME NEW u, task' = task
    PROVE  InWorldOf(u)' = InWorldOf(u) /\ Registered(u)' = Registered(u)
  BY DEF InWorldOf, Registered

LEMMA TasksOf ==
    ASSUME NEW u, NEW c \in Conns, \A d \in Conns \ {c} : task'[d] = task[d]
    PROVE  /\ task'[c].stage \notin InWorld => InWorldOf(u)' = InWorldOf(u) \ {c}
           /\ task'[c].stage # "registered" => Registered(u)' = Registered(u) \ {c}
           /\ task'[c].who # u =>
                 InWorldOf(u)' = InWorldOf(u) \ {c} /\ Registered(u)' = Registered(u) \ {c}
           /\ task'[c].who = u /\ task'[c].stage \in InWorld
                 => InWorldOf(u)' = InWorldOf(u) \cup {c}
           /\ task'[c].who = u /\ task'[c].stage = "registered"
                 => Registered(u)' = Registered(u) \cup {c}
  BY DEF InWorldOf, Registered, InWorld

(* The steps of the connections.                                           *)
LEMMA RowsOfTasks ==
    ASSUME TypeInv, RowsInv, NEW c \in Conns,
           \/ \E v \in Players : Connect(c, v)
           \/ Abort(c) \/ CheckBan(c) \/ CheckCapacity(c) \/ AddPlayer(c)
           \/ Restore(c) \/ Subscribe(c) \/ BreakJoin(c) \/ Play(c)
           \/ EndPlay(c) \/ Leave(c) \/ LoseKick(c),
           NEW u \in Players
    PROVE  RowInv(u)'
  <1>0. TasksOK /\ task \in [Conns -> TaskRecord] /\ RowInv(u)
    BY TypeParts DEF TasksOK, RowsInv
  <1> USE DEF task_vars, player_vars, disk_vars, run_vars
  <1>1. UNCHANGED <<rows, startup, saver>>
    BY DEF Connect, Abort, CheckBan, CheckCapacity, AddPlayer, Restore,
           Subscribe, BreakJoin, Play, EndPlay, Leave, Drop, LoseKick
  <1>2. CASE \E v \in Players : Connect(c, v)
    <2>1. /\ task[c] = NoTask /\ task'[c].stage = "login"
          /\ \A d \in Conns \ {c} : task'[d] = task[d]
          /\ UNCHANGED player_vars
      BY <1>0, <1>2 DEF Connect
    <2>2. InWorldOf(u)' \subseteq InWorldOf(u) /\ Registered(u)' = Registered(u)
      BY <2>1 DEF InWorldOf, Registered, InWorld, NoTask
    <2> QED
      BY <1>0, <1>1, <2>1, <2>2, RowKept DEF Online
  <1>3. CASE Abort(c) \/ CheckBan(c) \/ CheckCapacity(c)
    <2>1. /\ Close(c) \/ \E stage \in {"configuring", "admitted"} : ToStage(c, stage)
          /\ UNCHANGED player_vars /\ task[c].stage \in {"login", "configuring"}
      BY <1>3 DEF Abort, CheckBan, CheckCapacity
    <2>2. /\ task'[c].stage \in {"none", "configuring", "admitted"}
          /\ \A d \in Conns \ {c} : task'[d] = task[d]
      BY <1>0, <2>1, Closed, Moved DEF Stages
    <2>3. InWorldOf(u)' \subseteq InWorldOf(u) /\ Registered(u)' = Registered(u)
      BY <2>1, <2>2 DEF InWorldOf, Registered, InWorld
    <2> QED
      BY <1>0, <1>1, <2>1, <2>3, RowKept DEF Online
  <1>4. CASE AddPlayer(c)
    <2>1. /\ task'[c].stage = "registered" /\ task'[c].who = task[c].who
          /\ \A d \in Conns \ {c} : task'[d] = task[d]
      BY <1>0, <1>4, Moved DEF AddPlayer, Stages
    <2>2. /\ Online' = Online \cup {task[c].who}
          /\ online'[task[c].who] = {}
          /\ \A v \in Online \ {task[c].who} : online'[v] = online[v]
      BY <1>4, PutEffect DEF AddPlayer
    <2>3. CASE task[c].who # u
      <3>1. InWorldOf(u)' \subseteq InWorldOf(u) /\ Registered(u)' = Registered(u)
        BY <2>1, <2>3 DEF InWorldOf, Registered
      <3>2. (u \in joined) = (u \in joined') /\ (u \in stale => u \in stale')
        BY <1>4, <2>3 DEF AddPlayer
      <3> QED
        BY <1>0, <1>1, <2>2, <2>3, <3>1, <3>2 DEF RowInv, NotJoined, JoinedOnce
    <2>4. CASE task[c].who = u
      <3>1. u \in joined' /\ (u \notin stale' => u \notin joined)
        BY <1>4, <2>4 DEF AddPlayer
      <3>2. CASE u \in stale'
        BY <3>1, <3>2 DEF RowInv
      <3>3. CASE u \notin stale'
        <4>1. NotJoined(u)
          BY <1>0, <3>1, <3>3 DEF RowInv
        <4>2. InWorldOf(u)' = {c} /\ Registered(u)' = {c}
          BY <2>1, <2>4, <4>1 DEF NotJoined, InWorldOf, Registered, InWorld
        <4>3. JoinedOnce(u)'
          BY <1>1, <2>2, <2>4, <4>1, <4>2 DEF NotJoined, JoinedOnce
        <4> QED
          BY <3>1, <4>3 DEF RowInv
      <3> QED
        BY <3>2, <3>3
    <2> QED
      BY <2>3, <2>4
  <1>5. CASE Restore(c)
    <2>1. /\ task'[c].stage = "entering" /\ task'[c].who = task[c].who
          /\ task[c].stage = "registered"
          /\ \A d \in Conns \ {c} : task'[d] = task[d]
      BY <1>0, <1>5, Moved DEF Restore, Stages
    <2>2. UNCHANGED <<joined, stale>>
      BY <1>5 DEF Restore
    <2>3. CASE task[c].who # u
      <3>1. InWorldOf(u)' \subseteq InWorldOf(u) /\ Registered(u)' = Registered(u)
        BY <2>1, <2>3 DEF InWorldOf, Registered
      <3>2. u \notin Online' \/ (u \in Online /\ online'[u] = online[u])
        <4>1. CASE online' = online
          BY <4>1 DEF Online
        <4>2. CASE Put(task[c].who, Restored(task[c].who)) /\ task[c].who \in Online
          <5>1. /\ Online' = Online \cup {task[c].who}
                /\ \A v \in Online \ {task[c].who} : online'[v] = online[v]
            BY <4>2, PutEffect
          <5> QED
            BY <2>3, <5>1
        <4> QED
          BY <1>5, <4>1, <4>2 DEF Restore
      <3> QED
        BY <1>0, <1>1, <2>2, <3>1, <3>2, RowKept
    <2>4. CASE task[c].who = u
      <3>1. c \in Registered(u) /\ c \in InWorldOf(u)
        BY <2>1, <2>4 DEF Registered, InWorldOf, InWorld
      <3>2. u \in joined
        BY <1>0, <3>1 DEF RowInv, NotJoined
      <3>3. CASE u \in stale
        BY <2>2, <3>2, <3>3 DEF RowInv
      <3>4. CASE u \notin stale
        <4>1. JoinedOnce(u)
          BY <1>0, <3>4 DEF RowInv
        <4>2. InWorldOf(u)' = {c} /\ Registered(u)' = {}
          BY <2>1, <2>4, <3>1, <4>1 DEF JoinedOnce, InWorldOf, Registered, InWorld
        <4>3. Online' = Online /\ (u \in Online => online'[u] = startup[u])
          <5>1. CASE u \in Online /\ Restored(u) # {}
            <6>1. Put(u, Restored(u))
              BY <1>5, <2>4, <5>1 DEF Restore
            <6> QED
              BY <5>1, <6>1, PutEffect DEF Restored
          <5>2. CASE ~(u \in Online /\ Restored(u) # {})
            <6>1. online' = online
              BY <1>5, <2>4, <5>2 DEF Restore
            <6>2. u \in Online => online[u] = {}
              BY <3>1, <4>1 DEF JoinedOnce
            <6> QED
              BY <5>2, <6>1, <6>2 DEF Restored, Online
          <5> QED
            BY <5>1, <5>2
        <4>4. u \notin DOMAIN saver.todo /\ rows[u] = startup[u]
          BY <3>1, <4>1 DEF JoinedOnce
        <4>5. JoinedOnce(u)'
          BY <1>1, <4>2, <4>3, <4>4 DEF JoinedOnce
        <4> QED
          BY <2>2, <3>2, <4>5 DEF RowInv
      <3> QED
        BY <3>3, <3>4
    <2> QED
      BY <2>3, <2>4
  <1>6. CASE Subscribe(c) \/ EndPlay(c)
    <2>1. /\ task'[c].who = task[c].who
          /\ task'[c].stage \in {"playing", "leaving"}
          /\ task[c].stage \in {"entering", "playing"}
          /\ \A d \in Conns \ {c} : task'[d] = task[d]
          /\ UNCHANGED player_vars
      BY <1>0, <1>6, Moved DEF Subscribe, EndPlay, Stages
    <2>2. InWorldOf(u)' \subseteq InWorldOf(u) /\ Registered(u)' = Registered(u)
      BY <2>1 DEF InWorldOf, Registered, InWorld
    <2> QED
      BY <1>0, <1>1, <2>1, <2>2, RowKept DEF Online
  <1>7. CASE BreakJoin(c) \/ Leave(c)
    <2>1. /\ online' = Without(task[c].who) /\ Close(c)
          /\ task[c].stage \in {"entering", "leaving"}
          /\ UNCHANGED <<joined, stale>>
      BY <1>7 DEF BreakJoin, Leave, Drop, RemovePlayer
    <2>2. /\ task'[c].stage = "none"
          /\ \A d \in Conns \ {c} : task'[d] = task[d]
      BY <1>0, <2>1, Closed
    <2>3. InWorldOf(u)' \subseteq InWorldOf(u) /\ Registered(u)' = Registered(u)
      BY <2>1, <2>2 DEF InWorldOf, Registered, InWorld
    <2>4. u \notin Online' \/ (u \in Online /\ online'[u] = online[u])
      BY <2>1, WithoutEffect
    <2> QED
      BY <1>0, <1>1, <2>1, <2>3, <2>4, RowKept
  <1>8. CASE Play(c)
    <2> DEFINE w == task[c].who
               units == online[w] \cup {made[w] + 1}
    <2>1. /\ Put(w, units) /\ w \in Online
          /\ task' = task /\ task[c].stage = "playing"
          /\ UNCHANGED <<joined, stale>>
      BY <1>8 DEF Play
    <2>2. InWorldOf(u)' = InWorldOf(u) /\ Registered(u)' = Registered(u)
      BY <2>1, SameTasks
    <2>3. /\ Online' = Online /\ online'[w] = units
          /\ \A v \in Online \ {w} : online'[v] = online[v]
      <3> HIDE DEF w, units
      <3>1. /\ Online' = Online \cup {w} /\ online'[w] = units
            /\ \A v \in Online \ {w} : online'[v] = online[v]
        BY <2>1, PutEffect
      <3> QED
        BY <2>1, <3>1
    <2>4. CASE w # u
      BY <1>0, <1>1, <2>1, <2>2, <2>3, <2>4, RowKept
    <2>5. CASE w = u
      <3>1. c \in InWorldOf(u) /\ c \notin Registered(u)
        BY <2>1, <2>5 DEF InWorldOf, Registered, InWorld
      <3>2. u \in joined
        BY <1>0, <3>1 DEF RowInv, NotJoined
      <3>3. online[u] \subseteq online'[u]
        BY <2>3, <2>5
      <3>4. u \notin stale => Registered(u) = {}
        <4>1. u \notin stale => \A d \in InWorldOf(u) : c = d
          BY <1>0, <3>1 DEF RowInv, JoinedOnce
        <4>2. Registered(u) \subseteq InWorldOf(u)
          BY DEF InWorldOf, Registered, InWorld
        <4> QED
          BY <3>1, <4>1, <4>2
      <3>5. u \notin stale => JoinedOnce(u)
        BY <1>0 DEF RowInv
      <3>6. u \notin stale => JoinedOnce(u)'
        BY <1>1, <2>2, <2>3, <3>3, <3>4, <3>5 DEF JoinedOnce
      <3> QED
        BY <2>1, <3>2, <3>6 DEF RowInv
    <2> QED
      BY <2>4, <2>5
  <1>9. CASE LoseKick(c)
    <2>1. task' = task /\ UNCHANGED player_vars
      BY <1>9 DEF LoseKick
    <2> QED
      BY <1>0, <1>1, <2>1, SameTasks, RowKept DEF Online
  <1> QED
    BY <1>2, <1>3, <1>4, <1>5, <1>6, <1>7, <1>8, <1>9

LEMMA RowsStep == TypeInv /\ DownInv /\ RowsInv /\ [Next]_vars => RowsInv'
  <1> SUFFICES ASSUME TypeInv, DownInv, RowsInv, [Next]_vars, NEW u \in Players
               PROVE  RowInv(u)'
    BY DEF RowsInv
  <1>0. RowInv(u) /\ PlayersOK /\ DiskOK /\ SaverType
    BY TypeParts DEF RowsInv
  <1> USE DEF task_vars, player_vars, disk_vars, run_vars
  <1>1. ASSUME UNCHANGED <<task, online, joined, stale, rows, startup, saver>>
        PROVE  RowInv(u)'
    BY <1>0, <1>1, SameTasks, RowKept DEF Online
  <1>2. CASE UNCHANGED vars
    BY <1>1, <1>2 DEF vars
  <1>3. ASSUME NEW c \in Conns,
               \/ \E v \in Players : Connect(c, v)
               \/ Abort(c) \/ CheckBan(c) \/ CheckCapacity(c) \/ AddPlayer(c)
               \/ Restore(c) \/ Subscribe(c) \/ BreakJoin(c) \/ Play(c)
               \/ EndPlay(c) \/ Leave(c) \/ LoseKick(c)
        PROVE  RowInv(u)'
    BY <1>3, RowsOfTasks
  <1>4. ASSUME NEW v \in Players, Kick(v) \/ LookUpBan(v) \/ Pardon(v)
        PROVE  RowInv(u)'
    BY <1>1, <1>4 DEF Kick, LookUpBan, Pardon
  <1>5. ASSUME NEW v \in Players, SaveRow(v)
        PROVE  RowInv(u)'
    <2>1. UNCHANGED <<task, online, joined, stale, startup>>
      BY <1>5 DEF SaveRow
    <2>2. InWorldOf(u)' = InWorldOf(u) /\ Registered(u)' = Registered(u) /\ Online' = Online
      BY <2>1, SameTasks DEF Online
    <2>3. /\ v \in DOMAIN saver.todo
          /\ DOMAIN saver'.todo = DOMAIN saver.todo \ {v}
          /\ \A w \in DOMAIN saver.todo \ {v} : saver'.todo[w] = saver.todo[w]
      BY <1>0, <1>5 DEF SaveRow, SaverType
    <2>4. rows'[v] = saver.todo[v] /\ \A w \in Players \ {v} : rows'[w] = rows[w]
      BY <1>0, <1>5 DEF SaveRow, DiskOK
    <2>5. CASE u # v
      BY <1>0, <2>1, <2>2, <2>3, <2>4, <2>5 DEF RowInv, NotJoined, JoinedOnce
    <2>6. CASE u = v
      <3>1. u \in joined
        BY <1>0, <2>3, <2>6 DEF RowInv, NotJoined
      <3>2. u \notin stale => JoinedOnce(u)'
        BY <1>0, <2>1, <2>2, <2>3, <2>4, <2>6 DEF RowInv, JoinedOnce
      <3> QED
        BY <2>1, <3>1, <3>2 DEF RowInv
    <2> QED
      BY <2>5, <2>6
  <1>6. ASSUME NEW v \in Players, InsertBan(v)
        PROVE  RowInv(u)'
    <2>1. saver'.todo = saver.todo
      BY <1>0, <1>6 DEF InsertBan, SaverType
    <2> QED
      BY <1>0, <1>6, <2>1, SameTasks, RowKept DEF InsertBan, Online
  <1>7. CASE ClearBans
    <2>1. saver'.todo = saver.todo
      BY <1>0, <1>7 DEF ClearBans, SaverType
    <2> QED
      BY <1>0, <1>7, <2>1, SameTasks, RowKept DEF ClearBans, Online
  <1>8. CASE BeginSave
    <2>1. /\ saver'.todo = online
          /\ stale' = stale \cup {task[c].who : c \in At({"registered"})}
          /\ UNCHANGED <<task, online, joined, rows, startup>>
      BY <1>8 DEF BeginSave, Snapshot
    <2>2. InWorldOf(u)' = InWorldOf(u) /\ Registered(u)' = Registered(u) /\ Online' = Online
      BY <2>1, SameTasks DEF Online
    <2>3. u \notin stale' => Registered(u) = {}
      BY <2>1 DEF Registered, At
    <2>4. u \notin joined => NotJoined(u)'
      BY <1>0, <2>1, <2>2 DEF RowInv, NotJoined, Online
    <2>5. u \notin stale' => JoinedOnce(u)'
      BY <1>0, <2>1, <2>2, <2>3 DEF RowInv, JoinedOnce, Online
    <2> QED
      BY <2>1, <2>4, <2>5 DEF RowInv
  <1>9. CASE EndSave
    <2>1. DOMAIN saver'.todo = {}
      BY <1>9 DEF EndSave, Idle
    <2> QED
      BY <1>0, <1>9, <2>1, SameTasks, RowKept DEF EndSave, Online
  <1>10. CASE Exit \/ Crash
    <2>1. /\ Online' = {} /\ DOMAIN saver'.todo = {}
          /\ \A c \in Conns : task'[c].stage = "none"
          /\ UNCHANGED <<joined, stale, rows, startup>>
      BY <1>10, DieEffect DEF Exit, Crash, Die, Idle, NoTask
    <2>2. InWorldOf(u)' = {} /\ Registered(u)' = {}
      BY <2>1 DEF InWorldOf, Registered, InWorld
    <2> QED
      BY <1>0, <2>1, <2>2 DEF RowInv, NotJoined, JoinedOnce
  <1>11. CASE Start
    <2>1. /\ Online = {} /\ saver = Idle /\ DOMAIN saver.todo = {}
          /\ \A c \in Conns : task[c].stage = "none"
      BY <1>11 DEF Start, DownInv, Idle
    <2>2. InWorldOf(u) = {} /\ Registered(u) = {}
      BY <2>1 DEF InWorldOf, Registered, InWorld
    <2>3. /\ UNCHANGED <<task, online, saver, rows>>
          /\ startup'[u] = rows'[u]
      BY <1>11 DEF Start
    <2>4. InWorldOf(u)' = {} /\ Registered(u)' = {} /\ Online' = {}
      BY <2>1, <2>2, <2>3, SameTasks DEF Online
    <2>5. NotJoined(u)'
      BY <2>1, <2>3, <2>4 DEF NotJoined
    <2>6. JoinedOnce(u)'
      BY <2>1, <2>3, <2>4 DEF JoinedOnce
    <2> QED
      BY <2>5, <2>6 DEF RowInv
  <1>12. CASE Ban \/ Stop
    BY <1>1, <1>12 DEF Ban, Stop
  <1> QED
    BY <1>2, <1>3, <1>4, <1>5, <1>6, <1>7, <1>8, <1>9, <1>10, <1>11, <1>12 DEF Next

LEMMA RowsInit == Init => RowsInv
  BY DEF Init, RowsInv, RowInv, NotJoined, JoinedOnce, InWorldOf, Registered, InWorld,
         NoTask, Online, Idle

(* A save writes at least what an earlier one wrote of the player, unless  *)
(* the player came back in this run of the server or was cloned before it  *)
(* was restored.                                                           *)
THEOREM SavesOnlyGrow == Spec => RowsGrow
  <1>1. TypeInv /\ RowsInv /\ [Next]_vars
          => [\A u \in Players : rows[u] \subseteq rows'[u] \/ u \in stale]_vars
    <2> SUFFICES ASSUME TypeInv, RowsInv, Next, NEW u \in Players
                 PROVE  rows[u] \subseteq rows'[u] \/ u \in stale
      OBVIOUS
    <2>0. DiskOK /\ RowInv(u)
      BY TypeParts DEF RowsInv
    <2>1. CASE SaveRow(u)
      <3>1. rows'[u] = saver.todo[u] /\ u \in DOMAIN saver.todo
        BY <2>0, <2>1 DEF SaveRow, DiskOK
      <3> QED
        BY <2>0, <3>1 DEF RowInv, JoinedOnce
    <2>2. CASE \E v \in Players \ {u} : SaveRow(v)
      BY <2>0, <2>2 DEF SaveRow, DiskOK
    <2>3. CASE \A v \in Players : ~SaveRow(v)
      <3>1. rows' = rows
        BY <2>3 DEF Next, disk_vars, Connect, Abort, CheckBan, CheckCapacity,
              AddPlayer, Restore, Subscribe, BreakJoin, Play, EndPlay, Leave, Drop,
              LoseKick, Kick, LookUpBan, Pardon, InsertBan, Ban, BeginSave,
              ClearBans, EndSave, Stop, Exit, Crash, Die, Start
      <3> QED
        BY <3>1
    <2> QED
      BY <2>1, <2>2, <2>3
  <1> QED
    BY <1>1, TypeInit, TypeStep, DownInit, DownStep, RowsInit, RowsStep, PTL
    DEF Spec, RowsGrow

-----------------------------------------------------------------------------
(* Stopping the server                                                     *)

(* What PlayerManager has of u.                                            *)
Held(u) == IF u \in Online THEN online[u] ELSE {}

(* From the stop to the last row, what u is due is in memory, then in what *)
(* the last save has cloned, then in the database.                         *)
StopRow(u) ==
    /\ server = "stopping" => due[u] \subseteq Held(u)
    /\ saver.stage = "finalRows" =>
         due[u] \subseteq IF u \in DOMAIN saver.todo THEN saver.todo[u] ELSE rows[u]
    /\ saver.stage = "finalBans" \/ server = "down" => due[u] \subseteq rows[u]

StopInv ==
    /\ saver.stage \in {"finalRows", "finalBans"} => server = "stopping"
    /\ \A u \in Players : u \notin gone \cup stale => StopRow(u)

(* No connection takes back what a player has, unless it is recorded.      *)
LEMMA HeldGrows ==
    ASSUME TypeInv, RowsInv, NEW c \in Conns,
           \/ \E v \in Players : Connect(c, v)
           \/ Abort(c) \/ CheckBan(c) \/ CheckCapacity(c) \/ AddPlayer(c)
           \/ Restore(c) \/ Subscribe(c) \/ BreakJoin(c) \/ Play(c)
           \/ EndPlay(c) \/ Leave(c) \/ LoseKick(c),
           NEW u \in Players, u \notin gone' \cup stale'
    PROVE  u \notin gone \cup stale /\ Held(u) \subseteq Held(u)'
  <1>0. TasksOK /\ task \in [Conns -> TaskRecord] /\ RowInv(u)
    BY TypeParts DEF TasksOK, RowsInv
  <1> USE DEF task_vars, player_vars
  <1>1. CASE \/ \E v \in Players : Connect(c, v)
             \/ Abort(c) \/ CheckBan(c) \/ CheckCapacity(c)
             \/ Subscribe(c) \/ EndPlay(c) \/ LoseKick(c)
    <2>1. UNCHANGED player_vars
      BY <1>1 DEF Connect, Abort, CheckBan, CheckCapacity, Subscribe, EndPlay, LoseKick
    <2> QED
      BY <2>1 DEF Held, Online
  <1>2. CASE AddPlayer(c)
    <2>1. /\ Online' = Online \cup {task[c].who}
          /\ \A v \in Online \ {task[c].who} : online'[v] = online[v]
      BY <1>2, PutEffect DEF AddPlayer
    <2>2. u \notin gone \cup stale /\ (u = task[c].who => u \notin Online)
      BY <1>2 DEF AddPlayer
    <2> QED
      BY <2>1, <2>2 DEF Held
  <1>3. CASE Restore(c)
    <2>1. u \notin gone \cup stale
      BY <1>3 DEF Restore
    <2>2. CASE online' = online
      BY <2>1, <2>2 DEF Held, Online
    <2>3. CASE Put(task[c].who, Restored(task[c].who)) /\ task[c].who \in Online
      <3>1. /\ Online' = Online \cup {task[c].who}
            /\ \A v \in Online \ {task[c].who} : online'[v] = online[v]
        BY <2>3, PutEffect
      <3>2. CASE u # task[c].who
        BY <2>1, <2>3, <3>1, <3>2 DEF Held
      <3>3. CASE u = task[c].who
        <4>1. c \in Registered(u)
          BY <1>3, <3>3 DEF Restore, Registered
        <4>2. online[u] = {}
          BY <1>0, <2>1, <2>3, <3>3, <4>1 DEF RowInv, JoinedOnce
        <4> QED
          BY <2>1, <4>2 DEF Held
      <3> QED
        BY <3>2, <3>3
    <2> QED
      BY <1>3, <2>2, <2>3 DEF Restore
  <1>4. CASE BreakJoin(c) \/ Leave(c)
    <2>1. /\ online' = Without(task[c].who)
          /\ gone' = gone \cup {task[c].who} /\ stale' = stale
      BY <1>4 DEF BreakJoin, Leave, Drop, RemovePlayer
    <2> QED
      BY <2>1, WithoutEffect DEF Held
  <1>5. CASE Play(c)
    <2> DEFINE w == task[c].who
               units == online[w] \cup {made[w] + 1}
    <2>1. Put(w, units) /\ w \in Online /\ online[w] \subseteq units
          /\ UNCHANGED <<gone, stale>>
      BY <1>5 DEF Play
    <2> HIDE DEF w, units
    <2>2. /\ Online' = Online \cup {w} /\ online'[w] = units
          /\ \A v \in Online \ {w} : online'[v] = online[v]
      BY <2>1, PutEffect
    <2> QED
      BY <2>1, <2>2 DEF Held
  <1> QED
    BY <1>1, <1>2, <1>3, <1>4, <1>5

LEMMA StopStep ==
    TypeInv /\ DownInv /\ RowsInv /\ StopInv /\ [Next]_vars => StopInv'
  <1> SUFFICES ASSUME TypeInv, DownInv, RowsInv, StopInv, [Next]_vars
               PROVE  StopInv'
    OBVIOUS
  <1>0. PlayersOK /\ DiskOK /\ SaverType
    BY TypeParts
  <1> USE DEF task_vars, player_vars, ban_vars, disk_vars, run_vars
  <1>1. ASSUME UNCHANGED <<online, gone, stale, rows, server, due, saver>>
        PROVE  StopInv'
    BY <1>1 DEF StopInv, StopRow, Held, Online
  <1>2. CASE UNCHANGED vars
    BY <1>1, <1>2 DEF vars
  <1>3. ASSUME NEW c \in Conns,
               \/ \E v \in Players : Connect(c, v)
               \/ Abort(c) \/ CheckBan(c) \/ CheckCapacity(c) \/ AddPlayer(c)
               \/ Restore(c) \/ Subscribe(c) \/ BreakJoin(c) \/ Play(c)
               \/ EndPlay(c) \/ Leave(c) \/ LoseKick(c)
        PROVE  StopInv'
    <2>1. UNCHANGED <<rows, server, due, saver>>
      BY <1>3 DEF Connect, Abort, CheckBan, CheckCapacity, AddPlayer, Restore,
           Subscribe, BreakJoin, Play, EndPlay, Leave, Drop, LoseKick
    <2>2. ASSUME NEW u \in Players, u \notin gone' \cup stale'
          PROVE  u \notin gone \cup stale /\ Held(u) \subseteq Held(u)'
      BY <1>3, <2>2, HeldGrows
    <2> QED
      BY <2>1, <2>2 DEF StopInv, StopRow
  <1>4. ASSUME NEW v \in Players, Kick(v) \/ LookUpBan(v) \/ Pardon(v)
        PROVE  StopInv'
    BY <1>1, <1>4 DEF Kick, LookUpBan, Pardon
  <1>5. ASSUME NEW v \in Players, SaveRow(v)
        PROVE  StopInv'
    <2>1. /\ UNCHANGED <<online, gone, stale, server, due>>
          /\ saver'.stage = saver.stage
          /\ saver.stage \in {"rows", "finalRows"}
      BY <1>0, <1>5 DEF SaveRow, SaverType
    <2>2. server # "down"
      BY <1>5, WhenDown, <2>1 DEF DownInv, Idle
    <2>3. /\ v \in DOMAIN saver.todo
          /\ DOMAIN saver'.todo = DOMAIN saver.todo \ {v}
          /\ \A w \in DOMAIN saver.todo \ {v} : saver'.todo[w] = saver.todo[w]
      BY <1>0, <1>5 DEF SaveRow, SaverType
    <2>4. rows'[v] = saver.todo[v] /\ \A w \in Players \ {v} : rows'[w] = rows[w]
      BY <1>0, <1>5 DEF SaveRow, DiskOK
    <2>5. ASSUME NEW u \in Players, StopRow(u)
          PROVE  StopRow(u)'
      BY <2>1, <2>2, <2>3, <2>4, <2>5 DEF StopRow, Held, Online
    <2> QED
      BY <2>1, <2>5 DEF StopInv
  <1>6. ASSUME NEW v \in Players, InsertBan(v)
        PROVE  StopInv'
    <2>1. saver'.todo = saver.todo /\ saver'.stage = saver.stage
      BY <1>0, <1>6 DEF InsertBan, SaverType
    <2> QED
      BY <1>6, <2>1 DEF InsertBan, StopInv, StopRow, Held, Online
  <1>7. CASE ClearBans
    <2>1. /\ saver'.todo = saver.todo /\ DOMAIN saver.todo = {}
          /\ saver.stage \in {"rows", "finalRows"}
          /\ saver'.stage = IF saver.stage = "rows" THEN "bans" ELSE "finalBans"
          /\ UNCHANGED <<online, gone, stale, rows, server, due>>
      BY <1>0, <1>7 DEF ClearBans, SaverType
    <2>2. server # "down"
      BY <2>1 DEF DownInv, Idle
    <2>3. ASSUME NEW u \in Players, StopRow(u)
          PROVE  StopRow(u)'
      BY <2>1, <2>2, <2>3 DEF StopRow, Held, Online
    <2> QED
      BY <2>1, <2>3 DEF StopInv
  <1>8. CASE BeginSave
    <2>1. /\ saver'.todo = online /\ server # "down"
          /\ saver'.stage = IF server = "stopping" THEN "finalRows" ELSE "rows"
          /\ stale \subseteq stale'
          /\ UNCHANGED <<online, gone, rows, server, due>>
      BY <1>8 DEF BeginSave, Snapshot
    <2>2. ASSUME NEW u \in Players, StopRow(u)
          PROVE  StopRow(u)'
      BY <2>1, <2>2 DEF StopRow, Held, Online
    <2> QED
      BY <2>1, <2>2 DEF StopInv
  <1>9. CASE EndSave
    <2>1. /\ saver'.stage = "idle" /\ saver.stage = "bans"
          /\ UNCHANGED <<online, gone, stale, rows, server, due>>
      BY <1>9 DEF EndSave, Idle
    <2> QED
      BY <2>1 DEF StopInv, StopRow, Held, Online
  <1>10. CASE Stop
    <2>1. /\ server = "running" /\ server' = "stopping"
          /\ \A u \in Players : due'[u] = Held(u)
          /\ UNCHANGED <<online, gone, stale, rows, saver>>
      BY <1>10 DEF Stop, Held
    <2>2. \A u \in Players : Held(u)' = Held(u)
      BY <2>1 DEF Held, Online
    <2>3. saver.stage \notin {"finalRows", "finalBans"}
      BY <2>1 DEF StopInv
    <2> QED
      BY <2>1, <2>2, <2>3 DEF StopInv, StopRow
  <1>11. CASE Exit
    <2>1. /\ saver.stage = "finalBans" /\ saver'.stage = "idle" /\ server' = "down"
          /\ UNCHANGED <<gone, stale, rows, due>>
      BY <1>11 DEF Exit, Die, Idle
    <2> QED
      BY <2>1 DEF StopInv, StopRow
  <1>12. CASE Crash
    BY <1>12 DEF Crash, Die, StopInv, Idle
  <1>13. CASE Start
    <2>1. /\ saver'.stage = "idle" /\ server' = "running"
          /\ \A u \in Players : due'[u] = {}
      BY <1>13 DEF Start, DownInv, Idle
    <2> QED
      BY <2>1 DEF StopInv, StopRow
  <1>14. CASE Ban
    BY <1>1, <1>14 DEF Ban
  <1> QED
    BY <1>2, <1>3, <1>4, <1>5, <1>6, <1>7, <1>8, <1>9, <1>10, <1>11, <1>12, <1>13,
       <1>14 DEF Next

(* When the server has stopped in order, the database has what each player *)
(* had when the stop was requested, except for those who were removed      *)
(* first or whose entry missed what was saved.                             *)
THEOREM OrderlyStopSaves == Spec => []StopSaves
  <1>1. Init => StopInv
    BY DEF Init, StopInv, StopRow, Held, Idle
  <1>2. StopInv => StopSaves
    BY DEF StopInv, StopRow, StopSaves
  <1> QED
    BY <1>1, <1>2, TypeInit, TypeStep, DownInit, DownStep, RowsInit, RowsStep,
       StopStep, PTL DEF Spec
=============================================================================
