------------------------------- MODULE Session -------------------------------
(***************************************************************************)
(* The life of a player on the server: the connection task from login to   *)
(* leave (connection.rs, handle_connection to handle_play), PlayerManager's *)
(* map of online players, bans, the tick loop's saves to the database, and *)
(* stopping, crashing and restarting the server (mc-server/src/main.rs).   *)
(*                                                                         *)
(* What a player has achieved is the set of its progress units: position,  *)
(* inventory, health are saved and restored together.  The whitelist is    *)
(* checked and persisted the way the bans are, and is left out.  Each step *)
(* is one access to shared state, between two of which any other task of   *)
(* the multi-threaded runtime may run.                                     *)
(***************************************************************************)
EXTENDS Integers, FiniteSets

CONSTANTS
    Players,       \* player uuids
    Conns,         \* connection permits of the semaphore (50)
    Capacities,    \* values of max_players in the configuration file
    MaxProgress,   \* bound: progress units of one player
    MaxLogins,     \* bound: connections accepted
    MaxStarts,     \* bound: restarts of the server
    Nobody

ASSUME SessionAssumption ==
    /\ IsFiniteSet(Players) /\ IsFiniteSet(Conns) /\ Nobody \notin Players
    /\ Capacities \subseteq Nat /\ {MaxProgress, MaxLogins, MaxStarts} \subseteq Nat

VARIABLES
    task,       \* task[c]: stage and player of the connection that holds permit c
    kicked,     \* connections with a Kick of their player in their chat receiver
    online,     \* PlayerManager.players: player -> its progress
    banned,     \* PlayerManager's ban list
    command,    \* the player a /ban has looked up and not yet banned
    startup,    \* saved_player_data, read once when the server starts
    rows,       \* rows[u]: the players table of the database
    banRows,    \* the bans table
    server,     \* "running", "stopping" or "down"
    maxPlayers, \* the configured max_players
    saver,      \* the tick loop's save: its stage and what it has still to write
    made,       \* made[u]: number of units u ever earned
    joined,     \* history: players added since the server started
    stale,      \* history: players whose entry missed what was saved (see Stale)
    gone,       \* history: players removed or replaced since the server started
    slipped,    \* history: connections that a ban could not reach
    due,        \* history: what each player had when the server was told to stop
    kept,       \* history: bans of the last complete save, not pardoned since
    logins, starts  \* bounds

task_vars   == <<task, kicked, slipped>>
player_vars == <<online, joined, stale, gone>>
ban_vars    == <<banned, command>>
disk_vars   == <<rows, banRows, kept>>
run_vars    == <<server, starts, startup, due, maxPlayers>>
vars == <<task_vars, player_vars, ban_vars, disk_vars, run_vars, saver, made, logins>>

Unit == 1..MaxProgress
Stages == {"none", "login", "configuring", "admitted", "registered", "entering",
           "playing", "leaving"}
NoTask == [stage |-> "none", who |-> Nobody]
Idle == [stage |-> "idle", todo |-> [u \in {} |-> {}], bans |-> {}]
Online == DOMAIN online

At(stages) == {c \in Conns : task[c].stage \in stages}
Of(u) == {c \in Conns : task[c].who = u}
ToStage(c, stage) == task' = [task EXCEPT ![c].stage = stage]
Close(c) ==
    /\ task' = [task EXCEPT ![c] = NoTask]
    /\ kicked' = kicked \ {c}
    /\ slipped' = slipped \ {c}

Put(u, units) == online' = [v \in Online \cup {u} |-> IF v = u THEN units ELSE online[v]]
Without(u) == [v \in Online \ {u} |-> online[v]]

Init ==
    /\ task = [c \in Conns |-> NoTask]
    /\ kicked = {} /\ slipped = {}
    /\ online = [u \in {} |-> {}]
    /\ joined = {} /\ stale = {} /\ gone = {}
    /\ banned = {} /\ command = Nobody
    /\ startup = [u \in Players |-> {}]
    /\ rows = [u \in Players |-> {}] /\ banRows = {} /\ kept = {}
    /\ server = "running" /\ starts = 0
    /\ maxPlayers \in Capacities
    /\ due = [u \in Players |-> {}]
    /\ saver = Idle
    /\ made = [u \in Players |-> 0]
    /\ logins = 0

-----------------------------------------------------------------------------
(* A connection: accept_loop, handle_connection, handle_login              *)

Connect(c, u) ==
    /\ server = "running"
    /\ task[c] = NoTask
    /\ logins < MaxLogins
    /\ logins' = logins + 1
    /\ task' = [task EXCEPT ![c] = [stage |-> "login", who |-> u]]
    /\ UNCHANGED <<kicked, slipped, player_vars, ban_vars, disk_vars, run_vars, saver, made>>

(* A read or write fails, or the version does not fit.                     *)
Abort(c) ==
    /\ task[c].stage = "login"
    /\ Close(c)
    /\ UNCHANGED <<player_vars, ban_vars, disk_vars, run_vars, saver, made, logins>>

AnyoneMayLogIn(u) == TRUE    \* mutant: the ban check is missing
MayLogIn(u) == u \notin banned

(* The ban check, and LoginSuccess or LoginDisconnect.                     *)
CheckBan(c) ==
    LET u == task[c].who
    IN  /\ task[c].stage = "login"
        /\ \/ /\ MayLogIn(u)
              /\ ToStage(c, "configuring")
              /\ slipped' = IF command = u THEN slipped \cup {c} ELSE slipped
              /\ kicked' = kicked
           \/ /\ ~MayLogIn(u)
              /\ Close(c)
        /\ UNCHANGED <<player_vars, ban_vars, disk_vars, run_vars, saver, made, logins>>

(* handle_configuration goes on to handle_play whatever the client does;   *)
(* there, after the spawn area is generated, the players are counted.      *)
CheckCapacity(c) ==
    /\ task[c].stage = "configuring"
    /\ \/ /\ Cardinality(Online) < maxPlayers
          /\ ToStage(c, "admitted")
          /\ UNCHANGED <<kicked, slipped>>
       \/ Cardinality(Online) >= maxPlayers /\ Close(c)
    /\ UNCHANGED <<player_vars, ban_vars, disk_vars, run_vars, saver, made, logins>>

(* add_player replaces the entry a second login of the player finds.  What *)
(* was saved since the server started is not in saved_player_data.         *)
AddPlayer(c) ==
    LET u == task[c].who
    IN  /\ task[c].stage = "admitted"
        /\ ToStage(c, "registered")
        /\ Put(u, {})
        /\ joined' = joined \cup {u}
        /\ stale' = IF u \in joined THEN stale \cup {u} ELSE stale
        /\ gone' = IF u \in Online THEN gone \cup {u} ELSE gone
        /\ UNCHANGED <<kicked, slipped, ban_vars, disk_vars, run_vars, saver, made, logins>>

NotRestored(u) == {}    \* mutant: saved data is not found
Restored(u) == startup[u]

(* The saved row, if there is one, overwrites the entry.                   *)
Restore(c) ==
    LET u == task[c].who
    IN  /\ task[c].stage = "registered"
        /\ ToStage(c, "entering")
        /\ IF u \in Online /\ Restored(u) # {} THEN Put(u, Restored(u))
                                               ELSE online' = online
        /\ UNCHANGED <<kicked, slipped, joined, stale, gone, ban_vars, disk_vars,
                       run_vars, saver, made, logins>>

(* play_loop subscribes to the broadcast channels.                         *)
Subscribe(c) ==
    /\ task[c].stage = "entering"
    /\ ToStage(c, "playing")
    /\ UNCHANGED <<kicked, slipped, player_vars, ban_vars, disk_vars, run_vars,
                   saver, made, logins>>

(* A client that is gone while the chunks are sent: handle_play removes    *)
(* the player and returns.                                                 *)
RemoveNothing(u) == online    \* mutant: the early return forgets the entry
RemovePlayer(u) == Without(u)

Drop(c) ==
    /\ online' = RemovePlayer(task[c].who)
    /\ gone' = gone \cup {task[c].who}
    /\ Close(c)
    /\ UNCHANGED <<joined, stale, ban_vars, disk_vars, run_vars, saver, made, logins>>

BreakJoin(c) == task[c].stage = "entering" /\ Drop(c)

(* A packet changes the player's state, if PlayerManager has the player.   *)
Play(c) ==
    LET u == task[c].who
    IN  /\ task[c].stage = "playing"
        /\ u \in Online
        /\ made[u] < MaxProgress
        /\ made' = [made EXCEPT ![u] = @ + 1]
        /\ Put(u, online[u] \cup {made[u] + 1})
        /\ UNCHANGED <<task_vars, joined, stale, gone, ban_vars, disk_vars, run_vars,
                       saver, logins>>

(* play_loop returns: a Kick, a read error, the keep-alive, the shutdown   *)
(* signal.                                                                 *)
EndPlay(c) ==
    /\ task[c].stage = "playing"
    /\ ToStage(c, "leaving")
    /\ kicked' = kicked \ {c}
    /\ UNCHANGED <<slipped, player_vars, ban_vars, disk_vars, run_vars, saver, made, logins>>

(* The end of handle_play: remove_player, and nothing is saved.            *)
Leave(c) == task[c].stage = "leaving" /\ Drop(c)

(* A chat receiver that lags by 64 messages loses the oldest ones.         *)
LoseKick(c) ==
    /\ c \in kicked
    /\ kicked' = kicked \ {c}
    /\ slipped' = slipped \cup {c}
    /\ UNCHANGED <<task, player_vars, ban_vars, disk_vars, run_vars, saver, made, logins>>

-----------------------------------------------------------------------------
(* Bans: admin.rs                                                          *)

KickNobody(u) == {}    \* mutant: nobody hears the Kick
KickEveryTask(u) == Of(u)    \* mutant: a Kick waits for tasks that subscribe later
Kicks(u) == At({"playing"}) \cap Of(u)

Kick(u) ==
    /\ command = Nobody
    /\ u \in Online
    /\ kicked' = kicked \cup Kicks(u)
    /\ UNCHANGED <<task, slipped, player_vars, ban_vars, disk_vars, run_vars, saver,
                   made, logins>>

(* /ban looks the player up and kicks it: the Kick reaches the receivers   *)
(* that exist now.                                                         *)
LookUpBan(u) ==
    /\ server # "down"
    /\ command = Nobody
    /\ u \notin banned
    /\ command' = u
    /\ IF u \in Online
       THEN /\ kicked' = kicked \cup Kicks(u)
            /\ slipped' = slipped \cup (Of(u) \cap At({"configuring", "admitted",
                                                       "registered", "entering"}))
       ELSE /\ kicked' = kicked
            /\ slipped' = slipped \cup (Of(u) \ At({"login"}))
    /\ UNCHANGED <<task, player_vars, banned, disk_vars, run_vars, saver, made, logins>>

Ban ==
    /\ command # Nobody
    /\ banned' = banned \cup {command}
    /\ command' = Nobody
    /\ UNCHANGED <<task_vars, player_vars, disk_vars, run_vars, saver, made, logins>>

Pardon(u) ==
    /\ server # "down"
    /\ command = Nobody
    /\ u \in banned
    /\ banned' = banned \ {u}
    /\ kept' = kept \ {u}
    /\ UNCHANGED <<task_vars, player_vars, command, rows, banRows, run_vars, saver,
                   made, logins>>
-----------------------------------------------------------------------------
(* Saving: the tick loop, SaveManager                                      *)

NoSnapshot == [u \in {} |-> {}]    \* mutant: nobody is saved
Snapshot == online

(* Every save_interval_ticks, on /save-all, and after the shutdown signal: *)
(* all_players() clones every entry.  Entries not restored yet are cloned  *)
(* like any other.                                                         *)
BeginSave ==
    /\ server # "down"
    /\ saver.stage = "idle"
    /\ saver' = [stage |-> IF server = "stopping" THEN "finalRows" ELSE "rows",
                 todo |-> Snapshot, bans |-> {}]
    /\ stale' = stale \cup {task[c].who : c \in At({"registered"})}
    /\ UNCHANGED <<task_vars, online, joined, gone, ban_vars, disk_vars, run_vars,
                   made, logins>>

(* save_player_full: INSERT OR REPLACE.                                    *)
SaveRow(u) ==
    /\ saver.stage \in {"rows", "finalRows"}
    /\ u \in DOMAIN saver.todo
    /\ rows' = [rows EXCEPT ![u] = saver.todo[u]]
    /\ saver' = [saver EXCEPT !.todo = [v \in DOMAIN @ \ {u} |-> @[v]]]
    /\ UNCHANGED <<task_vars, player_vars, ban_vars, banRows, kept, run_vars, made, logins>>

(* persist_bans: the table is emptied, then filled row by row.             *)
ClearBans ==
    /\ saver.stage \in {"rows", "finalRows"}
    /\ DOMAIN saver.todo = {}
    /\ banRows' = {}
    /\ saver' = [saver EXCEPT !.stage = IF @ = "rows" THEN "bans" ELSE "finalBans",
                              !.bans = banned]
    /\ UNCHANGED <<task_vars, player_vars, ban_vars, rows, kept, run_vars, made, logins>>

InsertBan(u) ==
    /\ saver.stage \in {"bans", "finalBans"}
    /\ u \in saver.bans
    /\ banRows' = banRows \cup {u}
    /\ saver' = [saver EXCEPT !.bans = @ \ {u}]
    /\ UNCHANGED <<task_vars, player_vars, ban_vars, rows, kept, run_vars, made, logins>>

EndSave ==
    /\ saver.stage = "bans"
    /\ saver.bans = {}
    /\ saver' = Idle
    /\ kept' = banRows \cap banned
    /\ UNCHANGED <<task_vars, player_vars, ban_vars, rows, banRows, run_vars, made, logins>>

-----------------------------------------------------------------------------
(* The server process                                                      *)

(* /stop, Ctrl-C, SIGTERM: the accept loop ends at once, the tick loop and *)
(* the connections when they come to their receiver.                       *)
Stop ==
    /\ server = "running"
    /\ server' = "stopping"
    /\ due' = [u \in Players |-> IF u \in Online THEN online[u] ELSE {}]
    /\ UNCHANGED <<task_vars, player_vars, ban_vars, disk_vars, starts, startup, maxPlayers,
                   saver, made, logins>>

(* The process is gone, and with it every task and all memory.             *)
Die ==
    /\ server' = "down"
    /\ task' = [c \in Conns |-> NoTask]
    /\ kicked' = {} /\ slipped' = {}
    /\ online' = [u \in {} |-> {}]
    /\ banned' = {} /\ command' = Nobody
    /\ saver' = Idle
    /\ UNCHANGED <<joined, stale, rows, banRows, starts, startup, due, maxPlayers, made,
                   logins>>

(* The final save is done: main returns.                                   *)
Exit ==
    /\ saver.stage = "finalBans"
    /\ saver.bans = {}
    /\ kept' = banRows \cap banned
    /\ Die
    /\ UNCHANGED gone

(* A crash: what was not saved is lost, and a half-filled bans table stays *)
(* so.                                                                     *)
Crash ==
    /\ server # "down"
    /\ starts < MaxStarts
    /\ kept' = IF saver.stage \in {"bans", "finalBans"} THEN {} ELSE kept
    /\ gone' = Players
    /\ Die

LoadNothing == {}    \* mutant: the bans are not loaded
LoadBans == banRows

(* main: bans and player rows are read from the database, once.            *)
Start ==
    /\ server = "down"
    /\ starts < MaxStarts
    /\ starts' = starts + 1
    /\ server' = "running"
    /\ banned' = LoadBans
    /\ startup' = rows
    /\ joined' = {} /\ stale' = {} /\ gone' = {}
    /\ due' = [u \in Players |-> {}]
    /\ UNCHANGED <<task_vars, online, command, disk_vars, maxPlayers, saver, made, logins>>

-----------------------------------------------------------------------------
Next ==
    \/ \E c \in Conns :
        \/ \E u \in Players : Connect(c, u)
        \/ Abort(c) \/ CheckBan(c) \/ CheckCapacity(c) \/ AddPlayer(c) \/ Restore(c)
        \/ Subscribe(c) \/ BreakJoin(c) \/ Play(c) \/ EndPlay(c) \/ Leave(c) \/ LoseKick(c)
    \/ \E u \in Players :
        \/ Kick(u) \/ LookUpBan(u) \/ Pardon(u)
        \/ SaveRow(u) \/ InsertBan(u)
    \/ Ban
    \/ BeginSave \/ ClearBans \/ EndSave
    \/ Stop \/ Exit \/ Crash \/ Start

Spec == Init /\ [][Next]_vars

-----------------------------------------------------------------------------
(* Properties                                                              *)

(* Every variable has its type, and only a task that has subscribed holds  *)
(* a Kick.                                                                 *)
TypeOK ==
    /\ task \in [Conns -> [stage: Stages, who: Players \cup {Nobody}]]
    /\ kicked \subseteq At({"playing"}) /\ slipped \subseteq Conns
    /\ Online \subseteq Players /\ online \in [Online -> SUBSET Unit]
    /\ banned \subseteq Players /\ command \in Players \cup {Nobody}
    /\ startup \in [Players -> SUBSET Unit] /\ rows \in [Players -> SUBSET Unit]
    /\ due \in [Players -> SUBSET Unit]
    /\ banRows \subseteq Players /\ kept \subseteq Players
    /\ server \in {"running", "stopping", "down"} /\ maxPlayers \in Capacities
    /\ saver.stage \in {"idle", "rows", "bans", "finalRows", "finalBans"}
    /\ DOMAIN saver.todo \subseteq Players /\ saver.bans \subseteq Players
    /\ made \in [Players -> 0..MaxProgress]
    /\ UNION {joined, stale, gone} \subseteq Players
    /\ logins \in 0..MaxLogins /\ starts \in 0..MaxStarts

(* A player in PlayerManager has a connection task that will remove it: no *)
(* early return of handle_play, and no second login of the same player     *)
(* with the first one leaving later, leaves an entry behind.               *)
OnlineHasTask ==
    \A u \in Online :
        Of(u) \cap At({"registered", "entering", "playing", "leaving"}) # {}

(* A save never takes back what an earlier one wrote of a player, unless   *)
(* the player came back after it joined this server run (it is restored    *)
(* from what the server read when it started), or was cloned between       *)
(* add_player and its restoration.                                         *)
RowsGrow == [][\A u \in Players : rows[u] \subseteq rows'[u] \/ u \in stale]_vars

(* When the server has stopped in order, the database has what each player *)
(* had when the stop was requested, except for those whose connection took *)
(* the same signal first and removed them.                                 *)
StopSaves ==
    server = "down" => \A u \in Players \ (gone \cup stale) : due[u] \subseteq rows[u]

(* A banned player who is still in play is about to be kicked, unless its  *)
(* connection was between the ban check and play_loop when the ban was     *)
(* given, had lost its entry to a second login, or lost the Kick to lag.   *)
BanHolds ==
    \A c \in At({"playing"}) : task[c].who \in banned => c \in kicked \cup slipped

(* A ban that a complete save has written holds after every restart, until *)
(* it is pardoned, unless the server crashed while it filled the table.    *)
SavedBansHold == server = "running" => kept \subseteq banned

(* A player who joins continues from the last save ("Restore saved player  *)
(* data (position, health, gamemode, OP)", handle_play).                   *)
RestoresSaved ==
    [][\A c \in Conns :
          LET u == task[c].who
          IN  /\ task[c].stage = "registered" /\ task'[c].stage = "entering"
              /\ Of(u) = {c} /\ u \in Online
              => online'[u] = rows[u]]_vars

=============================================================================
