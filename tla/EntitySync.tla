----------------------------- MODULE EntitySync -----------------------------
(***************************************************************************)
(* Which players and mobs a client displays.  A joining connection is told *)
(* of the players already there by packets (connection.rs, handle_play);   *)
(* everything later reaches it as events of one broadcast channel, drained *)
(* at the top of each iteration of its play loop and filtered by distance  *)
(* and by the set known_entities (play_loop.rs; player.rs sends them).     *)
(*                                                                         *)
(* A tokio broadcast channel keeps the last Capacity events for each       *)
(* receiver.  A receiver that falls behind loses the oldest ones and gets  *)
(* one Lagged error, which ends the `while let Ok` loop of its iteration.  *)
(*                                                                         *)
(* An entity id is its owner and the number of the owner's join or spawn;  *)
(* positions are points of a line.  Positions of mobs travel on a channel  *)
(* of their own and are left out.                                          *)
(***************************************************************************)
EXTENDS Integers, Sequences

CONSTANTS
    Players, Mobs,
    Positions,     \* a finite set of integers
    Origin,        \* where add_player puts a player
    PlayerRange,   \* view_distance * 16 + 32
    MobRange,      \* the tracking range of a mob
    Capacity,      \* of the broadcast channel (128)
    MaxJoins,      \* bound: joins and mob spawns together
    MaxMoves       \* bound: changes of position

ASSUME SyncAssumption ==
    /\ Players \cap Mobs = {}
    /\ Positions \subseteq Int /\ Origin \in Positions
    /\ {PlayerRange, MobRange, MaxJoins, MaxMoves} \subseteq Nat
    /\ Capacity \in Nat \ {0}

VARIABLES
    session,     \* session[pl]: the connection task of pl
    position,    \* position[pl]: as PlayerManager has it
    mob,         \* the entity ids of the living mobs
    queue,       \* queue[pl]: the events the receiver of pl has still to read
    lagged,      \* lagged[pl]: the next try_recv is Err(Lagged)
    known,       \* known_entities of pl's play loop
    shown,       \* shown[pl]: what pl's client displays, entity id -> position
    lost,        \* history: entity ids of the events pl's receiver lost
    told,        \* history: the last position broadcast for a player
    joins, moves \* bounds

client_vars == <<known, shown>>
channel_vars == <<queue, lagged, lost>>
bounds == <<joins, moves>>
vars == <<session, position, mob, client_vars, channel_vars, told, bounds>>

Stages == {"away", "joining", "announced", "listing", "playing", "draining",
           "returned", "leaving"}
EntityId == (Players \cup Mobs) \X (1..MaxJoins)
Event == [kind: {"spawn", "move", "despawn"}, id: EntityId, at: Positions]

Owner(id) == id[1]
Distance(p, q) == IF p < q THEN q - p ELSE p - q
Id(pl) == <<pl, session[pl].join>>

(* The players map of PlayerManager, between add_player and remove_player. *)
Registered == {pl \in Players : session[pl].stage # "away"}
Alive == {Id(pl) : pl \in Registered} \cup mob

(* The connections whose play loop has subscribed.                         *)
Subscribed == {pl \in Players : session[pl].stage \in {"playing", "draining"}}

NoEntities == [id \in {} |-> Origin]
Displaying(f, id, at) == [i \in DOMAIN f \cup {id} |-> IF i = id THEN at ELSE f[i]]
Without(f, id) == [i \in DOMAIN f \ {id} |-> f[i]]

Init ==
    /\ session = [pl \in Players |->
                    [stage |-> "away", join |-> 0, todo |-> NoEntities, me |-> Origin]]
    /\ position = [pl \in Players |-> Origin]
    /\ mob = {}
    /\ queue = [pl \in Players |-> <<>>]
    /\ lagged = [pl \in Players |-> FALSE]
    /\ known = [pl \in Players |-> {}]
    /\ shown = [pl \in Players |-> NoEntities]
    /\ lost = [pl \in Players |-> {}]
    /\ told = [pl \in Players |-> Origin]
    /\ joins = 0
    /\ moves = 0

Update(pl, s) == session' = [session EXCEPT ![pl] = s]
ToStage(pl, stage) == Update(pl, [session[pl] EXCEPT !.stage = stage])

Drops(pl) == Len(queue[pl]) = Capacity

(* entity_tx.send: every receiver gets the event and may lose its oldest.  *)
Broadcast(ev) ==
    /\ queue' = [pl \in Players |->
         IF pl \notin Subscribed THEN queue[pl]
         ELSE Append(IF Drops(pl) THEN Tail(queue[pl]) ELSE queue[pl], ev)]
    /\ lagged' = [pl \in Players |-> lagged[pl] \/ (pl \in Subscribed /\ Drops(pl))]
    /\ lost' = [pl \in Players |->
         IF pl \in Subscribed /\ Drops(pl) THEN lost[pl] \cup {Head(queue[pl]).id}
                                           ELSE lost[pl]]

SpawnOf(id, at) == [kind |-> "spawn", id |-> id, at |-> at]
MoveOf(id, at) == [kind |-> "move", id |-> id, at |-> at]
DespawnOf(id) == [kind |-> "despawn", id |-> id, at |-> Origin]

-----------------------------------------------------------------------------
(* Joining                                                                 *)

(* add_player at the origin; the saved position, if any, replaces it.      *)
Register(pl) ==
    /\ session[pl].stage = "away"
    /\ joins < MaxJoins
    /\ joins' = joins + 1
    /\ Update(pl, [session[pl] EXCEPT !.stage = "joining", !.join = joins + 1])
    /\ \E p \in Positions : position' = [position EXCEPT ![pl] = p]
    /\ UNCHANGED <<mob, client_vars, channel_vars, told, moves>>

(* A chunk packet carries a passive mob to this client only.               *)
SendChunkMob(pl, m, p) ==
    /\ session[pl].stage = "joining"
    /\ joins < MaxJoins
    /\ joins' = joins + 1
    /\ m \notin {Owner(id) : id \in mob}
    /\ mob' = mob \cup {<<m, joins + 1>>}
    /\ shown' = [shown EXCEPT ![pl] = Displaying(shown[pl], <<m, joins + 1>>, p)]
    /\ UNCHANGED <<session, position, known, channel_vars, told, moves>>

(* The connection breaks while the chunks are sent: cleanup_player_join.   *)
BreakJoin(pl) ==
    /\ session[pl].stage = "joining"
    /\ ToStage(pl, "away")
    /\ shown' = [shown EXCEPT ![pl] = NoEntities]
    /\ UNCHANGED <<position, mob, known, channel_vars, told, bounds>>

(* broadcast_entity_spawn(entity_id, ..., 0.0, 64.0, 0.0, ...).            *)
Announce(pl) ==
    /\ session[pl].stage = "joining"
    /\ ToStage(pl, "announced")
    /\ told' = [told EXCEPT ![pl] = Origin]
    /\ Broadcast(SpawnOf(Id(pl), Origin))
    /\ UNCHANGED <<position, mob, client_vars, bounds>>

(* player_manager.others(): a copy of the other players.                   *)
ListOthers(pl) ==
    /\ session[pl].stage = "announced"
    /\ LET others == Registered \ {pl}
       IN  Update(pl, [session[pl] EXCEPT !.stage = "listing", !.todo =
             [id \in {Id(o) : o \in others} |-> position[Owner(id)]]])
    /\ UNCHANGED <<position, mob, client_vars, channel_vars, told, bounds>>

SendExisting(pl, id) ==
    /\ session[pl].stage = "listing"
    /\ id \in DOMAIN session[pl].todo
    /\ shown' = [shown EXCEPT ![pl] = Displaying(shown[pl], id, session[pl].todo[id])]
    /\ Update(pl, [session[pl] EXCEPT !.todo = Without(@, id)])
    /\ UNCHANGED <<position, mob, known, channel_vars, told, bounds>>

(* play_loop begins: subscribe_entities, and known_entities is empty.      *)
Subscribe(pl) ==
    /\ session[pl].stage = "listing"
    /\ DOMAIN session[pl].todo = {}
    /\ ToStage(pl, "playing")
    /\ UNCHANGED <<position, mob, client_vars, channel_vars, told, bounds>>

-----------------------------------------------------------------------------
(* One iteration of the play loop                                          *)

BeginDrain(pl) ==
    /\ session[pl].stage = "playing"
    /\ queue[pl] # <<>> \/ lagged[pl]
    /\ Update(pl, [session[pl] EXCEPT !.stage = "draining", !.me = position[pl]])
    /\ UNCHANGED <<position, mob, client_vars, channel_vars, told, bounds>>

TrackingRange(id) == IF Owner(id) \in Mobs THEN MobRange ELSE PlayerRange
TooFar(pl, ev) ==
    /\ ev.kind # "despawn"
    /\ Distance(ev.at, session[pl].me) > TrackingRange(ev.id)

AppearsOnly(pl, ev) ==    \* mutant: the entity is not entered in known_entities
    /\ ev.kind = "spawn" /\ ~TooFar(pl, ev) /\ ev.id \notin known[pl]
    /\ shown' = [shown EXCEPT ![pl] = Displaying(shown[pl], ev.id, ev.at)]
    /\ known' = known
Appears(pl, ev) ==
    /\ ev.kind = "spawn" /\ ~TooFar(pl, ev) /\ ev.id \notin known[pl]
    /\ shown' = [shown EXCEPT ![pl] = Displaying(shown[pl], ev.id, ev.at)]
    /\ known' = [known EXCEPT ![pl] = @ \cup {ev.id}]

StaysPut(pl, ev) ==       \* mutant: the teleport is not sent
    /\ ev.kind = "move" /\ ~TooFar(pl, ev) /\ ev.id \in known[pl]
    /\ UNCHANGED <<known, shown>>
Follows(pl, ev) ==
    /\ ev.kind = "move" /\ ~TooFar(pl, ev) /\ ev.id \in known[pl]
    /\ shown' = [shown EXCEPT ![pl][ev.id] = ev.at]
    /\ known' = known

(* RemoveEntities: gone, or out of range.                                  *)
RemovesNot(pl, ev) ==     \* mutant: a despawn only leaves the tab list
    /\ ev.kind = "despawn" \/ TooFar(pl, ev)
    /\ ev.id \in known[pl]
    /\ UNCHANGED <<known, shown>>
Removes(pl, ev) ==
    /\ ev.kind = "despawn" \/ TooFar(pl, ev)
    /\ ev.id \in known[pl]
    /\ known' = [known EXCEPT ![pl] = @ \ {ev.id}]
    /\ shown' = [shown EXCEPT ![pl] = Without(@, ev.id)]

Ignores(pl, ev) ==
    /\ \/ Owner(ev.id) = pl
       \/ ev.kind = "spawn" /\ ~TooFar(pl, ev) /\ ev.id \in known[pl]
       \/ ev.id \notin known[pl] /\ (ev.kind # "spawn" \/ TooFar(pl, ev))
    /\ UNCHANGED <<known, shown>>

Receive(pl) ==
    /\ session[pl].stage = "draining"
    /\ ~lagged[pl]
    /\ queue[pl] # <<>>
    /\ queue' = [queue EXCEPT ![pl] = Tail(@)]
    /\ LET ev == Head(queue[pl])
       IN  \/ Ignores(pl, ev)
           \/ Owner(ev.id) # pl /\ (Appears(pl, ev) \/ Follows(pl, ev) \/ Removes(pl, ev))
    /\ UNCHANGED <<session, position, mob, lagged, lost, told, bounds>>

EndDrain(pl) ==
    /\ session[pl].stage = "draining"
    /\ lagged[pl] \/ queue[pl] = <<>>
    /\ lagged' = [lagged EXCEPT ![pl] = FALSE]
    /\ Update(pl, [session[pl] EXCEPT !.stage = "playing", !.me = Origin])
    /\ UNCHANGED <<position, mob, client_vars, queue, lost, told, bounds>>

(* A movement packet.  0x1F takes any position; 0x21 broadcasts a position *)
(* it refused too, until the eighth refusal puts the player back silently. *)
Walk(pl, p) ==
    /\ session[pl].stage = "playing"
    /\ moves < MaxMoves
    /\ moves' = moves + 1
    /\ \/ position' = [position EXCEPT ![pl] = p]
       \/ position' = position
    /\ told' = [told EXCEPT ![pl] = p]
    /\ Broadcast(MoveOf(Id(pl), p))
    /\ UNCHANGED <<session, mob, client_vars, joins>>

(* Rubberbanding, a teleport command, a respawn: nothing is broadcast.     *)
Reposition(pl, p) ==
    /\ pl \in Registered
    /\ p # position[pl]
    /\ moves < MaxMoves
    /\ moves' = moves + 1
    /\ position' = [position EXCEPT ![pl] = p]
    /\ UNCHANGED <<session, mob, client_vars, channel_vars, told, joins>>

-----------------------------------------------------------------------------
(* Leaving: play_loop returns and drops its receiver, the despawn is       *)
(* broadcast, and the player is removed from the map.                      *)
Disconnect(pl) ==
    /\ session[pl].stage = "playing"
    /\ ToStage(pl, "returned")
    /\ queue' = [queue EXCEPT ![pl] = <<>>]
    /\ lagged' = [lagged EXCEPT ![pl] = FALSE]
    /\ lost' = [lost EXCEPT ![pl] = {}]
    /\ shown' = [shown EXCEPT ![pl] = NoEntities]
    /\ known' = [known EXCEPT ![pl] = {}]
    /\ UNCHANGED <<position, mob, told, bounds>>

LeaveQuietly(pl) ==       \* mutant
    /\ session[pl].stage = "returned"
    /\ ToStage(pl, "leaving")
    /\ UNCHANGED <<position, mob, client_vars, channel_vars, told, bounds>>
AnnounceLeave(pl) ==
    /\ session[pl].stage = "returned"
    /\ ToStage(pl, "leaving")
    /\ Broadcast(DespawnOf(Id(pl)))
    /\ UNCHANGED <<position, mob, client_vars, told, bounds>>

Remove(pl) ==
    /\ session[pl].stage = "leaving"
    /\ ToStage(pl, "away")
    /\ position' = [position EXCEPT ![pl] = Origin]
    /\ told' = [told EXCEPT ![pl] = Origin]
    /\ UNCHANGED <<mob, client_vars, channel_vars, bounds>>

-----------------------------------------------------------------------------
(* Mobs: the tick loop and the spawners broadcast them.                    *)

SpawnMob(m, p) ==
    /\ joins < MaxJoins
    /\ joins' = joins + 1
    /\ m \notin {Owner(id) : id \in mob}
    /\ mob' = mob \cup {<<m, joins + 1>>}
    /\ Broadcast(SpawnOf(<<m, joins + 1>>, p))
    /\ UNCHANGED <<session, position, client_vars, told, moves>>

DespawnMob(id) ==
    /\ id \in mob
    /\ mob' = mob \ {id}
    /\ Broadcast(DespawnOf(id))
    /\ UNCHANGED <<session, position, client_vars, told, bounds>>

-----------------------------------------------------------------------------
Iterate(pl) == BeginDrain(pl) \/ Receive(pl) \/ EndDrain(pl)

Next ==
    \/ \E pl \in Players :
        \/ Register(pl) \/ BreakJoin(pl) \/ Announce(pl) \/ ListOthers(pl)
        \/ \E m \in Mobs, p \in Positions : SendChunkMob(pl, m, p)
        \/ \E id \in DOMAIN session[pl].todo : SendExisting(pl, id)
        \/ Subscribe(pl)
        \/ Iterate(pl)
        \/ \E p \in Positions : Walk(pl, p) \/ Reposition(pl, p)
        \/ Disconnect(pl) \/ AnnounceLeave(pl) \/ Remove(pl)
    \/ \E m \in Mobs, p \in Positions : SpawnMob(m, p)
    \/ \E id \in mob : DespawnMob(id)

Spec == Init /\ [][Next]_vars

(* A play loop comes back to its receiver after at most 250 ms of waiting  *)
(* for a packet.                                                           *)
FairSpec == Spec /\ \A pl \in Players : WF_vars(Iterate(pl))

-----------------------------------------------------------------------------
(* Properties                                                              *)

(* Every variable has its type, and a receiver never holds more than the   *)
(* capacity of the channel.                                                *)
TypeOK ==
    /\ \A pl \in Players :
        /\ session[pl].stage \in Stages
        /\ session[pl].join \in 0..MaxJoins
        /\ session[pl].me \in Positions
        /\ DOMAIN session[pl].todo \subseteq EntityId
        /\ queue[pl] \in Seq(Event) /\ Len(queue[pl]) <= Capacity
        /\ DOMAIN shown[pl] \subseteq EntityId
        /\ \A id \in DOMAIN shown[pl] : shown[pl][id] \in Positions
    /\ position \in [Players -> Positions] /\ told \in [Players -> Positions]
    /\ mob \subseteq EntityId
    /\ lagged \in [Players -> BOOLEAN]
    /\ known \in [Players -> SUBSET EntityId] /\ lost \in [Players -> SUBSET EntityId]
    /\ joins \in 0..MaxJoins /\ moves \in 0..MaxMoves

Coming(pl, id) == {i \in DOMAIN queue[pl] : queue[pl][i].id = id}

(* A client of whose entities one has gone is about to be told, unless its *)
(* receiver lagged: no interleaving of joining, listing and leaving leaves *)
(* an entity in known_entities for ever.                                   *)
KnownGoneIsTold ==
    \A pl \in Subscribed : \A id \in known[pl] \ Alive :
        \/ id \in lost[pl]
        \/ \E i \in Coming(pl, id) : queue[pl][i].kind = "despawn"

(* Once the events of a known player are drained its client displays it    *)
(* where it was last announced, however drains, walks and leaves overlap.  *)
ClientFollows ==
    \A pl \in Subscribed : \A o \in Registered :
        Id(o) \in (known[pl] \cap DOMAIN shown[pl]) \ lost[pl] /\ Coming(pl, Id(o)) = {}
            => shown[pl][Id(o)] = told[o]

(* An entity that went while a client knew it is removed from that client  *)
(* in the end, unless its receiver lagged or the client left.              *)
GoneDisappears ==
    \A pl \in Players : \A id \in {i \in EntityId : Owner(i) # pl} :
        id \in known[pl] \ Alive ~> id \notin known[pl] \/ id \in lost[pl]

=============================================================================
