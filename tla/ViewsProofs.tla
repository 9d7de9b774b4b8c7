------------------------------ MODULE ViewsProofs ------------------------------
(***************************************************************************)
(* Proofs about ChunkStreaming, for every set of players, positions and    *)
(* loader jobs and every value of the distances and bounds; about Frames,  *)
(* for every base, payload and sequence of packets; about EntitySync, for  *)
(* every set of players and capacity of a channel; and about the three     *)
(* beside each other as MCViews composes them.                             *)
(***************************************************************************)
EXTENDS MCViews, Descent, SequenceTheorems, TLAPS

-----------------------------------------------------------------------------
(* The inductive invariant                                                 *)

(* What a client may display, or be about to be sent.                      *)
Displays == UNION {[S -> Positions] : S \in SUBSET EntityId}
SessionType == [stage: Stages, join: 0..MaxJoins, todo: Displays, me: Positions]

(* Ids are issued in order, so the next one is in nobody's hands.          *)
Issued == (Players \cup Mobs) \X (1..joins)

SessionOK ==
    /\ session \in [Players -> SessionType]
    /\ \A pl \in Registered : session[pl].join \in 1..joins
    /\ position \in [Players -> Positions] /\ told \in [Players -> Positions]
    /\ mob \subseteq Issued /\ \A id \in mob : Owner(id) \in Mobs
    /\ joins \in 0..MaxJoins /\ moves \in 0..MaxMoves

ChannelOK ==
    /\ queue \in [Players -> Seq(Event)]
    /\ \A pl \in Players : Len(queue[pl]) <= Capacity
    /\ \A pl \in Players : \A i \in 1..Len(queue[pl]) : queue[pl][i].id \in Issued
    /\ lagged \in [Players -> BOOLEAN]
    /\ lost \in [Players -> SUBSET EntityId]

ClientOK ==
    /\ shown \in [Players -> Displays]
    /\ known \in [Players -> SUBSET Issued]
    /\ \A pl \in Players : known[pl] \subseteq DOMAIN shown[pl]
    /\ \A pl \in Players : \A id \in known[pl] : Owner(id) # pl

TypeInv == SessionOK /\ ChannelOK /\ ClientOK

(* Before it subscribes and after it returns a play loop knows nothing.    *)
IdleKnowsNothing ==
    \A pl \in Players \ Subscribed : queue[pl] = <<>> /\ known[pl] = {}

Unheard(id) ==
    \A pl \in Players :
        id \notin known[pl] /\ \A i \in 1..Len(queue[pl]) : queue[pl][i].id # id

(* Nobody has heard of a player who has not been announced.                *)
JoiningIsUnheard ==
    \A o \in Players : session[o].stage = "joining" => Unheard(Id(o))

(* The spawn of an entity is the first that a receiver hears of it.        *)
SpawnIsFirst ==
    \A pl \in Players : \A i \in 1..Len(queue[pl]) : queue[pl][i].kind = "spawn" =>
        /\ queue[pl][i].id \notin known[pl]
        /\ \A j \in 1..(i - 1) : queue[pl][j].id # queue[pl][i].id

(* The entities whose despawn has not been broadcast yet.                  *)
Present == {Id(pl) : pl \in {o \in Registered : session[o].stage # "leaving"}} \cup mob

DespawnFollows(pl, id, i) ==
    \/ id \in lost[pl]
    \/ \E j \in (i + 1)..Len(queue[pl]) : queue[pl][j].kind = "despawn" /\ queue[pl][j].id = id

KnownIsTold ==
    \A pl \in Players : \A id \in known[pl] \ Present : DespawnFollows(pl, id, 0)
SpawnedIsTold ==
    \A pl \in Players : \A i \in 1..Len(queue[pl]) :
        queue[pl][i].kind = "spawn" /\ queue[pl][i].id \notin Present
            => DespawnFollows(pl, queue[pl][i].id, i)

GoneInv == KnownIsTold /\ SpawnedIsTold

(* The last event coming of a registered player says where it is.          *)
LastIsTold ==
    \A pl \in Players : \A o \in Registered : \A i \in 1..Len(queue[pl]) :
        queue[pl][i].id = Id(o) /\ (\A j \in (i + 1)..Len(queue[pl]) : queue[pl][j].id # Id(o))
            => queue[pl][i].kind = "despawn" \/ queue[pl][i].at = told[o]
SettledIsTold ==
    \A pl \in Players : \A o \in Registered :
        Id(o) \in known[pl] \ lost[pl] /\ (\A j \in 1..Len(queue[pl]) : queue[pl][j].id # Id(o))
            => shown[pl][Id(o)] = told[o]
FollowInv == LastIsTold /\ SettledIsTold

-----------------------------------------------------------------------------
(* What a client displays                                                  *)

LEMMA DisplayType ==
    /\ \A S \in SUBSET EntityId : [S -> Positions] \subseteq Displays
    /\ \A f \in Displays : DOMAIN f \subseteq EntityId /\ f \in [DOMAIN f -> Positions]
  BY DEF Displays

LEMMA NoEntitiesType == NoEntities \in Displays
  <1>1. NoEntities \in [{} -> Positions]
    BY DEF NoEntities
  <1> QED
    BY <1>1, DisplayType

LEMMA DisplayingType ==
    ASSUME NEW f \in Displays, NEW id \in EntityId, NEW at \in Positions
    PROVE  /\ Displaying(f, id, at) \in Displays
           /\ DOMAIN Displaying(f, id, at) = DOMAIN f \cup {id}
           /\ Displaying(f, id, at)[id] = at
           /\ \A i \in DOMAIN f \ {id} : Displaying(f, id, at)[i] = f[i]
  <1>1. DOMAIN f \subseteq EntityId /\ f \in [DOMAIN f -> Positions]
    BY DisplayType
  <1>2. Displaying(f, id, at) \in [DOMAIN f \cup {id} -> Positions]
    BY <1>1 DEF Displaying
  <1>3. DOMAIN f \cup {id} \in SUBSET EntityId
    BY <1>1
  <1>4. Displaying(f, id, at) \in Displays
    BY <1>2, <1>3, DisplayType
  <1> QED
    BY <1>4 DEF Displaying

LEMMA WithoutType ==
    ASSUME NEW f \in Displays, NEW id
    PROVE  /\ Without(f, id) \in Displays
           /\ DOMAIN Without(f, id) = DOMAIN f \ {id}
           /\ \A i \in DOMAIN f \ {id} : Without(f, id)[i] = f[i]
  <1>1. DOMAIN f \subseteq EntityId /\ f \in [DOMAIN f -> Positions]
    BY DisplayType
  <1>2. Without(f, id) \in [DOMAIN f \ {id} -> Positions]
    BY <1>1 DEF Without
  <1>3. DOMAIN f \ {id} \in SUBSET EntityId
    BY <1>1
  <1>4. Without(f, id) \in Displays
    BY <1>2, <1>3, DisplayType
  <1> QED
    BY <1>4 DEF Without

-----------------------------------------------------------------------------
(* Ids, sessions and the channel                                           *)

LEMMA IssuedType ==
    ASSUME SessionOK
    PROVE  /\ Issued \subseteq EntityId
           /\ \A pl \in Registered : Id(pl) \in Issued /\ Owner(Id(pl)) = pl
           /\ \A pl \in Players, o \in Players : Id(pl) = Id(o) => pl = o
  <1>1. 1..joins \subseteq 1..MaxJoins
    BY SyncAssumption DEF SessionOK
  <1>2. Issued \subseteq EntityId
    BY <1>1 DEF Issued, EntityId
  <1>3. \A pl \in Registered : Id(pl) \in Issued
    BY DEF SessionOK, Issued, Id, Registered
  <1> QED
    BY <1>2, <1>3 DEF Id, Owner

LEMMA Updated ==
    ASSUME session \in [Players -> SessionType], NEW pl \in Players, NEW s, Update(pl, s)
    PROVE  /\ session'[pl] = s
           /\ \A q \in Players \ {pl} : session'[q] = session[q]
           /\ s \in SessionType => session' \in [Players -> SessionType]
  BY DEF Update

LEMMA SessionFields ==
    ASSUME session \in [Players -> SessionType], NEW pl \in Players
    PROVE  /\ session[pl].stage \in Stages /\ session[pl].join \in 0..MaxJoins
           /\ session[pl].todo \in Displays /\ session[pl].me \in Positions
           /\ session[pl] \in SessionType
  BY DEF SessionType

(* A receiver's queue loses its first k events, and gains nothing else     *)
(* within the length that leaves.                                          *)
Slides(pl, k) ==
    /\ k <= Len(queue[pl])
    /\ Len(queue[pl]) - k <= Len(queue'[pl])
    /\ \A i \in 1..(Len(queue[pl]) - k) : queue'[pl][i] = queue[pl][i + k]

(* A broadcast at one receiver: the event comes last, and at most the      *)
(* first is lost, whose id the history keeps.                              *)
Hears(pl, ev) ==
    \E k \in {0, 1} :
        /\ Slides(pl, k)
        /\ Len(queue'[pl]) = Len(queue[pl]) - k + 1
        /\ queue'[pl][Len(queue'[pl])] = ev
        /\ lost[pl] \subseteq lost'[pl]
        /\ k = 1 => queue[pl][1].id \in lost'[pl]

LEMMA Sent ==
    ASSUME ChannelOK, NEW ev \in Event, Broadcast(ev), ev.id \in EntityId
    PROVE  /\ \A pl \in Players \ Subscribed : queue'[pl] = queue[pl] /\ lost'[pl] = lost[pl]
           /\ \A pl \in Subscribed : Hears(pl, ev)
           /\ queue' \in [Players -> Seq(Event)]
           /\ \A pl \in Players : Len(queue'[pl]) <= Capacity
           /\ lagged' \in [Players -> BOOLEAN]
           /\ lost' \in [Players -> SUBSET EntityId]
  <1>0. /\ Capacity \in Nat \ {0} /\ Subscribed \subseteq Players
        /\ \A pl \in Players : queue[pl] \in Seq(Event) /\ Len(queue[pl]) \in 0..Capacity
        /\ \A pl \in Players : lost[pl] \subseteq EntityId
    BY SyncAssumption DEF ChannelOK, Subscribed
  <1>1. ASSUME NEW pl \in Players \ Subscribed
        PROVE  queue'[pl] = queue[pl] /\ lost'[pl] = lost[pl]
    BY DEF Broadcast
  <1>2. ASSUME NEW pl \in Subscribed
        PROVE  /\ Hears(pl, ev) /\ queue'[pl] \in Seq(Event) /\ Len(queue'[pl]) <= Capacity
               /\ lost'[pl] \subseteq EntityId
    <2>1. CASE Drops(pl)
      <3>1. queue[pl] # <<>> /\ Len(queue[pl]) >= 1
        BY <1>0, <2>1 DEF Drops
      <3>2. queue'[pl] = Append(Tail(queue[pl]), ev)
        BY <1>0, <2>1 DEF Broadcast
      <3>3. lost'[pl] = lost[pl] \cup {queue[pl][1].id}
        BY <1>0, <2>1 DEF Broadcast
      <3>4. queue[pl][1] \in Event
        BY <1>0, <3>1
      <3>5. queue[pl][1].id \in EntityId
        BY <3>4 DEF Event
      <3>6. Slides(pl, 1)
        BY <1>0, <3>1, <3>2 DEF Slides
      <3>7. Len(queue'[pl]) = Len(queue[pl]) /\ queue'[pl][Len(queue'[pl])] = ev
        BY <1>0, <3>1, <3>2
      <3> QED
        BY <1>0, <3>1, <3>2, <3>3, <3>5, <3>6, <3>7 DEF Hears
    <2>2. CASE ~Drops(pl)
      <3>1. queue'[pl] = Append(queue[pl], ev) /\ lost'[pl] = lost[pl]
        BY <1>0, <2>2 DEF Broadcast
      <3>2. Len(queue[pl]) + 1 <= Capacity
        BY <1>0, <2>2 DEF Drops
      <3>3. Slides(pl, 0)
        BY <1>0, <3>1 DEF Slides
      <3> QED
        BY <1>0, <3>1, <3>2, <3>3 DEF Hears
    <2> QED
      BY <2>1, <2>2
  <1>3. lagged' \in [Players -> BOOLEAN]
    BY DEF Broadcast, ChannelOK
  <1>4. /\ queue' = [pl \in Players |-> queue'[pl]] /\ lost' = [pl \in Players |-> lost'[pl]]
    BY DEF Broadcast
  <1>5. \A pl \in Players : queue'[pl] \in Seq(Event) /\ Len(queue'[pl]) <= Capacity
                              /\ lost'[pl] \subseteq EntityId
    BY <1>0, <1>1, <1>2
  <1> QED
    BY <1>1, <1>2, <1>3, <1>4, <1>5

-----------------------------------------------------------------------------
(* Type correctness                                                        *)

LEMMA EventTypes ==
    \A id \in EntityId, at \in Positions :
        SpawnOf(id, at) \in Event /\ MoveOf(id, at) \in Event /\ DespawnOf(id) \in Event
  BY SyncAssumption DEF SpawnOf, MoveOf, DespawnOf, Event

LEMMA IssuedGrows ==
    ASSUME SessionOK, joins' = joins \/ joins' = joins + 1
    PROVE  Issued \subseteq Issued'
  BY SyncAssumption DEF SessionOK, Issued

(* An update that keeps the number of the join.                            *)
LEMMA SessionStep ==
    ASSUME SessionOK, NEW pl \in Players, NEW s \in SessionType, Update(pl, s),
           s.join = session[pl].join, session[pl].stage # "away" \/ s.stage = "away",
           position' \in [Players -> Positions], told' \in [Players -> Positions],
           mob' = mob, joins' = joins, moves' = moves
    PROVE  SessionOK'
  <1>1. /\ session' \in [Players -> SessionType] /\ session'[pl] = s
        /\ \A q \in Players \ {pl} : session'[q] = session[q]
    BY Updated DEF SessionOK
  <1>2. \A q \in Registered' : session'[q].join \in 1..joins'
    BY <1>1 DEF SessionOK, Registered
  <1> QED
    BY <1>1, <1>2 DEF SessionOK, Issued

LEMMA BroadcastStep ==
    ASSUME SessionOK, ChannelOK, NEW ev \in Event, Broadcast(ev), ev.id \in Issued',
           joins' = joins \/ joins' = joins + 1, joins' \in 0..MaxJoins
    PROVE  ChannelOK'
  <1>1. Issued \subseteq Issued' /\ Subscribed \subseteq Players
    BY IssuedGrows DEF Subscribed
  <1>2. ev.id \in EntityId
    BY DEF Event
  <1>3. /\ \A pl \in Players \ Subscribed : queue'[pl] = queue[pl]
        /\ \A pl \in Subscribed : Hears(pl, ev)
        /\ queue' \in [Players -> Seq(Event)]
        /\ \A pl \in Players : Len(queue'[pl]) <= Capacity
        /\ lagged' \in [Players -> BOOLEAN]
        /\ lost' \in [Players -> SUBSET EntityId]
    BY <1>2, Sent
  <1>4. ASSUME NEW pl \in Players, NEW i \in 1..Len(queue'[pl])
        PROVE  queue'[pl][i].id \in Issued'
    <2>1. CASE pl \notin Subscribed
      BY <1>1, <1>3, <2>1 DEF ChannelOK
    <2>2. CASE pl \in Subscribed
      <3>1. PICK k \in {0, 1} :
              /\ Slides(pl, k) /\ Len(queue'[pl]) = Len(queue[pl]) - k + 1
              /\ queue'[pl][Len(queue'[pl])] = ev
        BY <1>3, <2>2 DEF Hears
      <3>2. Len(queue[pl]) \in Nat /\ Len(queue'[pl]) \in Nat
        BY <1>3 DEF ChannelOK
      <3>3. CASE i = Len(queue'[pl])
        BY <3>1, <3>3
      <3>4. CASE i < Len(queue'[pl])
        <4>1. i \in 1..(Len(queue[pl]) - k) /\ i + k \in 1..Len(queue[pl])
          BY <3>1, <3>2, <3>4 DEF Slides
        <4>2. queue'[pl][i] = queue[pl][i + k]
          BY <3>1, <4>1 DEF Slides
        <4> QED
          BY <1>1, <4>1, <4>2 DEF ChannelOK
      <3> QED
        BY <3>2, <3>3, <3>4
    <2> QED
      BY <2>1, <2>2
  <1> QED
    BY <1>3, <1>4 DEF ChannelOK

LEMMA ChannelKept ==
    ASSUME SessionOK, ChannelOK, queue' = queue, lost' = lost,
           lagged' \in [Players -> BOOLEAN], joins' = joins \/ joins' = joins + 1
    PROVE  ChannelOK'
  BY IssuedGrows DEF ChannelOK

LEMMA ClientKept ==
    ASSUME SessionOK, ClientOK, UNCHANGED client_vars, joins' = joins \/ joins' = joins + 1
    PROVE  ClientOK'
  BY IssuedGrows DEF ClientOK, client_vars

(* The actions, one by one.                                                *)

LEMMA RegisterType ==
    ASSUME TypeInv, NEW pl \in Players, Register(pl)
    PROVE  /\ TypeInv' /\ Id(pl)' = <<pl, joins + 1>>
           /\ session'[pl].stage = "joining"
           /\ \A q \in Players \ {pl} : session'[q] = session[q]
  <1> DEFINE s == [session[pl] EXCEPT !.stage = "joining", !.join = joins + 1]
  <1>1. joins' = joins + 1 /\ joins + 1 \in 1..MaxJoins /\ joins + 1 \in 0..MaxJoins
    BY SyncAssumption DEF Register, TypeInv, SessionOK
  <1>2. session[pl] \in SessionType /\ session \in [Players -> SessionType]
    BY SessionFields DEF TypeInv, SessionOK
  <1>3. s \in SessionType /\ s.join = joins + 1 /\ s.stage = "joining"
    BY <1>1, <1>2 DEF SessionType, Stages
  <1>4. Update(pl, s)
    BY DEF Register
  <1> HIDE DEF s
  <1>5. /\ session' \in [Players -> SessionType] /\ session'[pl] = s
        /\ \A q \in Players \ {pl} : session'[q] = session[q]
    BY <1>2, <1>3, <1>4, Updated
  <1>6. \A q \in Registered' : session'[q].join \in 1..joins'
    BY <1>1, <1>3, <1>5 DEF TypeInv, SessionOK, Registered
  <1>7. SessionOK'
    <2>1. position' \in [Players -> Positions]
      BY DEF Register, TypeInv, SessionOK
    <2>2. mob' \subseteq Issued'
      BY <1>1, IssuedGrows DEF Register, TypeInv, SessionOK
    <2> QED
      BY <1>1, <1>5, <1>6, <2>1, <2>2 DEF Register, TypeInv, SessionOK
  <1>8. ChannelOK' /\ ClientOK'
    BY <1>1, ChannelKept, ClientKept DEF Register, TypeInv, channel_vars, ChannelOK
  <1> QED
    BY <1>1, <1>3, <1>5, <1>7, <1>8 DEF TypeInv, Id

LEMMA SendChunkMobType ==
    ASSUME TypeInv, IdleKnowsNothing, NEW pl \in Players, NEW m \in Mobs, NEW p \in Positions,
           SendChunkMob(pl, m, p)
    PROVE  TypeInv'
  <1> DEFINE id == <<m, joins + 1>>
  <1>1. joins' = joins + 1 /\ joins + 1 \in 1..MaxJoins
    BY SyncAssumption DEF SendChunkMob, TypeInv, SessionOK
  <1>2. id \in EntityId /\ id \in Issued' /\ Owner(id) \in Mobs
    BY <1>1 DEF EntityId, Issued, Owner
  <1>3. /\ mob' = mob \cup {id} /\ UNCHANGED <<session, position, known, channel_vars, told, moves>>
        /\ shown' = [shown EXCEPT ![pl] = Displaying(shown[pl], id, p)]
        /\ session[pl].stage = "joining"
    BY DEF SendChunkMob
  <1> HIDE DEF id
  <1>4. SessionOK'
    <2>1. \A q \in Registered' : session'[q].join \in 1..joins'
      BY <1>1, <1>3 DEF TypeInv, SessionOK, Registered
    <2>2. mob' \subseteq Issued' /\ \A i \in mob' : Owner(i) \in Mobs
      BY <1>1, <1>2, <1>3, IssuedGrows DEF TypeInv, SessionOK
    <2> QED
      BY <1>1, <1>3, <2>1, <2>2 DEF TypeInv, SessionOK
  <1>5. ChannelOK'
    BY <1>1, <1>3, ChannelKept DEF TypeInv, channel_vars, ChannelOK
  <1>6. ClientOK'
    <2>1. /\ Displaying(shown[pl], id, p) \in Displays
          /\ DOMAIN Displaying(shown[pl], id, p) = DOMAIN shown[pl] \cup {id}
      BY <1>2, DisplayingType DEF TypeInv, ClientOK
    <2>2. \A q \in Players : DOMAIN shown[q] \subseteq DOMAIN shown'[q]
      BY <1>3, <2>1 DEF TypeInv, ClientOK
    <2>3. shown' \in [Players -> Displays]
      BY <1>3, <2>1 DEF TypeInv, ClientOK
    <2>4. known' = known /\ known' \in [Players -> SUBSET Issued']
      BY <1>1, <1>3, IssuedGrows DEF TypeInv, ClientOK
    <2>5. \A q \in Players : known'[q] \subseteq DOMAIN shown'[q]
      BY <2>2, <2>4 DEF TypeInv, ClientOK
    <2> QED
      BY <2>3, <2>4, <2>5 DEF TypeInv, ClientOK
  <1> QED
    BY <1>4, <1>5, <1>6 DEF TypeInv

(* A change of stage that leaves the channel and the clients alone, or     *)
(* broadcasts an event of the player.                                      *)
LEMMA StageType ==
    ASSUME SessionOK, NEW pl \in Players, NEW st \in Stages, ToStage(pl, st),
           session[pl].stage # "away" \/ st = "away",
           position' \in [Players -> Positions], told' \in [Players -> Positions],
           mob' = mob, joins' = joins, moves' = moves
    PROVE  /\ SessionOK' /\ session'[pl].stage = st
           /\ session'[pl].join = session[pl].join /\ session'[pl].todo = session[pl].todo
           /\ \A q \in Players \ {pl} : session'[q] = session[q]
           /\ \A q \in Players : Id(q)' = Id(q)
  <1> DEFINE s == [session[pl] EXCEPT !.stage = st]
  <1>1. session \in [Players -> SessionType] /\ session[pl] \in SessionType
    BY SessionFields DEF SessionOK
  <1>2. /\ s \in SessionType /\ s.stage = st /\ s.join = session[pl].join
        /\ s.todo = session[pl].todo
    BY <1>1 DEF SessionType
  <1>3. Update(pl, s)
    BY DEF ToStage
  <1> HIDE DEF s
  <1>4. SessionOK'
    BY <1>2, <1>3, SessionStep
  <1>5. session'[pl] = s /\ \A q \in Players \ {pl} : session'[q] = session[q]
    BY <1>1, <1>3, Updated
  <1> QED
    BY <1>2, <1>4, <1>5 DEF Id

LEMMA BreakJoinType ==
    ASSUME TypeInv, IdleKnowsNothing, NEW pl \in Players, BreakJoin(pl)
    PROVE  TypeInv'
  <1>1. SessionOK'
    BY StageType DEF BreakJoin, TypeInv, SessionOK, channel_vars, bounds, Stages
  <1>2. ChannelOK'
    BY ChannelKept DEF BreakJoin, TypeInv, ChannelOK, channel_vars, bounds
  <1>3. known[pl] = {}
    BY DEF BreakJoin, IdleKnowsNothing, Subscribed
  <1>4. ClientOK'
    BY <1>3, NoEntitiesType DEF BreakJoin, TypeInv, ClientOK, bounds, Issued
  <1> QED
    BY <1>1, <1>2, <1>4 DEF TypeInv

LEMMA AnnounceType ==
    ASSUME TypeInv, NEW pl \in Players, Announce(pl) \/ AnnounceLeave(pl)
    PROVE  TypeInv'
  <1>1. Id(pl) \in Issued /\ Issued \subseteq EntityId /\ Origin \in Positions
    BY IssuedType, SyncAssumption DEF Announce, AnnounceLeave, TypeInv, Registered
  <1>2. SessionOK'
    BY <1>1, StageType DEF Announce, AnnounceLeave, TypeInv, SessionOK, bounds, Stages
  <1>3. ChannelOK'
    <2>1. PICK ev \in Event : Broadcast(ev) /\ ev.id = Id(pl)
      BY <1>1, EventTypes DEF Announce, AnnounceLeave, SpawnOf, DespawnOf
    <2> QED
      BY <1>1, <2>1, BroadcastStep DEF Announce, AnnounceLeave, TypeInv, SessionOK, bounds, Issued
  <1>4. ClientOK'
    BY ClientKept DEF Announce, AnnounceLeave, TypeInv, bounds
  <1> QED
    BY <1>2, <1>3, <1>4 DEF TypeInv

(* Updates of a session by its own task, which keep the number of the join *)
(* and leave the channel and the clients alone.                            *)
LEMMA OwnUpdateType ==
    ASSUME TypeInv, NEW pl \in Players,
           \/ ListOthers(pl) \/ Subscribe(pl) \/ BeginDrain(pl) \/ EndDrain(pl)
    PROVE  /\ TypeInv' /\ session'[pl].join = session[pl].join
           /\ session'[pl].stage \in {"listing", "playing", "draining"}
           /\ session[pl].stage \in {"announced", "listing", "playing", "draining"}
           /\ session[pl].stage = "draining" => session'[pl].stage = "playing"
           /\ session[pl].stage = "playing" => session'[pl].stage = "draining"
           /\ \A q \in Players \ {pl} : session'[q] = session[q]
           /\ UNCHANGED <<position, mob, client_vars, queue, lost, told, bounds>>
  <1>1. session[pl] \in SessionType /\ session \in [Players -> SessionType]
    BY SessionFields DEF TypeInv, SessionOK
  <1>2. position[pl] \in Positions /\ Origin \in Positions
    BY SyncAssumption DEF TypeInv, SessionOK
  <1>3. \E s \in SessionType :
            /\ Update(pl, s) /\ s.join = session[pl].join
            /\ s.stage \in {"listing", "playing", "draining"}
            /\ session[pl].stage = "draining" => s.stage = "playing"
            /\ session[pl].stage = "playing" => s.stage = "draining"
    <2>1. CASE ListOthers(pl)
      <3> DEFINE ids == {Id(o) : o \in Registered \ {pl}}
                 todo == [id \in ids |-> position[Owner(id)]]
                 s == [session[pl] EXCEPT !.stage = "listing", !.todo = todo]
      <3>1. ids \subseteq EntityId
        BY IssuedType DEF TypeInv
      <3>2. \A id \in ids : position[Owner(id)] \in Positions
        BY IssuedType DEF TypeInv, SessionOK, Registered
      <3>3. todo \in [ids -> Positions]
        BY <3>2
      <3>4. todo \in Displays
        <4> HIDE DEF ids, todo
        <4> QED
          BY <3>1, <3>3, DisplayType
      <3>5. Update(pl, s)
        BY <2>1 DEF ListOthers
      <3> HIDE DEF todo
      <3>6. s \in SessionType /\ s.join = session[pl].join /\ s.stage = "listing"
        BY <1>1, <3>4 DEF SessionType, Stages
      <3> HIDE DEF s
      <3> QED
        BY <2>1, <3>5, <3>6 DEF ListOthers
    <2>2. CASE Subscribe(pl)
      <3> DEFINE s == [session[pl] EXCEPT !.stage = "playing"]
      <3>1. s \in SessionType /\ s.join = session[pl].join /\ s.stage = "playing"
        BY <1>1 DEF SessionType, Stages
      <3>2. Update(pl, s) /\ session[pl].stage = "listing"
        BY <2>2 DEF Subscribe, ToStage
      <3> HIDE DEF s
      <3> QED
        BY <3>1, <3>2
    <2>3. CASE BeginDrain(pl)
      <3> DEFINE s == [session[pl] EXCEPT !.stage = "draining", !.me = position[pl]]
      <3>1. s \in SessionType /\ s.join = session[pl].join /\ s.stage = "draining"
        BY <1>1, <1>2 DEF SessionType, Stages
      <3>2. Update(pl, s) /\ session[pl].stage = "playing"
        BY <2>3 DEF BeginDrain
      <3> HIDE DEF s
      <3> QED
        BY <3>1, <3>2
    <2>4. CASE EndDrain(pl)
      <3> DEFINE s == [session[pl] EXCEPT !.stage = "playing", !.me = Origin]
      <3>1. s \in SessionType /\ s.join = session[pl].join /\ s.stage = "playing"
        BY <1>1, <1>2 DEF SessionType, Stages
      <3>2. Update(pl, s) /\ session[pl].stage = "draining"
        BY <2>4 DEF EndDrain
      <3> HIDE DEF s
      <3> QED
        BY <3>1, <3>2
    <2> QED
      BY <2>1, <2>2, <2>3, <2>4
  <1>4. PICK s \in SessionType :
            /\ Update(pl, s) /\ s.join = session[pl].join
            /\ s.stage \in {"listing", "playing", "draining"}
            /\ session[pl].stage = "draining" => s.stage = "playing"
            /\ session[pl].stage = "playing" => s.stage = "draining"
    BY <1>3
  <1>5. /\ UNCHANGED <<position, mob, client_vars, queue, lost, told, bounds>>
        /\ lagged' \in [Players -> BOOLEAN]
        /\ session[pl].stage \in {"announced", "listing", "playing", "draining"}
    BY DEF ListOthers, Subscribe, BeginDrain, EndDrain, channel_vars, TypeInv, ChannelOK
  <1>6. SessionOK'
    BY <1>4, <1>5, SessionStep DEF bounds, TypeInv, SessionOK
  <1>7. ChannelOK' /\ ClientOK'
    BY <1>5, ChannelKept, ClientKept DEF TypeInv, bounds
  <1> QED
    BY <1>1, <1>4, <1>5, <1>6, <1>7, Updated DEF TypeInv

LEMMA SendExistingType ==
    ASSUME TypeInv, IdleKnowsNothing, NEW pl \in Players, NEW id, SendExisting(pl, id)
    PROVE  /\ TypeInv' /\ session'[pl].join = session[pl].join
           /\ session[pl].stage = "listing" /\ session'[pl].stage = "listing"
           /\ \A q \in Players \ {pl} : session'[q] = session[q] /\ shown'[q] = shown[q]
           /\ UNCHANGED <<position, mob, known, channel_vars, told, bounds>>
  <1> DEFINE s == [session[pl] EXCEPT !.todo = Without(@, id)]
             at == session[pl].todo[id]
  <1>1. session[pl] \in SessionType /\ session \in [Players -> SessionType]
    BY SessionFields DEF TypeInv, SessionOK
  <1>2. id \in DOMAIN session[pl].todo /\ session[pl].todo \in Displays
    BY <1>1, SessionFields DEF SendExisting
  <1>3. id \in EntityId /\ at \in Positions
    BY <1>2, DisplayType
  <1>4. Without(session[pl].todo, id) \in Displays
    BY <1>2, WithoutType
  <1>5. s \in SessionType /\ s.join = session[pl].join /\ s.stage = session[pl].stage
    BY <1>1, <1>4 DEF SessionType
  <1>6. /\ Update(pl, s) /\ session[pl].stage = "listing"
        /\ shown' = [shown EXCEPT ![pl] = Displaying(shown[pl], id, at)]
        /\ UNCHANGED <<position, mob, known, channel_vars, told, bounds>>
    BY DEF SendExisting
  <1> HIDE DEF s, at
  <1>7. SessionOK'
    BY <1>5, <1>6, SessionStep DEF bounds, TypeInv, SessionOK
  <1>8. ChannelOK'
    BY <1>6, ChannelKept DEF TypeInv, bounds, channel_vars, ChannelOK
  <1>9. ClientOK'
    <2>1. Displaying(shown[pl], id, at) \in Displays
      BY <1>3, DisplayingType DEF TypeInv, ClientOK
    <2>2. known[pl] = {}
      BY <1>6 DEF IdleKnowsNothing, Subscribed
    <2> QED
      BY <1>6, <2>1, <2>2 DEF TypeInv, ClientOK, bounds, Issued
  <1> QED
    BY <1>1, <1>5, <1>6, <1>7, <1>8, <1>9, Updated DEF TypeInv, ClientOK

(* What one event does to the client that receives it.                     *)
LEMMA Received ==
    ASSUME TypeInv, NEW pl \in Players, Receive(pl)
    PROVE  /\ TypeInv'
           /\ Slides(pl, 1) /\ Len(queue'[pl]) = Len(queue[pl]) - 1 /\ 1 \in 1..Len(queue[pl])
           /\ \A q \in Players \ {pl} :
                 queue'[q] = queue[q] /\ known'[q] = known[q] /\ shown'[q] = shown[q]
           /\ known'[pl] \ {queue[pl][1].id} = known[pl] \ {queue[pl][1].id}
           /\ \A id \in known'[pl] \ {queue[pl][1].id} : shown'[pl][id] = shown[pl][id]
           /\ queue[pl][1].id \in known'[pl] \ known[pl] => queue[pl][1].kind = "spawn"
           /\ queue[pl][1].id \in known'[pl] /\ queue[pl][1].kind = "spawn"
                /\ queue[pl][1].id \notin known[pl] => shown'[pl][queue[pl][1].id] = queue[pl][1].at
           /\ queue[pl][1].id \in known'[pl] /\ queue[pl][1].kind # "spawn"
                => queue[pl][1].kind # "despawn" /\ shown'[pl][queue[pl][1].id] = queue[pl][1].at
           /\ UNCHANGED <<session, position, mob, lagged, lost, told, bounds>>
  <1> DEFINE ev == queue[pl][1]
  <1>1. /\ queue[pl] \in Seq(Event) /\ queue[pl] # <<>> /\ queue' = [queue EXCEPT ![pl] = Tail(@)]
        /\ Head(queue[pl]) = ev
        /\ UNCHANGED <<session, position, mob, lagged, lost, told, bounds>>
    BY DEF Receive, TypeInv, ChannelOK
  <1>2. ev \in Event /\ ev.id \in EntityId /\ ev.at \in Positions /\ 1 \in 1..Len(queue[pl])
        /\ ev.id \in Issued /\ ev.kind \in {"spawn", "move", "despawn"}
    <2>1. 1 \in 1..Len(queue[pl]) /\ ev \in Event
      BY <1>1
    <2>2. ev.id \in Issued
      BY <2>1 DEF TypeInv, ChannelOK
    <2> HIDE DEF ev
    <2> QED
      BY <2>1, <2>2 DEF Event
  <1>3. /\ Slides(pl, 1) /\ Len(queue'[pl]) = Len(queue[pl]) - 1
        /\ queue'[pl] \in Seq(Event)
        /\ \A q \in Players \ {pl} : queue'[q] = queue[q]
    <2>1. queue'[pl] = Tail(queue[pl]) /\ \A q \in Players \ {pl} : queue'[q] = queue[q]
      BY <1>1 DEF TypeInv, ChannelOK
    <2>2. Len(Tail(queue[pl])) = Len(queue[pl]) - 1 /\ Tail(queue[pl]) \in Seq(Event)
      BY <1>1
    <2>3. \A i \in 1..(Len(queue[pl]) - 1) : Tail(queue[pl])[i] = queue[pl][i + 1]
      BY <1>1
    <2>4. Len(queue[pl]) \in Nat /\ Len(queue[pl]) >= 1
      BY <1>1
    <2> QED
      BY <2>1, <2>2, <2>3, <2>4 DEF Slides
  <1>4. SessionOK' /\ ChannelOK'
    <2>1. \A i \in 1..Len(queue'[pl]) : queue'[pl][i].id \in Issued
      <3> SUFFICES ASSUME NEW i \in 1..Len(queue'[pl])
                   PROVE  queue'[pl][i].id \in Issued
        OBVIOUS
      <3>1. i \in 1..(Len(queue[pl]) - 1) /\ i + 1 \in 1..Len(queue[pl])
        BY <1>1, <1>3
      <3> QED
        BY <1>3, <3>1 DEF Slides, TypeInv, ChannelOK
    <2>2. Len(queue'[pl]) <= Capacity
      BY <1>1, <1>3, SyncAssumption DEF TypeInv, ChannelOK
    <2>3. queue' \in [Players -> Seq(Event)]
      BY <1>1, <1>3 DEF TypeInv, ChannelOK
    <2> QED
      BY <1>1, <1>3, <2>1, <2>2, <2>3
      DEF TypeInv, SessionOK, ChannelOK, bounds, Issued, Registered
  <1>5. Ignores(pl, ev) \/ (Owner(ev.id) # pl /\ (Appears(pl, ev) \/ Follows(pl, ev) \/ Removes(pl, ev)))
    BY <1>1 DEF Receive
  <1> HIDE DEF ev
  <1>6. /\ \A q \in Players \ {pl} : known'[q] = known[q] /\ shown'[q] = shown[q]
        /\ known' \in [Players -> SUBSET Issued] /\ shown' \in [Players -> Displays]
        /\ known'[pl] \subseteq DOMAIN shown'[pl]
        /\ \A id \in known'[pl] : Owner(id) # pl
        /\ known'[pl] \ {ev.id} = known[pl] \ {ev.id}
        /\ \A id \in known'[pl] \ {ev.id} : shown'[pl][id] = shown[pl][id]
        /\ ev.id \in known'[pl] \ known[pl] => ev.kind = "spawn"
        /\ ev.id \in known'[pl] /\ ev.kind = "spawn" /\ ev.id \notin known[pl]
                => shown'[pl][ev.id] = ev.at
        /\ ev.id \in known'[pl] /\ ev.kind # "spawn"
                => ev.kind # "despawn" /\ shown'[pl][ev.id] = ev.at
    <2>0. /\ shown \in [Players -> Displays] /\ known \in [Players -> SUBSET Issued]
          /\ known[pl] \subseteq DOMAIN shown[pl] /\ \A id \in known[pl] : Owner(id) # pl
      BY DEF TypeInv, ClientOK
    <2>1. CASE Ignores(pl, ev)
      <3>1. UNCHANGED <<known, shown>>
        BY <2>1 DEF Ignores
      <3>2. ev.id \notin known[pl] \/ ev.kind = "spawn"
        BY <2>0, <2>1 DEF Ignores
      <3> QED
        BY <2>0, <3>1, <3>2
    <2>2. CASE Owner(ev.id) # pl /\ Appears(pl, ev)
      <3>1. /\ ev.kind = "spawn" /\ ev.id \notin known[pl]
            /\ shown' = [shown EXCEPT ![pl] = Displaying(shown[pl], ev.id, ev.at)]
            /\ known' = [known EXCEPT ![pl] = @ \cup {ev.id}]
        BY <2>2 DEF Appears
      <3>2. /\ Displaying(shown[pl], ev.id, ev.at) \in Displays
            /\ DOMAIN Displaying(shown[pl], ev.id, ev.at) = DOMAIN shown[pl] \cup {ev.id}
            /\ Displaying(shown[pl], ev.id, ev.at)[ev.id] = ev.at
            /\ \A i \in DOMAIN shown[pl] \ {ev.id} :
                 Displaying(shown[pl], ev.id, ev.at)[i] = shown[pl][i]
        <4>1. shown[pl] \in Displays
          BY <2>0
        <4>2. ev.id \in EntityId /\ ev.at \in Positions
          BY <1>2
        <4>3. \A f \in Displays, id \in EntityId, at \in Positions :
                /\ Displaying(f, id, at) \in Displays
                /\ DOMAIN Displaying(f, id, at) = DOMAIN f \cup {id}
                /\ Displaying(f, id, at)[id] = at
                /\ \A i \in DOMAIN f \ {id} : Displaying(f, id, at)[i] = f[i]
          BY DisplayingType
        <4> QED
          BY <4>1, <4>2, <4>3, ZenonT(60)
      <3>3. /\ known'[pl] = known[pl] \cup {ev.id} /\ known' \in [Players -> SUBSET Issued]
            /\ \A q \in Players \ {pl} : known'[q] = known[q] /\ shown'[q] = shown[q]
            /\ shown'[pl] = Displaying(shown[pl], ev.id, ev.at)
            /\ shown' \in [Players -> Displays]
        BY <1>2, <2>0, <3>1, <3>2
      <3> QED
        BY <2>0, <2>2, <3>1, <3>2, <3>3
    <2>3. CASE Follows(pl, ev)
      <3>1. /\ ev.kind = "move" /\ ev.id \in known[pl] /\ known' = known
            /\ shown' = [shown EXCEPT ![pl][ev.id] = ev.at]
        BY <2>3 DEF Follows
      <3>2. DOMAIN shown[pl] \subseteq EntityId /\ shown[pl] \in [DOMAIN shown[pl] -> Positions]
        BY <2>0, DisplayType
      <3>3. /\ shown'[pl] = [shown[pl] EXCEPT ![ev.id] = ev.at]
            /\ \A q \in Players \ {pl} : shown'[q] = shown[q]
        BY <2>0, <3>1
      <3>4. shown'[pl] \in [DOMAIN shown[pl] -> Positions]
        BY <1>2, <3>2, <3>3
      <3>5. shown'[pl] \in Displays
        BY <3>2, <3>4, DisplayType
      <3>6. shown' \in [Players -> Displays]
        BY <2>0, <3>1, <3>3, <3>5
      <3> QED
        BY <2>0, <3>1, <3>2, <3>3, <3>6
    <2>4. CASE Removes(pl, ev)
      <3>1. /\ known' = [known EXCEPT ![pl] = @ \ {ev.id}]
            /\ shown' = [shown EXCEPT ![pl] = Without(@, ev.id)]
        BY <2>4 DEF Removes
      <3>2. /\ Without(shown[pl], ev.id) \in Displays
            /\ DOMAIN Without(shown[pl], ev.id) = DOMAIN shown[pl] \ {ev.id}
            /\ \A i \in DOMAIN shown[pl] \ {ev.id} : Without(shown[pl], ev.id)[i] = shown[pl][i]
        BY <2>0, WithoutType
      <3>3. /\ known'[pl] = known[pl] \ {ev.id} /\ known' \in [Players -> SUBSET Issued]
            /\ \A q \in Players \ {pl} : known'[q] = known[q] /\ shown'[q] = shown[q]
            /\ shown'[pl] = Without(shown[pl], ev.id)
            /\ shown' \in [Players -> Displays]
        BY <2>0, <3>1, <3>2
      <3> QED
        BY <2>0, <3>2, <3>3
    <2> QED
      BY <1>5, <2>1, <2>2, <2>3, <2>4
  <1>7. ClientOK'
    BY <1>1, <1>6 DEF ClientOK, TypeInv, bounds, Issued
  <1> QED
    BY <1>1, <1>2, <1>3, <1>4, <1>6, <1>7 DEF TypeInv, ev

LEMMA WalkType ==
    ASSUME TypeInv, NEW pl \in Players, NEW p \in Positions, Walk(pl, p)
    PROVE  TypeInv'
  <1>1. /\ moves' \in 0..MaxMoves /\ position' \in [Players -> Positions]
        /\ told' \in [Players -> Positions] /\ UNCHANGED <<session, mob, client_vars, joins>>
    BY SyncAssumption DEF Walk, TypeInv, SessionOK
  <1>2. SessionOK'
    BY <1>1 DEF TypeInv, SessionOK, Registered, Issued
  <1>3. Id(pl) \in Issued /\ Issued \subseteq EntityId
    BY IssuedType DEF Walk, TypeInv, Registered
  <1>4. ChannelOK'
    <2>1. MoveOf(Id(pl), p) \in Event /\ MoveOf(Id(pl), p).id = Id(pl)
      BY <1>3, EventTypes DEF MoveOf
    <2>2. Broadcast(MoveOf(Id(pl), p))
      BY DEF Walk
    <2> QED
      BY <1>1, <1>3, <2>1, <2>2, BroadcastStep DEF TypeInv, SessionOK, Issued
  <1>5. ClientOK'
    BY <1>1, ClientKept DEF TypeInv
  <1> QED
    BY <1>2, <1>4, <1>5 DEF TypeInv

LEMMA RepositionType ==
    ASSUME TypeInv, NEW pl \in Players, NEW p \in Positions, Reposition(pl, p)
    PROVE  TypeInv'
  <1>1. moves' \in 0..MaxMoves /\ position' \in [Players -> Positions]
    BY SyncAssumption DEF Reposition, TypeInv, SessionOK
  <1>2. SessionOK'
    BY <1>1 DEF Reposition, TypeInv, SessionOK, Registered, Issued
  <1>3. ChannelOK' /\ ClientOK'
    BY ChannelKept, ClientKept DEF Reposition, TypeInv, ChannelOK, channel_vars
  <1> QED
    BY <1>2, <1>3 DEF TypeInv

LEMMA DisconnectType ==
    ASSUME TypeInv, NEW pl \in Players, Disconnect(pl)
    PROVE  TypeInv'
  <1>1. SessionOK'
    BY StageType DEF Disconnect, TypeInv, SessionOK, bounds, Stages
  <1>2. ChannelOK'
    <2>1. <<>> \in Seq(Event) /\ Len(<<>>) = 0 /\ Len(<<>>) <= Capacity
      BY SyncAssumption
    <2> QED
      BY <2>1 DEF Disconnect, TypeInv, ChannelOK, bounds, Issued
  <1>3. ClientOK'
    BY NoEntitiesType DEF Disconnect, TypeInv, ClientOK, bounds, Issued
  <1> QED
    BY <1>1, <1>2, <1>3 DEF TypeInv

LEMMA RemoveType ==
    ASSUME TypeInv, NEW pl \in Players, Remove(pl)
    PROVE  TypeInv'
  <1>1. position' \in [Players -> Positions] /\ told' \in [Players -> Positions]
    BY SyncAssumption DEF Remove, TypeInv, SessionOK
  <1>2. SessionOK'
    BY <1>1, StageType DEF Remove, TypeInv, bounds, Stages
  <1>3. ChannelOK' /\ ClientOK'
    BY ChannelKept, ClientKept DEF Remove, TypeInv, ChannelOK, channel_vars, bounds
  <1> QED
    BY <1>2, <1>3 DEF TypeInv

LEMMA SpawnMobType ==
    ASSUME TypeInv, NEW m \in Mobs, NEW p \in Positions, SpawnMob(m, p)
    PROVE  TypeInv'
  <1> DEFINE id == <<m, joins + 1>>
  <1>1. joins' = joins + 1 /\ joins + 1 \in 1..MaxJoins /\ joins' \in 0..MaxJoins
    BY SyncAssumption DEF SpawnMob, TypeInv, SessionOK
  <1>2. id \in EntityId /\ id \in Issued' /\ Owner(id) \in Mobs
    BY <1>1 DEF EntityId, Issued, Owner
  <1>3. /\ mob' = mob \cup {id} /\ UNCHANGED <<session, position, client_vars, told, moves>>
        /\ Broadcast(SpawnOf(id, p))
    BY DEF SpawnMob
  <1> HIDE DEF id
  <1>4. SessionOK'
    <2>1. \A q \in Registered' : session'[q].join \in 1..joins'
      BY <1>1, <1>3 DEF TypeInv, SessionOK, Registered
    <2>2. mob' \subseteq Issued' /\ \A i \in mob' : Owner(i) \in Mobs
      BY <1>1, <1>2, <1>3, IssuedGrows DEF TypeInv, SessionOK
    <2> QED
      BY <1>1, <1>3, <2>1, <2>2 DEF TypeInv, SessionOK
  <1>5. ChannelOK'
    <2>1. SpawnOf(id, p) \in Event /\ SpawnOf(id, p).id = id
      BY <1>2, EventTypes DEF SpawnOf
    <2> QED
      BY <1>1, <1>2, <1>3, <2>1, BroadcastStep DEF TypeInv
  <1>6. ClientOK'
    BY <1>1, <1>3, ClientKept DEF TypeInv
  <1> QED
    BY <1>4, <1>5, <1>6 DEF TypeInv

LEMMA DespawnMobType ==
    ASSUME TypeInv, NEW id \in mob, DespawnMob(id)
    PROVE  TypeInv'
  <1>1. id \in Issued /\ id \in EntityId
    BY IssuedType DEF TypeInv, SessionOK
  <1>2. SessionOK'
    BY DEF DespawnMob, TypeInv, SessionOK, bounds, Registered, Issued
  <1>3. ChannelOK'
    <2>1. DespawnOf(id) \in Event /\ DespawnOf(id).id = id
      BY <1>1, EventTypes, SyncAssumption DEF DespawnOf
    <2> QED
      BY <1>1, <2>1, BroadcastStep DEF DespawnMob, TypeInv, SessionOK, bounds, Issued
  <1>4. ClientOK'
    BY ClientKept DEF DespawnMob, TypeInv, bounds
  <1> QED
    BY <1>2, <1>3, <1>4 DEF TypeInv

LEMMA TypeInit == Init => TypeInv /\ IdleKnowsNothing
  <1> SUFFICES ASSUME Init
               PROVE  TypeInv /\ IdleKnowsNothing
    OBVIOUS
  <1>1. /\ Origin \in Positions /\ 0 \in 0..MaxJoins /\ 0 \in 0..MaxMoves
        /\ <<>> \in Seq(Event) /\ Len(<<>>) = 0 /\ 0 <= Capacity
    BY SyncAssumption
  <1>2. SessionOK
    BY <1>1, NoEntitiesType DEF Init, SessionOK, SessionType, Registered, Stages
  <1>3. ChannelOK
    BY <1>1 DEF Init, ChannelOK
  <1>4. ClientOK
    BY NoEntitiesType DEF Init, ClientOK
  <1>5. IdleKnowsNothing
    BY DEF Init, IdleKnowsNothing
  <1> QED
    BY <1>2, <1>3, <1>4, <1>5 DEF TypeInv

LEMMA IdleKept ==
    ASSUME IdleKnowsNothing, \A q \in Players \ Subscribed' :
               /\ q \notin Subscribed
               /\ queue'[q] = queue[q] /\ known'[q] = known[q]
    PROVE  IdleKnowsNothing'
  BY DEF IdleKnowsNothing

LEMMA TypeNext ==
    ASSUME TypeInv, IdleKnowsNothing, Next
    PROVE  TypeInv' /\ IdleKnowsNothing'
  <1>0. session \in [Players -> SessionType]
    BY DEF TypeInv, SessionOK
  <1>a. ASSUME UNCHANGED <<session, known>>, NEW ev \in Event, ev.id \in EntityId, Broadcast(ev)
        PROVE  IdleKnowsNothing'
    BY <1>a, IdleKept, Sent DEF TypeInv, Subscribed
  <1>1. ASSUME NEW pl \in Players, Register(pl)
        PROVE  TypeInv' /\ IdleKnowsNothing'
    <2>1. \A q \in Players : session'[q].stage \in {session[q].stage, "joining"}
      BY <1>1, RegisterType
    <2>2. session[pl].stage = "away" /\ UNCHANGED <<queue, known>>
      BY <1>1 DEF Register, client_vars, channel_vars
    <2>3. Subscribed \subseteq Subscribed'
      BY <1>1, <2>1, <2>2, RegisterType DEF Subscribed
    <2> QED
      BY <1>1, <2>2, <2>3, RegisterType, IdleKept
  <1>2. ASSUME NEW pl \in Players, NEW m \in Mobs, NEW p \in Positions, SendChunkMob(pl, m, p)
        PROVE  TypeInv' /\ IdleKnowsNothing'
    BY <1>2, SendChunkMobType DEF SendChunkMob, channel_vars, IdleKnowsNothing, Subscribed
  <1>3. ASSUME NEW pl \in Players, NEW st \in Stages, ToStage(pl, st)
        PROVE  /\ session'[pl].stage = st
               /\ \A q \in Players \ {pl} : session'[q] = session[q]
    BY <1>0, <1>3 DEF ToStage, Update, SessionType
  <1>4. ASSUME NEW pl \in Players, BreakJoin(pl)
        PROVE  TypeInv' /\ IdleKnowsNothing'
    <2>1. /\ session[pl].stage = "joining" /\ UNCHANGED <<queue, known>>
          /\ \A q \in Players \ {pl} : session'[q] = session[q]
      BY <1>3, <1>4 DEF BreakJoin, channel_vars, Stages
    <2> QED
      BY <1>4, <2>1, BreakJoinType, IdleKept DEF Subscribed
  <1>5. ASSUME NEW pl \in Players, Announce(pl) \/ AnnounceLeave(pl)
        PROVE  TypeInv' /\ IdleKnowsNothing'
    <2>1. /\ session[pl].stage \in {"joining", "returned"} /\ UNCHANGED known
          /\ \A q \in Players \ {pl} : session'[q] = session[q]
      BY <1>3, <1>5 DEF Announce, AnnounceLeave, client_vars, Stages
    <2>2. Id(pl) \in EntityId
      BY <2>1, IssuedType DEF TypeInv, Registered
    <2>3. \E ev \in Event : ev.id \in EntityId /\ Broadcast(ev)
      BY <1>5, <2>2, EventTypes, SyncAssumption DEF Announce, AnnounceLeave, SpawnOf, DespawnOf
    <2>4. \A q \in Players \ Subscribed : queue'[q] = queue[q]
      BY <2>3, Sent DEF TypeInv
    <2> QED
      BY <1>5, <2>1, <2>4, AnnounceType, IdleKept DEF Subscribed
  <1>6. ASSUME NEW pl \in Players,
               ListOthers(pl) \/ Subscribe(pl) \/ BeginDrain(pl) \/ EndDrain(pl)
        PROVE  TypeInv' /\ IdleKnowsNothing'
    <2>1. /\ TypeInv' /\ UNCHANGED <<queue, client_vars>>
          /\ \A q \in Players \ {pl} : session'[q] = session[q]
          /\ session[pl].stage = "draining" => session'[pl].stage = "playing"
          /\ session[pl].stage = "playing" => session'[pl].stage = "draining"
      BY <1>6, OwnUpdateType
    <2>2. Subscribed \subseteq Subscribed'
      BY <2>1 DEF Subscribed
    <2> QED
      BY <2>1, <2>2, IdleKept DEF client_vars
  <1>7. ASSUME NEW pl \in Players, NEW id, SendExisting(pl, id)
        PROVE  TypeInv' /\ IdleKnowsNothing'
    <2>1. /\ TypeInv' /\ session[pl].stage = "listing" /\ session'[pl].stage = "listing"
          /\ \A q \in Players \ {pl} : session'[q] = session[q]
          /\ UNCHANGED <<queue, known>>
      BY <1>7, SendExistingType DEF channel_vars
    <2>2. Subscribed \subseteq Subscribed'
      BY <2>1 DEF Subscribed
    <2> QED
      BY <2>1, <2>2, IdleKept
  <1>8. ASSUME NEW pl \in Players, Receive(pl)
        PROVE  TypeInv' /\ IdleKnowsNothing'
    <2>1. /\ TypeInv' /\ session' = session
          /\ \A q \in Players \ {pl} : queue'[q] = queue[q] /\ known'[q] = known[q]
      BY <1>8, Received
    <2>2. pl \in Subscribed
      BY <1>8 DEF Receive, Subscribed
    <2> QED
      BY <2>1, <2>2, IdleKept DEF Subscribed
  <1>9. ASSUME NEW pl \in Players, NEW p \in Positions, Walk(pl, p)
        PROVE  TypeInv' /\ IdleKnowsNothing'
    <2>1. Id(pl) \in EntityId
      BY <1>9, IssuedType DEF Walk, TypeInv, Registered
    <2>2. MoveOf(Id(pl), p) \in Event /\ MoveOf(Id(pl), p).id \in EntityId
      BY <2>1, EventTypes DEF MoveOf
    <2>3. UNCHANGED <<session, known>> /\ Broadcast(MoveOf(Id(pl), p))
      BY <1>9 DEF Walk, client_vars
    <2> QED
      BY <1>9, <1>a, <2>2, <2>3, WalkType
  <1>10. ASSUME NEW pl \in Players, NEW p \in Positions, Reposition(pl, p)
         PROVE  TypeInv' /\ IdleKnowsNothing'
    BY <1>10, RepositionType DEF Reposition, client_vars, channel_vars, IdleKnowsNothing, Subscribed
  <1>11. ASSUME NEW pl \in Players, Disconnect(pl)
         PROVE  TypeInv' /\ IdleKnowsNothing'
    <2>1. \A q \in Players \ {pl} : session'[q] = session[q]
      BY <1>3, <1>11 DEF Disconnect, Stages
    <2>2. queue' = [queue EXCEPT ![pl] = <<>>] /\ known' = [known EXCEPT ![pl] = {}]
      BY <1>11 DEF Disconnect
    <2>3. queue'[pl] = <<>> /\ known'[pl] = {}
      BY <2>2 DEF TypeInv, ChannelOK, ClientOK
    <2>4. \A q \in Players \ {pl} : queue'[q] = queue[q] /\ known'[q] = known[q]
      BY <2>2 DEF TypeInv, ChannelOK, ClientOK
    <2> QED
      BY <1>11, <2>1, <2>3, <2>4, DisconnectType DEF IdleKnowsNothing, Subscribed
  <1>12. ASSUME NEW pl \in Players, Remove(pl)
         PROVE  TypeInv' /\ IdleKnowsNothing'
    <2>1. /\ session[pl].stage = "leaving" /\ UNCHANGED <<queue, known>>
          /\ \A q \in Players \ {pl} : session'[q] = session[q]
      BY <1>3, <1>12 DEF Remove, client_vars, channel_vars, Stages
    <2> QED
      BY <1>12, <2>1, RemoveType, IdleKept DEF Subscribed
  <1>13. ASSUME NEW m \in Mobs, NEW p \in Positions, SpawnMob(m, p)
         PROVE  TypeInv' /\ IdleKnowsNothing'
    <2>1. joins + 1 \in 1..MaxJoins
      BY <1>13, SyncAssumption DEF SpawnMob, TypeInv, SessionOK
    <2>2. <<m, joins + 1>> \in EntityId
      BY <2>1 DEF EntityId
    <2>3. SpawnOf(<<m, joins + 1>>, p) \in Event /\ SpawnOf(<<m, joins + 1>>, p).id \in EntityId
      BY <2>2, EventTypes DEF SpawnOf
    <2>4. UNCHANGED <<session, known>> /\ Broadcast(SpawnOf(<<m, joins + 1>>, p))
      BY <1>13 DEF SpawnMob, client_vars
    <2> QED
      BY <1>13, <1>a, <2>3, <2>4, SpawnMobType
  <1>14. ASSUME NEW id \in mob, DespawnMob(id)
         PROVE  TypeInv' /\ IdleKnowsNothing'
    <2>1. id \in EntityId
      BY IssuedType DEF TypeInv, SessionOK
    <2>2. DespawnOf(id) \in Event /\ DespawnOf(id).id \in EntityId
      BY <2>1, EventTypes, SyncAssumption DEF DespawnOf
    <2>3. UNCHANGED <<session, known>> /\ Broadcast(DespawnOf(id))
      BY <1>14 DEF DespawnMob, client_vars
    <2> QED
      BY <1>14, <1>a, <2>2, <2>3, DespawnMobType
  <1> QED
    BY <1>1, <1>2, <1>4, <1>5, <1>6, <1>7, <1>8, <1>9, <1>10, <1>11, <1>12, <1>13, <1>14
    DEF Next, Iterate

LEMMA TypeStep == TypeInv /\ IdleKnowsNothing /\ [Next]_vars => TypeInv' /\ IdleKnowsNothing'
  <1> SUFFICES ASSUME TypeInv, IdleKnowsNothing, [Next]_vars
               PROVE  TypeInv' /\ IdleKnowsNothing'
    OBVIOUS
  <1>1. CASE UNCHANGED vars
    BY <1>1 DEF vars, client_vars, channel_vars, bounds, TypeInv, SessionOK, ChannelOK, ClientOK,
                Issued, Registered, IdleKnowsNothing, Subscribed
  <1>2. CASE Next
    BY <1>2, TypeNext
  <1> QED
    BY <1>1, <1>2

LEMMA TypesFollow == TypeInv => TypeOK
  <1> SUFFICES ASSUME TypeInv
               PROVE  TypeOK
    OBVIOUS
  <1>1. Issued \subseteq EntityId
    BY IssuedType DEF TypeInv
  <1>2. ASSUME NEW pl \in Players
        PROVE  /\ session[pl].stage \in Stages
               /\ session[pl].join \in 0..MaxJoins
               /\ session[pl].me \in Positions
               /\ DOMAIN session[pl].todo \subseteq EntityId
               /\ queue[pl] \in Seq(Event) /\ Len(queue[pl]) <= Capacity
               /\ DOMAIN shown[pl] \subseteq EntityId
               /\ \A id \in DOMAIN shown[pl] : shown[pl][id] \in Positions
    BY SessionFields, DisplayType DEF TypeInv, SessionOK, ChannelOK, ClientOK
  <1>3. known \in [Players -> SUBSET EntityId]
    BY <1>1 DEF TypeInv, ClientOK
  <1> QED
    BY <1>1, <1>2, <1>3 DEF TypeInv, SessionOK, ChannelOK, ClientOK, TypeOK

(* Every variable keeps its type, and no receiver ever holds more events   *)
(* than the capacity of the broadcast channel, whatever is broadcast while *)
(* it does not read.                                                       *)
THEOREM EntitiesTypeCorrect == Spec => []TypeOK
  <1>1. Spec => [](TypeInv /\ IdleKnowsNothing)
    BY TypeInit, TypeStep, PTL DEF Spec
  <1> QED
    BY <1>1, TypesFollow, PTL

-----------------------------------------------------------------------------
(* The kinds of step                                                       *)

(* Nothing moves in the channel: who comes was unheard of, and so was who  *)
(* goes.                                                                   *)
Quiet ==
    /\ UNCHANGED <<queue, known, lost>>
    /\ \A q \in Players : \A id \in known[q] : shown'[q][id] = shown[q][id]
    /\ \A q \in Players : session'[q].stage = "joining" =>
          \/ session[q].stage = "joining" /\ Id(q)' = Id(q)
          \/ Unheard(Id(q)')
    /\ \A id \in Present : id \in Present' \/ Unheard(id)
    /\ \A q \in Registered' :
          \/ q \in Registered /\ Id(q)' = Id(q) /\ told'[q] = told[q]
          \/ Unheard(Id(q)')

Spoken(ev) ==
    /\ Broadcast(ev) /\ ev.id \in EntityId
    /\ UNCHANGED client_vars
    /\ Registered' = Registered /\ \A q \in Players : Id(q)' = Id(q)
    /\ \A q \in Players : session'[q].stage = "joining" =>
          session[q].stage = "joining" /\ ev.id # Id(q)
    /\ \A id \in Present : id \in Present' \/ (ev.kind = "despawn" /\ ev.id = id)
    /\ ev.kind = "spawn" => Unheard(ev.id) /\ ev.id \in Present'
    /\ \A q \in Registered :
          IF ev.id = Id(q) THEN ev.kind = "despawn" \/ ev.at = told'[q]
                           ELSE told'[q] = told[q]

LEMMA QuietStages ==
    ASSUME TypeInv, IdleKnowsNothing, UNCHANGED <<queue, known, lost, told>>, mob \subseteq mob',
           \A q \in Players : Id(q)' = Id(q),
           NEW pl \in Players, \A q \in Players \ {pl} : session'[q] = session[q],
           session[pl].stage # "away",
           session'[pl].stage \notin {"away", "joining", "leaving"},
           \A q \in Players : known[q] # {} => shown'[q] = shown[q]
    PROVE  Quiet
  <1>1. Registered' = Registered
    BY DEF Registered
  <1>2. \A id \in Present : id \in Present'
    <2>1. ASSUME NEW q \in Registered, session[q].stage # "leaving"
          PROVE  q \in Registered' /\ session'[q].stage # "leaving" /\ Id(q) = Id(q)'
      BY <1>1, <2>1 DEF Registered
    <2> QED
      BY <2>1 DEF Present
  <1>3. \A q \in Players : \A id \in known[q] : shown'[q][id] = shown[q][id]
    OBVIOUS
  <1>4. \A q \in Players : session'[q].stage = "joining" => session[q].stage = "joining"
    OBVIOUS
  <1> QED
    BY <1>1, <1>2, <1>3, <1>4 DEF Quiet, Registered

LEMMA FreshIsUnheard ==
    ASSUME TypeInv, NEW id, id \notin Issued
    PROVE  Unheard(id)
  BY DEF Unheard, TypeInv, ChannelOK, ClientOK

LEMMA StaysPresent ==
    ASSUME mob \subseteq mob', \A q \in Players : Id(q)' = Id(q),
           \A q \in Registered : session[q].stage # "leaving" =>
               q \in Registered' /\ session'[q].stage # "leaving"
    PROVE  Present \subseteq Present'
  <1>1. ASSUME NEW q \in Registered, session[q].stage # "leaving"
        PROVE  q \in Registered' /\ session'[q].stage # "leaving" /\ Id(q) = Id(q)'
    BY <1>1 DEF Registered
  <1> QED
    BY <1>1 DEF Present

LEMMA QuietSteps ==
    ASSUME TypeInv, IdleKnowsNothing, JoiningIsUnheard, NEW pl \in Players,
           \/ Register(pl) \/ BreakJoin(pl) \/ ListOthers(pl) \/ Subscribe(pl) \/ BeginDrain(pl)
           \/ EndDrain(pl) \/ Remove(pl)
           \/ \E m \in Mobs, p \in Positions : SendChunkMob(pl, m, p)
           \/ \E id \in DOMAIN session[pl].todo : SendExisting(pl, id)
           \/ \E p \in Positions : Reposition(pl, p)
    PROVE  Quiet
  <1>0. session \in [Players -> SessionType] /\ SessionOK
    BY DEF TypeInv, SessionOK
  <1>a. ASSUME NEW st \in Stages, ToStage(pl, st)
        PROVE  /\ session'[pl].stage = st /\ \A q \in Players : Id(q)' = Id(q)
               /\ \A q \in Players \ {pl} : session'[q] = session[q]
    BY <1>0, <1>a DEF ToStage, Update, SessionType, Id
  <1>1. CASE Register(pl)
    <2>1. /\ Id(pl)' = <<pl, joins + 1>> /\ session'[pl].stage = "joining"
          /\ \A q \in Players \ {pl} : session'[q] = session[q] /\ Id(q)' = Id(q)
      BY <1>1, RegisterType DEF Id
    <2>2. /\ UNCHANGED <<queue, known, lost, shown, told, mob>> /\ session[pl].stage = "away"
      BY <1>1 DEF Register, client_vars, channel_vars
    <2>3. joins \in Nat /\ Id(pl)' \notin Issued
      BY <2>1, SyncAssumption DEF TypeInv, SessionOK, Issued
    <2>4. Unheard(Id(pl)')
      BY <2>3, FreshIsUnheard
    <2>5. \A id \in Present : id \in Present'
      <3>1. ASSUME NEW q \in Registered, session[q].stage # "leaving"
            PROVE  q \in Registered' /\ session'[q].stage # "leaving" /\ Id(q) = Id(q)'
        BY <2>1, <2>2, <3>1 DEF Registered
      <3> QED
        BY <2>2, <3>1 DEF Present
    <2> QED
      BY <2>1, <2>2, <2>4, <2>5 DEF Quiet, Registered
  <1>2. CASE BreakJoin(pl)
    <2>1. /\ session'[pl].stage = "away" /\ \A q \in Players : Id(q)' = Id(q)
          /\ \A q \in Players \ {pl} : session'[q] = session[q]
          /\ session[pl].stage = "joining" /\ shown' = [shown EXCEPT ![pl] = NoEntities]
          /\ UNCHANGED <<queue, known, lost, told, mob>>
      BY <1>2, <1>a DEF BreakJoin, channel_vars, Stages
    <2>2. Unheard(Id(pl)) /\ known[pl] = {}
      BY <2>1 DEF JoiningIsUnheard, IdleKnowsNothing, Subscribed
    <2>3. \A id \in Present : id \in Present' \/ Unheard(id)
      <3>1. ASSUME NEW q \in Registered, session[q].stage # "leaving", q # pl
            PROVE  q \in Registered' /\ session'[q].stage # "leaving" /\ Id(q) = Id(q)'
        BY <2>1, <3>1 DEF Registered
      <3> QED
        BY <2>1, <2>2, <3>1 DEF Present
    <2>4. \A q \in Players \ {pl} : shown'[q] = shown[q]
      BY <2>1 DEF TypeInv, ClientOK
    <2> QED
      BY <2>1, <2>2, <2>3, <2>4 DEF Quiet, Registered
  <1>3. CASE ListOthers(pl) \/ Subscribe(pl) \/ BeginDrain(pl) \/ EndDrain(pl)
    <2>1. /\ session'[pl].join = session[pl].join
          /\ session'[pl].stage \in {"listing", "playing", "draining"}
          /\ session[pl].stage \in {"announced", "listing", "playing", "draining"}
          /\ \A q \in Players \ {pl} : session'[q] = session[q]
          /\ UNCHANGED <<position, mob, client_vars, queue, lost, told, bounds>>
      BY <1>3, OwnUpdateType
    <2> QED
      BY <2>1, QuietStages DEF client_vars, Id
  <1>4. CASE Remove(pl)
    <2>1. /\ session'[pl].stage = "away" /\ \A q \in Players : Id(q)' = Id(q)
          /\ \A q \in Players \ {pl} : session'[q] = session[q]
          /\ session[pl].stage = "leaving" /\ told' = [told EXCEPT ![pl] = Origin]
          /\ UNCHANGED <<queue, known, lost, shown, mob>>
      BY <1>4, <1>a DEF Remove, client_vars, channel_vars, Stages
    <2>2. Present \subseteq Present'
      BY <2>1, StaysPresent DEF Registered
    <2>3. \A q \in Players \ {pl} : told'[q] = told[q]
      BY <2>1 DEF TypeInv, SessionOK
    <2> QED
      BY <2>1, <2>2, <2>3 DEF Quiet, Registered
  <1>5. ASSUME NEW m \in Mobs, NEW p \in Positions, SendChunkMob(pl, m, p)
        PROVE  Quiet
    <2>1. /\ session[pl].stage = "joining" /\ mob \subseteq mob'
          /\ UNCHANGED <<session, queue, known, lost, told>>
          /\ \E d : shown' = [shown EXCEPT ![pl] = d]
      BY <1>5 DEF SendChunkMob, channel_vars
    <2>2. known[pl] = {}
      BY <2>1 DEF IdleKnowsNothing, Subscribed
    <2>3. \A q \in Players \ {pl} : shown'[q] = shown[q]
      BY <2>1 DEF TypeInv, ClientOK
    <2>4. Present \subseteq Present'
      BY <2>1, StaysPresent DEF Registered, Id
    <2> QED
      BY <2>1, <2>2, <2>3, <2>4 DEF Quiet, Registered, Id
  <1>6. ASSUME NEW id, SendExisting(pl, id)
        PROVE  Quiet
    <2>1. /\ session'[pl].join = session[pl].join
          /\ session[pl].stage = "listing" /\ session'[pl].stage = "listing"
          /\ \A q \in Players \ {pl} : session'[q] = session[q] /\ shown'[q] = shown[q]
          /\ UNCHANGED <<mob, known, channel_vars, told>>
      BY <1>6, SendExistingType
    <2>2. known[pl] = {}
      BY <2>1 DEF IdleKnowsNothing, Subscribed
    <2> QED
      BY <2>1, <2>2, QuietStages DEF channel_vars, Id
  <1>7. ASSUME NEW p \in Positions, Reposition(pl, p)
        PROVE  Quiet
    BY <1>7 DEF Reposition, client_vars, channel_vars, Quiet, Present, Registered, Id
  <1> QED
    BY <1>1, <1>2, <1>3, <1>4, <1>5, <1>6, <1>7

LEMMA SpokenSteps ==
    ASSUME TypeInv, JoiningIsUnheard,
           \/ \E pl \in Players :
                \/ Announce(pl) \/ AnnounceLeave(pl)
                \/ \E p \in Positions : Walk(pl, p)
           \/ \E m \in Mobs, p \in Positions : SpawnMob(m, p)
           \/ \E id \in mob : DespawnMob(id)
    PROVE  \E ev \in Event : Spoken(ev)
  <1>0. /\ session \in [Players -> SessionType] /\ SessionOK /\ Players \cap Mobs = {}
        /\ \A o \in Registered : Id(o) \in Issued /\ Id(o) \in EntityId /\ Owner(Id(o)) = o
        /\ \A q \in Players, o \in Players : Id(q) = Id(o) => q = o
        /\ Registered \subseteq Players /\ Origin \in Positions
    BY IssuedType, SyncAssumption DEF TypeInv, SessionOK, Registered
  <1>a. ASSUME NEW pl \in Players, NEW st \in Stages, ToStage(pl, st)
        PROVE  /\ session'[pl].stage = st /\ \A q \in Players : Id(q)' = Id(q)
               /\ \A q \in Players \ {pl} : session'[q] = session[q]
    BY <1>0, <1>a DEF ToStage, Update, SessionType, Id
  <1>1. ASSUME NEW pl \in Players, Announce(pl)
        PROVE  \E ev \in Event : Spoken(ev)
    <2> DEFINE ev == SpawnOf(Id(pl), Origin)
    <2>1. /\ session'[pl].stage = "announced" /\ \A q \in Players : Id(q)' = Id(q)
          /\ \A q \in Players \ {pl} : session'[q] = session[q]
          /\ session[pl].stage = "joining" /\ told' = [told EXCEPT ![pl] = Origin]
          /\ Broadcast(ev) /\ UNCHANGED <<client_vars, mob>>
      BY <1>1, <1>a DEF Announce, Stages
    <2>2. ev \in Event /\ ev.id = Id(pl) /\ ev.id \in EntityId /\ ev.kind = "spawn" /\ ev.at = Origin
      BY <1>0, <2>1, EventTypes DEF SpawnOf, Registered
    <2>3. Unheard(Id(pl)) /\ Registered' = Registered
      BY <2>1 DEF JoiningIsUnheard, Registered
    <2>4. Present \subseteq Present'
      BY <2>1, StaysPresent DEF Registered
    <2>5. Id(pl) \in Present'
      <3>1. pl \in Registered' /\ session'[pl].stage # "leaving" /\ Id(pl)' = Id(pl)
        BY <2>1 DEF Registered
      <3> QED
        BY <3>1 DEF Present
    <2>6. told'[pl] = Origin /\ \A q \in Players \ {pl} : told'[q] = told[q]
      BY <2>1 DEF TypeInv, SessionOK
    <2> HIDE DEF ev
    <2>7. Spoken(ev)
      BY <1>0, <2>1, <2>2, <2>3, <2>4, <2>5, <2>6 DEF Spoken
    <2> QED
      BY <2>2, <2>7
  <1>2. ASSUME NEW pl \in Players, AnnounceLeave(pl)
        PROVE  \E ev \in Event : Spoken(ev)
    <2> DEFINE ev == DespawnOf(Id(pl))
    <2>1. /\ session'[pl].stage = "leaving" /\ \A q \in Players : Id(q)' = Id(q)
          /\ \A q \in Players \ {pl} : session'[q] = session[q]
          /\ session[pl].stage = "returned"
          /\ Broadcast(ev) /\ UNCHANGED <<client_vars, mob, told>>
      BY <1>2, <1>a DEF AnnounceLeave, Stages
    <2>2. ev \in Event /\ ev.id = Id(pl) /\ ev.id \in EntityId /\ ev.kind = "despawn"
      BY <1>0, <2>1, EventTypes DEF DespawnOf, Registered
    <2>3. Registered' = Registered
      BY <2>1 DEF Registered
    <2>4. \A id \in Present : id \in Present' \/ id = Id(pl)
      <3>1. ASSUME NEW q \in Registered, session[q].stage # "leaving", q # pl
            PROVE  q \in Registered' /\ session'[q].stage # "leaving" /\ Id(q) = Id(q)'
        BY <2>1, <3>1 DEF Registered
      <3> QED
        BY <2>1, <3>1 DEF Present
    <2> HIDE DEF ev
    <2>5. Spoken(ev)
      BY <1>0, <2>1, <2>2, <2>3, <2>4 DEF Spoken
    <2> QED
      BY <2>2, <2>5
  <1>3. ASSUME NEW pl \in Players, NEW p \in Positions, Walk(pl, p)
        PROVE  \E ev \in Event : Spoken(ev)
    <2> DEFINE ev == MoveOf(Id(pl), p)
    <2>1. /\ UNCHANGED <<session, client_vars, mob>> /\ Broadcast(ev)
          /\ session[pl].stage = "playing" /\ told' = [told EXCEPT ![pl] = p]
      BY <1>3 DEF Walk
    <2>2. ev \in Event /\ ev.id = Id(pl) /\ ev.id \in EntityId /\ ev.kind = "move" /\ ev.at = p
      BY <1>0, <2>1, EventTypes DEF MoveOf, Registered
    <2>3. told'[pl] = p /\ \A q \in Players \ {pl} : told'[q] = told[q]
      BY <2>1 DEF TypeInv, SessionOK
    <2>4. Present' = Present /\ Registered' = Registered /\ \A q \in Players : Id(q)' = Id(q)
      BY <2>1 DEF Present, Registered, Id
    <2> HIDE DEF ev
    <2>5. Spoken(ev)
      BY <1>0, <2>1, <2>2, <2>3, <2>4 DEF Spoken
    <2> QED
      BY <2>2, <2>5
  <1>4. ASSUME NEW m \in Mobs, NEW p \in Positions, SpawnMob(m, p)
        PROVE  \E ev \in Event : Spoken(ev)
    <2> DEFINE id == <<m, joins + 1>>
               ev == SpawnOf(id, p)
    <2>1. /\ UNCHANGED <<session, client_vars, told>> /\ Broadcast(ev) /\ mob' = mob \cup {id}
      BY <1>4 DEF SpawnMob
    <2>2. joins \in Nat /\ joins + 1 \in 1..MaxJoins
      BY <1>4, SyncAssumption DEF SpawnMob, TypeInv, SessionOK
    <2>3. id \in EntityId /\ id \notin Issued /\ \A q \in Players : Id(q) # id
      <3>1. id \in EntityId
        BY <2>2 DEF EntityId
      <3>2. id \notin Issued
        BY <2>2 DEF Issued
      <3>3. ASSUME NEW q \in Players
            PROVE  Id(q) # id
        <4>1. q # m
          BY <1>0
        <4> QED
          BY <4>1 DEF Id
      <3> QED
        BY <3>1, <3>2, <3>3
    <2>4. ev \in Event /\ ev.id = id /\ ev.kind = "spawn"
      BY <2>3, EventTypes DEF SpawnOf
    <2>5. Unheard(id)
      BY <2>3, FreshIsUnheard
    <2> HIDE DEF id, ev
    <2>6. /\ Registered' = Registered /\ Present \subseteq Present' /\ id \in Present'
          /\ \A q \in Players : Id(q)' = Id(q)
      BY <2>1 DEF Present, Registered, Id
    <2>7. Spoken(ev)
      BY <1>0, <2>1, <2>3, <2>4, <2>5, <2>6 DEF Spoken
    <2> QED
      BY <2>4, <2>7
  <1>5. ASSUME NEW id \in mob, DespawnMob(id)
        PROVE  \E ev \in Event : Spoken(ev)
    <2> DEFINE ev == DespawnOf(id)
    <2>1. /\ UNCHANGED <<session, client_vars, told>> /\ Broadcast(ev) /\ mob' = mob \ {id}
      BY <1>5 DEF DespawnMob
    <2>2. id \in EntityId /\ \A q \in Players : Id(q) # id
      <3>1. id \in EntityId /\ Owner(id) \in Mobs
        BY <1>0, IssuedType DEF SessionOK
      <3>2. \A q \in Players : Owner(Id(q)) = q
        BY DEF Owner, Id
      <3> QED
        BY <1>0, <3>1, <3>2
    <2>3. ev \in Event /\ ev.id = id /\ ev.kind = "despawn"
      BY <2>2, EventTypes, SyncAssumption DEF DespawnOf
    <2> HIDE DEF ev
    <2>4. /\ Registered' = Registered /\ \A q \in Players : Id(q)' = Id(q)
          /\ \A i \in Present : i \in Present' \/ i = id
      BY <2>1 DEF Present, Registered, Id
    <2>5. Spoken(ev)
      BY <1>0, <2>1, <2>2, <2>3, <2>4 DEF Spoken
    <2> QED
      BY <2>3, <2>5
  <1> QED
    BY <1>1, <1>2, <1>3, <1>4, <1>5

LEMMA Kinds ==
    ASSUME TypeInv, IdleKnowsNothing, JoiningIsUnheard, [Next]_vars
    PROVE  \/ Quiet \/ (\E ev \in Event : Spoken(ev))
           \/ \E pl \in Players : Receive(pl) \/ Disconnect(pl)
  <1>1. CASE UNCHANGED vars
    BY <1>1 DEF vars, client_vars, channel_vars, Quiet, Present, Registered, Id
  <1>2. CASE Next
    BY <1>2, QuietSteps, SpokenSteps DEF Next, Iterate
  <1> QED
    BY <1>1, <1>2

-----------------------------------------------------------------------------
(* What a receiver hears                                                   *)

UnheardAfter(id) ==
    \A pl \in Players :
        id \notin known'[pl] /\ \A i \in 1..Len(queue'[pl]) : queue'[pl][i].id # id

(* An event of the new queue is the one broadcast, at the end, or an event *)
(* of the old queue, k places further up there.                            *)
LEMMA Places ==
    ASSUME ChannelOK, ChannelOK', NEW pl \in Players, NEW k \in {0, 1}, Slides(pl, k)
    PROVE  /\ Len(queue[pl]) \in Nat /\ Len(queue'[pl]) \in Nat
           /\ \A i \in 1..(Len(queue[pl]) - k) :
                 i + k \in 1..Len(queue[pl]) /\ queue'[pl][i] = queue[pl][i + k]
           /\ \A i \in 1..Len(queue[pl]) : i > k =>
                 /\ i - k \in 1..Len(queue'[pl]) /\ i - k \in 1..(Len(queue[pl]) - k)
                 /\ queue'[pl][i - k] = queue[pl][i]
  <1>1. Len(queue[pl]) \in Nat /\ Len(queue'[pl]) \in Nat
    BY DEF ChannelOK
  <1>2. \A i \in 1..(Len(queue[pl]) - k) :
          i + k \in 1..Len(queue[pl]) /\ queue'[pl][i] = queue[pl][i + k]
    BY <1>1 DEF Slides
  <1>3. ASSUME NEW i \in 1..Len(queue[pl]), i > k
        PROVE  /\ i - k \in 1..Len(queue'[pl]) /\ i - k \in 1..(Len(queue[pl]) - k)
               /\ queue'[pl][i - k] = queue[pl][i]
    <2>1. i - k \in 1..(Len(queue[pl]) - k) /\ (i - k) + k = i
      BY <1>1, <1>3
    <2>2. i - k \in 1..Len(queue'[pl])
      BY <1>1, <2>1 DEF Slides
    <2>3. queue'[pl][i - k] = queue[pl][(i - k) + k]
      BY <1>2, <2>1
    <2> QED
      BY <2>1, <2>2, <2>3
  <1> QED
    BY <1>1, <1>2, <1>3

LEMMA UnheardSpoken ==
    ASSUME TypeInv, ChannelOK', NEW ev \in Event, Spoken(ev), NEW id, Unheard(id), ev.id # id
    PROVE  UnheardAfter(id)
  <1>1. /\ \A pl \in Players \ Subscribed : queue'[pl] = queue[pl]
        /\ \A pl \in Subscribed : Hears(pl, ev)
    BY Sent DEF Spoken, TypeInv
  <1>2. ASSUME NEW pl \in Players, NEW i \in 1..Len(queue'[pl])
        PROVE  queue'[pl][i].id # id
    <2>1. CASE pl \notin Subscribed
      BY <1>1, <2>1 DEF Unheard
    <2>2. CASE pl \in Subscribed
      <3>1. PICK k \in {0, 1} : Slides(pl, k) /\ Len(queue'[pl]) = Len(queue[pl]) - k + 1
                                /\ queue'[pl][Len(queue'[pl])] = ev
        BY <1>1, <2>2 DEF Hears
      <3>2. i = Len(queue'[pl]) \/ i \in 1..(Len(queue[pl]) - k)
        BY <3>1, Places DEF TypeInv
      <3> QED
        BY <3>1, <3>2, Places, SMTT(40) DEF Unheard, TypeInv
    <2> QED
      BY <2>1, <2>2
  <1> QED
    BY <1>2 DEF UnheardAfter, Unheard, Spoken, client_vars

LEMMA UnheardReceived ==
    ASSUME TypeInv, NEW pl \in Players, Receive(pl), NEW id, Unheard(id)
    PROVE  UnheardAfter(id)
  <1>1. /\ TypeInv' /\ Slides(pl, 1) /\ Len(queue'[pl]) = Len(queue[pl]) - 1 /\ 1 \in 1..Len(queue[pl])
        /\ \A q \in Players \ {pl} : queue'[q] = queue[q] /\ known'[q] = known[q]
        /\ known'[pl] \ {queue[pl][1].id} = known[pl] \ {queue[pl][1].id}
    BY Received
  <1>2. queue[pl][1].id # id /\ id \notin known[pl]
    BY <1>1 DEF Unheard
  <1>3. \A i \in 1..Len(queue'[pl]) : queue'[pl][i].id # id
    BY <1>1, Places DEF TypeInv, Unheard
  <1> QED
    BY <1>1, <1>2, <1>3 DEF UnheardAfter, Unheard

LEMMA Disconnected ==
    ASSUME TypeInv, NEW pl \in Players, Disconnect(pl)
    PROVE  /\ queue'[pl] = <<>> /\ known'[pl] = {} /\ Len(queue'[pl]) = 0
           /\ \A q \in Players \ {pl} : queue'[q] = queue[q] /\ known'[q] = known[q]
                                        /\ lost'[q] = lost[q] /\ shown'[q] = shown[q]
           /\ \A q \in Players : Id(q)' = Id(q)
           /\ \A q \in Players \ {pl} : session'[q] = session[q]
           /\ session[pl].stage = "playing" /\ session'[pl].stage = "returned"
           /\ UNCHANGED <<mob, told>>
  <1>1. /\ queue' = [queue EXCEPT ![pl] = <<>>] /\ known' = [known EXCEPT ![pl] = {}]
        /\ lost' = [lost EXCEPT ![pl] = {}] /\ shown' = [shown EXCEPT ![pl] = NoEntities]
        /\ session[pl].stage = "playing" /\ ToStage(pl, "returned") /\ UNCHANGED <<mob, told>>
    BY DEF Disconnect
  <1>2. /\ queue'[pl] = <<>> /\ known'[pl] = {}
        /\ \A q \in Players \ {pl} : queue'[q] = queue[q] /\ known'[q] = known[q]
                                     /\ lost'[q] = lost[q] /\ shown'[q] = shown[q]
    BY <1>1 DEF TypeInv, ChannelOK, ClientOK
  <1>3. /\ session'[pl].stage = "returned" /\ \A q \in Players : Id(q)' = Id(q)
        /\ \A q \in Players \ {pl} : session'[q] = session[q]
    BY <1>1 DEF ToStage, Update, SessionType, Id, TypeInv, SessionOK
  <1> QED
    BY <1>1, <1>2, <1>3

LEMMA JoiningStep ==
    ASSUME TypeInv, TypeInv', IdleKnowsNothing, JoiningIsUnheard, [Next]_vars
    PROVE  JoiningIsUnheard'
  <1> SUFFICES ASSUME NEW o \in Players, session'[o].stage = "joining"
               PROVE  UnheardAfter(Id(o)')
    BY DEF JoiningIsUnheard, Unheard, UnheardAfter
  <1>1. CASE Quiet
    <2>1. Unheard(Id(o)') /\ UNCHANGED <<queue, known>>
      BY <1>1 DEF Quiet, JoiningIsUnheard
    <2> QED
      BY <2>1 DEF Unheard, UnheardAfter
  <1>2. ASSUME NEW ev \in Event, Spoken(ev)
        PROVE  UnheardAfter(Id(o)')
    <2>1. session[o].stage = "joining" /\ ev.id # Id(o) /\ Id(o)' = Id(o)
      BY <1>2 DEF Spoken
    <2>2. Unheard(Id(o))
      BY <2>1 DEF JoiningIsUnheard
    <2>3. UnheardAfter(Id(o))
      BY <1>2, <2>1, <2>2, UnheardSpoken DEF TypeInv
    <2> QED
      BY <2>1, <2>3
  <1>3. ASSUME NEW pl \in Players, Receive(pl)
        PROVE  UnheardAfter(Id(o)')
    <2>1. session' = session
      BY <1>3, Received
    <2>2. Unheard(Id(o)) /\ Id(o)' = Id(o)
      BY <2>1 DEF JoiningIsUnheard, Id
    <2>3. UnheardAfter(Id(o))
      BY <1>3, <2>2, UnheardReceived
    <2> QED
      BY <2>2, <2>3
  <1>4. ASSUME NEW pl \in Players, Disconnect(pl)
        PROVE  UnheardAfter(Id(o)')
    <2>1. o # pl /\ session[o].stage = "joining" /\ Id(o)' = Id(o)
      BY <1>4, Disconnected
    <2>2. Unheard(Id(o))
      BY <2>1 DEF JoiningIsUnheard
    <2> QED
      BY <1>4, <2>1, <2>2, Disconnected DEF Unheard, UnheardAfter
  <1> QED
    BY <1>1, <1>2, <1>3, <1>4, Kinds

LEMMA SpawnStep ==
    ASSUME TypeInv, TypeInv', IdleKnowsNothing, JoiningIsUnheard, SpawnIsFirst, [Next]_vars
    PROVE  SpawnIsFirst'
  <1> SUFFICES ASSUME NEW q \in Players, NEW i \in 1..Len(queue'[q]), queue'[q][i].kind = "spawn"
               PROVE  /\ queue'[q][i].id \notin known'[q]
                      /\ \A j \in 1..(i - 1) : queue'[q][j].id # queue'[q][i].id
    BY DEF SpawnIsFirst
  <1>0. ASSUME queue'[q] = queue[q], known'[q] = known[q]
        PROVE  /\ queue'[q][i].id \notin known'[q]
               /\ \A j \in 1..(i - 1) : queue'[q][j].id # queue'[q][i].id
    BY <1>0 DEF SpawnIsFirst
  <1>1. CASE Quiet
    BY <1>0, <1>1 DEF Quiet
  <1>2. ASSUME NEW ev \in Event, Spoken(ev)
        PROVE  /\ queue'[q][i].id \notin known'[q]
               /\ \A j \in 1..(i - 1) : queue'[q][j].id # queue'[q][i].id
    <2>1. /\ q \notin Subscribed => queue'[q] = queue[q]
          /\ q \in Subscribed => Hears(q, ev)
          /\ known' = known
      BY <1>2, Sent DEF Spoken, TypeInv, client_vars
    <2>2. CASE q \in Subscribed
      <3>1. PICK k \in {0, 1} : Slides(q, k) /\ Len(queue'[q]) = Len(queue[q]) - k + 1
                                /\ queue'[q][Len(queue'[q])] = ev
        BY <2>1, <2>2 DEF Hears
      <3>2. /\ Len(queue[q]) \in Nat /\ Len(queue'[q]) \in Nat
            /\ \A n \in 1..(Len(queue[q]) - k) :
                 n + k \in 1..Len(queue[q]) /\ queue'[q][n] = queue[q][n + k]
        BY <3>1, Places DEF TypeInv
      <3>3. CASE i = Len(queue'[q])
        <4>1. Unheard(ev.id)
          BY <1>2, <3>1, <3>3 DEF Spoken
        <4>2. \A j \in 1..(i - 1) : j \in 1..(Len(queue[q]) - k)
          BY <3>1, <3>2, <3>3
        <4> QED
          BY <2>1, <3>1, <3>2, <3>3, <4>1, <4>2 DEF Unheard
      <3>4. CASE i # Len(queue'[q])
        <4>1. i \in 1..(Len(queue[q]) - k)
          BY <3>1, <3>2, <3>4
        <4>2. /\ queue[q][i + k].kind = "spawn" /\ i + k \in 1..Len(queue[q])
              /\ queue'[q][i] = queue[q][i + k]
          BY <3>2, <4>1
        <4>3. /\ queue[q][i + k].id \notin known[q]
              /\ \A j \in 1..((i + k) - 1) : queue[q][j].id # queue[q][i + k].id
          BY <4>2 DEF SpawnIsFirst
        <4>4. \A j \in 1..(i - 1) : /\ j \in 1..(Len(queue[q]) - k)
                                    /\ j + k \in 1..((i + k) - 1)
          BY <3>2, <4>1
        <4> QED
          BY <2>1, <3>2, <4>2, <4>3, <4>4
      <3> QED
        BY <3>3, <3>4
    <2> QED
      BY <1>0, <2>1, <2>2
  <1>3. ASSUME NEW pl \in Players, Receive(pl)
        PROVE  /\ queue'[q][i].id \notin known'[q]
               /\ \A j \in 1..(i - 1) : queue'[q][j].id # queue'[q][i].id
    <2>1. /\ Slides(pl, 1) /\ Len(queue'[pl]) = Len(queue[pl]) - 1 /\ 1 \in 1..Len(queue[pl])
          /\ \A r \in Players \ {pl} : queue'[r] = queue[r] /\ known'[r] = known[r]
          /\ known'[pl] \ {queue[pl][1].id} = known[pl] \ {queue[pl][1].id}
      BY <1>3, Received
    <2>2. CASE q = pl
      <3>1. /\ Len(queue[q]) \in Nat /\ Len(queue'[q]) \in Nat
            /\ \A n \in 1..(Len(queue[q]) - 1) :
                 n + 1 \in 1..Len(queue[q]) /\ queue'[q][n] = queue[q][n + 1]
        BY <2>1, <2>2, Places DEF TypeInv
      <3>2. /\ queue[q][i + 1].kind = "spawn" /\ i + 1 \in 1..Len(queue[q])
            /\ queue'[q][i] = queue[q][i + 1]
        BY <2>1, <2>2, <3>1
      <3>3. /\ queue[q][i + 1].id \notin known[q]
            /\ \A j \in 1..((i + 1) - 1) : queue[q][j].id # queue[q][i + 1].id
        BY <3>2 DEF SpawnIsFirst
      <3>4. queue[q][1].id # queue[q][i + 1].id
        BY <3>1, <3>2, <3>3
      <3>5. \A j \in 1..(i - 1) : /\ j \in 1..(Len(queue[q]) - 1)
                                  /\ j + 1 \in 1..((i + 1) - 1)
        BY <2>1, <2>2, <3>1
      <3> QED
        BY <2>1, <2>2, <3>1, <3>2, <3>3, <3>4, <3>5, SMTT(40)
    <2> QED
      BY <1>0, <2>1, <2>2
  <1>4. ASSUME NEW pl \in Players, Disconnect(pl)
        PROVE  /\ queue'[q][i].id \notin known'[q]
               /\ \A j \in 1..(i - 1) : queue'[q][j].id # queue'[q][i].id
    <2>1. q # pl
      BY <1>4, Disconnected
    <2> QED
      BY <1>0, <1>4, <2>1, Disconnected
  <1> QED
    BY <1>1, <1>2, <1>3, <1>4, Kinds

-----------------------------------------------------------------------------
(* Who has gone is told of                                                 *)

FollowsAfter(pl, id, i) ==
    \/ id \in lost'[pl]
    \/ \E j \in (i + 1)..Len(queue'[pl]) :
          queue'[pl][j].kind = "despawn" /\ queue'[pl][j].id = id

(* A despawn still to come after place i comes after the place it has now. *)
LEMMA StillFollows ==
    ASSUME TypeInv, ChannelOK', NEW q \in Players, NEW k \in {0, 1}, Slides(q, k),
           lost[q] \subseteq lost'[q], k = 1 => queue[q][1].id \in lost'[q],
           NEW id, NEW i \in Nat, DespawnFollows(q, id, i)
    PROVE  /\ i = 0 => FollowsAfter(q, id, 0)
           /\ \A n \in Nat : i = n + k => FollowsAfter(q, id, n)
  <1>1. CASE id \in lost[q]
    BY <1>1 DEF FollowsAfter
  <1>2. CASE id \notin lost[q]
    <2>1. PICK j \in (i + 1)..Len(queue[q]) :
            queue[q][j].kind = "despawn" /\ queue[q][j].id = id
      BY <1>2 DEF DespawnFollows
    <2>2. /\ Len(queue[q]) \in Nat /\ Len(queue'[q]) \in Nat /\ j \in 1..Len(queue[q]) /\ j > i
          /\ j > k => /\ j - k \in 1..Len(queue'[q]) /\ queue'[q][j - k] = queue[q][j]
      BY <2>1, Places DEF TypeInv
    <2>3. CASE j > k
      <3>1. ASSUME NEW n \in Nat, n = 0 \/ i = n + k
            PROVE  j - k \in (n + 1)..Len(queue'[q])
        BY <2>2, <2>3, <3>1
      <3> QED
        BY <2>1, <2>2, <2>3, <3>1 DEF FollowsAfter
    <2>4. CASE ~(j > k)
      <3>1. k = 1 /\ j = 1
        BY <2>2, <2>4
      <3> QED
        BY <2>1, <3>1 DEF FollowsAfter
    <2> QED
      BY <2>3, <2>4
  <1> QED
    BY <1>1, <1>2

LEMMA GoneSpoken ==
    ASSUME TypeInv, ChannelOK', GoneInv, IdleKnowsNothing, NEW ev \in Event, Spoken(ev),
           NEW q \in Players
    PROVE  /\ \A id \in known'[q] \ Present' : FollowsAfter(q, id, 0)
           /\ \A i \in 1..Len(queue'[q]) :
                 queue'[q][i].kind = "spawn" /\ queue'[q][i].id \notin Present'
                     => FollowsAfter(q, queue'[q][i].id, i)
  <1>1. /\ q \notin Subscribed => queue'[q] = queue[q] /\ lost'[q] = lost[q]
        /\ q \in Subscribed => Hears(q, ev)
        /\ known' = known
    BY Sent DEF Spoken, TypeInv, client_vars
  <1>2. CASE q \notin Subscribed
    BY <1>1, <1>2 DEF IdleKnowsNothing
  <1>3. CASE q \in Subscribed
    <2>1. PICK k \in {0, 1} :
            /\ Slides(q, k) /\ Len(queue'[q]) = Len(queue[q]) - k + 1
            /\ queue'[q][Len(queue'[q])] = ev
            /\ lost[q] \subseteq lost'[q]
            /\ k = 1 => queue[q][1].id \in lost'[q]
      BY <1>1, <1>3 DEF Hears
    <2>2. /\ Len(queue[q]) \in Nat /\ Len(queue'[q]) \in Nat /\ Len(queue'[q]) >= 1
          /\ \A n \in 1..(Len(queue[q]) - k) :
               n + k \in 1..Len(queue[q]) /\ queue'[q][n] = queue[q][n + k]
      <3>1. k <= Len(queue[q])
        BY <2>1 DEF Slides
      <3> QED
        BY <2>1, <3>1, Places DEF TypeInv
    <2>3. ASSUME NEW id, NEW i \in Nat, i < Len(queue'[q]), ev.kind = "despawn", ev.id = id
          PROVE  FollowsAfter(q, id, i)
      <3>1. Len(queue'[q]) \in (i + 1)..Len(queue'[q])
        BY <2>2, <2>3
      <3> QED
        BY <2>1, <2>3, <3>1 DEF FollowsAfter
    <2>4. ASSUME NEW id \in known'[q] \ Present'
          PROVE  FollowsAfter(q, id, 0)
      <3>1. CASE id \in Present
        BY <2>2, <2>3, <3>1 DEF Spoken
      <3>2. CASE id \notin Present
        <4>1. DespawnFollows(q, id, 0)
          BY <1>1, <3>2 DEF GoneInv, KnownIsTold
        <4> QED
          BY <2>1, <4>1, StillFollows
      <3> QED
        BY <3>1, <3>2
    <2>5. ASSUME NEW i \in 1..Len(queue'[q]),
                 queue'[q][i].kind = "spawn", queue'[q][i].id \notin Present'
          PROVE  FollowsAfter(q, queue'[q][i].id, i)
      <3>1. i # Len(queue'[q])
        BY <2>1, <2>5 DEF Spoken
      <3>2. i \in 1..(Len(queue[q]) - k) /\ i < Len(queue'[q]) /\ i \in Nat /\ i + k \in Nat
        BY <2>1, <2>2, <3>1
      <3>3. i + k \in 1..Len(queue[q]) /\ queue'[q][i] = queue[q][i + k]
        BY <2>2, <3>2
      <3>4. CASE queue'[q][i].id \in Present
        BY <2>3, <2>5, <3>2, <3>4 DEF Spoken
      <3>5. CASE queue'[q][i].id \notin Present
        <4>1. DespawnFollows(q, queue[q][i + k].id, i + k)
          BY <2>5, <3>3, <3>5 DEF GoneInv, SpawnedIsTold
        <4>2. FollowsAfter(q, queue[q][i + k].id, i)
          BY <2>1, <3>2, <4>1, StillFollows
        <4> QED
          BY <3>3, <4>2
      <3> QED
        BY <3>4, <3>5
    <2> QED
      BY <2>4, <2>5
  <1> QED
    BY <1>2, <1>3

LEMMA GoneReceived ==
    ASSUME TypeInv, GoneInv, NEW q \in Players, Receive(q)
    PROVE  /\ \A id \in known'[q] \ Present' : FollowsAfter(q, id, 0)
           /\ \A i \in 1..Len(queue'[q]) :
                 queue'[q][i].kind = "spawn" /\ queue'[q][i].id \notin Present'
                     => FollowsAfter(q, queue'[q][i].id, i)
  <1>1. /\ TypeInv' /\ Slides(q, 1) /\ Len(queue'[q]) = Len(queue[q]) - 1 /\ 1 \in 1..Len(queue[q])
        /\ known'[q] \ {queue[q][1].id} = known[q] \ {queue[q][1].id}
        /\ queue[q][1].id \in known'[q] \ known[q] => queue[q][1].kind = "spawn"
        /\ queue[q][1].id \in known'[q] /\ queue[q][1].kind # "spawn" => queue[q][1].kind # "despawn"
        /\ UNCHANGED <<session, mob, lost>>
    BY Received
  <1>2. Present' = Present
    BY <1>1 DEF Present, Registered, Id
  <1>3. /\ Len(queue[q]) \in Nat /\ Len(queue'[q]) \in Nat
        /\ \A n \in 1..(Len(queue[q]) - 1) :
               n + 1 \in 1..Len(queue[q]) /\ queue'[q][n] = queue[q][n + 1]
        /\ \A i \in 1..Len(queue[q]) : i > 1 =>
               i - 1 \in 1..Len(queue'[q]) /\ queue'[q][i - 1] = queue[q][i]
    BY <1>1, Places DEF TypeInv
  <1>4. ASSUME NEW id, NEW i \in Nat, DespawnFollows(q, id, i), i >= 1
        PROVE  FollowsAfter(q, id, i - 1)
    <2>1. CASE id \in lost[q]
      BY <1>1, <2>1 DEF FollowsAfter
    <2>2. CASE id \notin lost[q]
      <3>1. PICK j \in (i + 1)..Len(queue[q]) :
              queue[q][j].kind = "despawn" /\ queue[q][j].id = id
        BY <1>4, <2>2 DEF DespawnFollows
      <3>2. j \in 1..Len(queue[q]) /\ j > 1 /\ j - 1 \in ((i - 1) + 1)..Len(queue'[q])
        BY <1>1, <1>3, <1>4
      <3> QED
        BY <1>3, <3>1, <3>2 DEF FollowsAfter
    <2> QED
      BY <2>1, <2>2
  <1>5. ASSUME NEW id \in known'[q] \ Present'
        PROVE  FollowsAfter(q, id, 0)
    <2>1. CASE id = queue[q][1].id /\ queue[q][1].kind = "spawn"
      <3>1. DespawnFollows(q, id, 1)
        BY <1>1, <1>2, <2>1 DEF GoneInv, SpawnedIsTold
      <3> QED
        BY <1>4, <3>1
    <2>2. CASE ~(id = queue[q][1].id /\ queue[q][1].kind = "spawn")
      <3>1. id \in known[q]
        BY <1>1, <2>2
      <3>2. DespawnFollows(q, id, 0)
        BY <1>2, <3>1 DEF GoneInv, KnownIsTold
      <3>3. ~(queue[q][1].id = id /\ queue[q][1].kind = "despawn")
        BY <1>1, <2>2
      <3>4. CASE id \in lost[q]
        BY <1>1, <3>4 DEF FollowsAfter
      <3>5. CASE id \notin lost[q]
        <4>1. PICK j \in 1..Len(queue[q]) :
                queue[q][j].kind = "despawn" /\ queue[q][j].id = id
          BY <3>2, <3>5 DEF DespawnFollows
        <4>2. j > 1 /\ j - 1 \in (0 + 1)..Len(queue'[q])
          BY <1>1, <1>3, <3>3, <4>1
        <4> QED
          BY <1>3, <4>1, <4>2 DEF FollowsAfter
      <3> QED
        BY <3>4, <3>5
    <2> QED
      BY <2>1, <2>2
  <1>6. ASSUME NEW i \in 1..Len(queue'[q]),
               queue'[q][i].kind = "spawn", queue'[q][i].id \notin Present'
        PROVE  FollowsAfter(q, queue'[q][i].id, i)
    <2>1. i + 1 \in 1..Len(queue[q]) /\ queue'[q][i] = queue[q][i + 1] /\ i + 1 \in Nat
      BY <1>1, <1>3
    <2>2. DespawnFollows(q, queue[q][i + 1].id, i + 1)
      BY <1>2, <1>6, <2>1 DEF GoneInv, SpawnedIsTold
    <2>3. (i + 1) - 1 = i /\ i + 1 >= 1
      BY <1>3
    <2>4. FollowsAfter(q, queue[q][i + 1].id, i)
      BY <1>4, <2>1, <2>2, <2>3
    <2> QED
      BY <2>1, <2>4
  <1> QED
    BY <1>5, <1>6

LEMMA GoneStep ==
    ASSUME TypeInv, TypeInv', IdleKnowsNothing, JoiningIsUnheard, GoneInv, [Next]_vars
    PROVE  GoneInv'
  <1> DEFINE Told(q) ==
        /\ \A id \in known'[q] \ Present' : FollowsAfter(q, id, 0)
        /\ \A i \in 1..Len(queue'[q]) :
              queue'[q][i].kind = "spawn" /\ queue'[q][i].id \notin Present'
                  => FollowsAfter(q, queue'[q][i].id, i)
  <1> SUFFICES ASSUME NEW q \in Players
               PROVE  Told(q)
    BY DEF GoneInv, KnownIsTold, SpawnedIsTold, DespawnFollows, FollowsAfter
  <1>0. ASSUME queue'[q] = queue[q], known'[q] = known[q], lost'[q] = lost[q],
               \A id \in Present : id \in Present' \/ Unheard(id)
        PROVE  Told(q)
    <2>1. ASSUME NEW id \in known'[q] \ Present'
          PROVE  FollowsAfter(q, id, 0)
      BY <1>0, <2>1 DEF Unheard, GoneInv, KnownIsTold, DespawnFollows, FollowsAfter
    <2>2. ASSUME NEW i \in 1..Len(queue'[q]),
                 queue'[q][i].kind = "spawn", queue'[q][i].id \notin Present'
          PROVE  FollowsAfter(q, queue'[q][i].id, i)
      BY <1>0, <2>2 DEF Unheard, GoneInv, SpawnedIsTold, DespawnFollows, FollowsAfter
    <2> QED
      BY <2>1, <2>2
  <1>1. CASE Quiet
    BY <1>0, <1>1 DEF Quiet
  <1>2. ASSUME NEW ev \in Event, Spoken(ev)
        PROVE  Told(q)
    BY <1>2, GoneSpoken DEF TypeInv
  <1>3. ASSUME NEW pl \in Players, Receive(pl)
        PROVE  Told(q)
    <2>1. CASE q = pl
      BY <1>3, <2>1, GoneReceived
    <2>2. CASE q # pl
      <3>1. queue'[q] = queue[q] /\ known'[q] = known[q] /\ UNCHANGED <<session, mob, lost>>
        BY <1>3, <2>2, Received
      <3>2. Present' = Present
        BY <3>1 DEF Present, Registered, Id
      <3> HIDE DEF Told
      <3> QED
        BY <1>0, <3>1, <3>2
    <2> QED
      BY <2>1, <2>2
  <1>4. ASSUME NEW pl \in Players, Disconnect(pl)
        PROVE  Told(q)
    <2>1. CASE q = pl
      BY <1>4, <2>1, Disconnected
    <2>2. CASE q # pl
      <3>1. queue'[q] = queue[q] /\ known'[q] = known[q] /\ lost'[q] = lost[q]
        BY <1>4, <2>2, Disconnected
      <3>2. Present \subseteq Present'
        BY <1>4, Disconnected, StaysPresent DEF Registered
      <3> HIDE DEF Told
      <3> QED
        BY <1>0, <3>1, <3>2
    <2> QED
      BY <2>1, <2>2
  <1> QED
    BY <1>1, <1>2, <1>3, <1>4, Kinds

(* A client of whose entities one has gone is about to be told, unless its *)
(* receiver lost an event of that entity: of the joins, listings, leaves,  *)
(* spawns and drains that overlap none leaves an entity in known_entities  *)
(* with nothing on its way to take it out.                                 *)
THEOREM GoneIsTold == Spec => []KnownGoneIsTold
  <1> DEFINE Inv == TypeInv /\ IdleKnowsNothing /\ JoiningIsUnheard /\ GoneInv
  <1>1. Init => Inv
    <2>1. Init => JoiningIsUnheard
      BY DEF Init, JoiningIsUnheard
    <2>2. Init => GoneInv
      BY DEF Init, GoneInv, KnownIsTold, SpawnedIsTold
    <2> QED
      BY <2>1, <2>2, TypeInit
  <1>2. Inv /\ [Next]_vars => Inv'
    BY TypeStep, JoiningStep, GoneStep
  <1>3. Inv => KnownGoneIsTold
    <2> SUFFICES ASSUME Inv, NEW pl \in Subscribed, NEW id \in known[pl] \ Alive
                 PROVE  \/ id \in lost[pl]
                        \/ \E i \in Coming(pl, id) : queue[pl][i].kind = "despawn"
      BY DEF KnownGoneIsTold
    <2>1. pl \in Players /\ id \notin Present
      BY DEF Subscribed, Present, Alive
    <2>2. DespawnFollows(pl, id, 0)
      BY <2>1 DEF GoneInv, KnownIsTold
    <2>3. queue[pl] \in Seq(Event)
      BY <2>1 DEF TypeInv, ChannelOK
    <2>4. DOMAIN queue[pl] = 1..Len(queue[pl])
      BY <2>3
    <2> QED
      BY <2>2, <2>4 DEF DespawnFollows, Coming
  <1>4. Spec => []Inv
    <2> HIDE DEF Inv
    <2> QED
      BY <1>1, <1>2, PTL DEF Spec
  <1> QED
    BY <1>3, <1>4, PTL

-----------------------------------------------------------------------------
(* A client follows what it knows                                          *)

LEMMA FollowQuiet ==
    ASSUME TypeInv, FollowInv, Quiet
    PROVE  FollowInv'
  <1> SUFFICES ASSUME NEW q \in Players, NEW o \in Registered'
               PROVE  /\ \A i \in 1..Len(queue'[q]) :
                           /\ queue'[q][i].id = Id(o)'
                           /\ \A j \in (i + 1)..Len(queue'[q]) : queue'[q][j].id # Id(o)'
                           => queue'[q][i].kind = "despawn" \/ queue'[q][i].at = told'[o]
                      /\ /\ Id(o)' \in known'[q] \ lost'[q]
                         /\ \A j \in 1..Len(queue'[q]) : queue'[q][j].id # Id(o)'
                         => shown'[q][Id(o)'] = told'[o]
    BY DEF FollowInv, LastIsTold, SettledIsTold
  <1>1. UNCHANGED <<queue, known, lost>> /\ \A id \in known[q] : shown'[q][id] = shown[q][id]
    BY DEF Quiet
  <1>2. CASE Unheard(Id(o)')
    BY <1>1, <1>2 DEF Unheard
  <1>3. CASE o \in Registered /\ Id(o)' = Id(o) /\ told'[o] = told[o]
    BY <1>1, <1>3 DEF FollowInv, LastIsTold, SettledIsTold
  <1> QED
    BY <1>2, <1>3 DEF Quiet

LEMMA FollowSpoken ==
    ASSUME TypeInv, ChannelOK', FollowInv, IdleKnowsNothing, NEW ev \in Event, Spoken(ev),
           NEW q \in Players, NEW o \in Registered
    PROVE  /\ \A i \in 1..Len(queue'[q]) :
                 queue'[q][i].id = Id(o) /\ (\A j \in (i + 1)..Len(queue'[q]) : queue'[q][j].id # Id(o))
                     => queue'[q][i].kind = "despawn" \/ queue'[q][i].at = told'[o]
           /\ Id(o) \in known'[q] \ lost'[q] /\ (\A j \in 1..Len(queue'[q]) : queue'[q][j].id # Id(o))
                     => shown'[q][Id(o)] = told'[o]
  <1>1. /\ q \notin Subscribed => queue'[q] = queue[q] /\ queue[q] = <<>> /\ known[q] = {}
        /\ q \in Subscribed => Hears(q, ev)
        /\ known' = known /\ shown' = shown
    BY Sent DEF Spoken, TypeInv, client_vars, IdleKnowsNothing
  <1>2. CASE q \notin Subscribed
    BY <1>1, <1>2
  <1>3. CASE q \in Subscribed
    <2>1. PICK k \in {0, 1} :
            /\ Slides(q, k) /\ Len(queue'[q]) = Len(queue[q]) - k + 1
            /\ queue'[q][Len(queue'[q])] = ev
            /\ lost[q] \subseteq lost'[q]
            /\ k = 1 => queue[q][1].id \in lost'[q]
      BY <1>1, <1>3 DEF Hears
    <2>2. /\ Len(queue[q]) \in Nat /\ Len(queue'[q]) \in Nat /\ Len(queue'[q]) >= 1
          /\ \A n \in 1..(Len(queue[q]) - k) :
               n + k \in 1..Len(queue[q]) /\ queue'[q][n] = queue[q][n + k]
          /\ \A n \in 1..Len(queue[q]) : n > k =>
               n - k \in 1..(Len(queue[q]) - k) /\ queue'[q][n - k] = queue[q][n]
      <3>1. k <= Len(queue[q])
        BY <2>1 DEF Slides
      <3> QED
        BY <2>1, <3>1, Places DEF TypeInv
    <2>3. IF ev.id = Id(o) THEN ev.kind = "despawn" \/ ev.at = told'[o] ELSE told'[o] = told[o]
      BY DEF Spoken
    <2>4. ASSUME NEW i \in 1..Len(queue'[q]), queue'[q][i].id = Id(o),
                 \A j \in (i + 1)..Len(queue'[q]) : queue'[q][j].id # Id(o)
          PROVE  queue'[q][i].kind = "despawn" \/ queue'[q][i].at = told'[o]
      <3>1. CASE i = Len(queue'[q])
        BY <2>1, <2>3, <2>4, <3>1
      <3>2. CASE i # Len(queue'[q])
        <4>1. i \in 1..(Len(queue[q]) - k) /\ Len(queue'[q]) \in (i + 1)..Len(queue'[q])
          BY <2>1, <2>2, <3>2
        <4>2. ev.id # Id(o) /\ told'[o] = told[o]
          BY <2>1, <2>3, <2>4, <4>1
        <4>3. i + k \in 1..Len(queue[q]) /\ queue'[q][i] = queue[q][i + k]
          BY <2>2, <4>1
        <4>4. ASSUME NEW j \in ((i + k) + 1)..Len(queue[q])
              PROVE  queue[q][j].id # Id(o)
          <5>1. j \in 1..Len(queue[q]) /\ j > k /\ j - k \in (i + 1)..Len(queue'[q])
            BY <2>1, <2>2, <4>1
          <5> QED
            BY <2>2, <2>4, <5>1
        <4> QED
          BY <2>4, <4>2, <4>3, <4>4 DEF FollowInv, LastIsTold
      <3> QED
        BY <3>1, <3>2
    <2>5. ASSUME Id(o) \in known'[q] \ lost'[q],
                 \A j \in 1..Len(queue'[q]) : queue'[q][j].id # Id(o)
          PROVE  shown'[q][Id(o)] = told'[o]
      <3>1. ev.id # Id(o) /\ told'[o] = told[o]
        BY <2>1, <2>2, <2>3, <2>5
      <3>2. ASSUME NEW j \in 1..Len(queue[q])
            PROVE  queue[q][j].id # Id(o)
        <4>1. CASE j > k
          <5>1. j - k \in 1..Len(queue'[q]) /\ queue'[q][j - k] = queue[q][j]
            BY <2>1, <2>2, <4>1
          <5> QED
            BY <2>5, <5>1
        <4>2. CASE ~(j > k)
          <5>1. k = 1 /\ j = 1
            BY <2>2, <4>2
          <5> QED
            BY <2>1, <2>5, <5>1
        <4> QED
          BY <4>1, <4>2
      <3>3. Id(o) \in known[q] \ lost[q]
        BY <1>1, <2>1, <2>5
      <3> QED
        BY <1>1, <3>1, <3>2, <3>3 DEF FollowInv, SettledIsTold
    <2> QED
      BY <2>4, <2>5
  <1> QED
    BY <1>2, <1>3

LEMMA FollowReceived ==
    ASSUME TypeInv, FollowInv, SpawnIsFirst, NEW q \in Players, Receive(q), NEW o \in Registered
    PROVE  /\ \A i \in 1..Len(queue'[q]) :
                 queue'[q][i].id = Id(o) /\ (\A j \in (i + 1)..Len(queue'[q]) : queue'[q][j].id # Id(o))
                     => queue'[q][i].kind = "despawn" \/ queue'[q][i].at = told[o]
           /\ Id(o) \in known'[q] \ lost'[q] /\ (\A j \in 1..Len(queue'[q]) : queue'[q][j].id # Id(o))
                     => shown'[q][Id(o)] = told[o]
  <1> DEFINE ev == queue[q][1]
  <1>1. /\ TypeInv' /\ Slides(q, 1) /\ Len(queue'[q]) = Len(queue[q]) - 1 /\ 1 \in 1..Len(queue[q])
        /\ known'[q] \ {ev.id} = known[q] \ {ev.id}
        /\ \A id \in known'[q] \ {ev.id} : shown'[q][id] = shown[q][id]
        /\ ev.id \in known'[q] /\ ev.kind = "spawn" /\ ev.id \notin known[q] => shown'[q][ev.id] = ev.at
        /\ ev.id \in known'[q] /\ ev.kind # "spawn" => ev.kind # "despawn" /\ shown'[q][ev.id] = ev.at
        /\ lost' = lost
    BY Received
  <1>2. /\ Len(queue[q]) \in Nat /\ Len(queue'[q]) \in Nat
        /\ \A n \in 1..(Len(queue[q]) - 1) :
               n + 1 \in 1..Len(queue[q]) /\ queue'[q][n] = queue[q][n + 1]
        /\ \A i \in 1..Len(queue[q]) : i > 1 =>
               i - 1 \in 1..Len(queue'[q]) /\ queue'[q][i - 1] = queue[q][i]
    BY <1>1, Places DEF TypeInv
  <1>3. ev.kind = "spawn" => ev.id \notin known[q]
    BY <1>1 DEF SpawnIsFirst
  <1>4. ASSUME NEW i \in 1..Len(queue[q]), queue[q][i].id = Id(o),
               \A j \in (i + 1)..Len(queue[q]) : queue[q][j].id # Id(o)
        PROVE  queue[q][i].kind = "despawn" \/ queue[q][i].at = told[o]
    BY <1>4 DEF FollowInv, LastIsTold
  <1>5. Id(o) \in known[q] \ lost[q] /\ (\A j \in 1..Len(queue[q]) : queue[q][j].id # Id(o))
            => shown[q][Id(o)] = told[o]
    BY DEF FollowInv, SettledIsTold
  <1> HIDE DEF ev
  <1>6. ASSUME NEW i \in 1..Len(queue'[q]), queue'[q][i].id = Id(o),
               \A j \in (i + 1)..Len(queue'[q]) : queue'[q][j].id # Id(o)
        PROVE  queue'[q][i].kind = "despawn" \/ queue'[q][i].at = told[o]
    <2>1. i + 1 \in 1..Len(queue[q]) /\ queue'[q][i] = queue[q][i + 1]
      BY <1>1, <1>2
    <2>2. ASSUME NEW j \in ((i + 1) + 1)..Len(queue[q])
          PROVE  queue[q][j].id # Id(o)
      <3>1. j \in 1..Len(queue[q]) /\ j > 1 /\ j - 1 \in (i + 1)..Len(queue'[q])
        BY <1>1, <1>2
      <3> QED
        BY <1>2, <1>6, <3>1
    <2>3. queue[q][i + 1].id = Id(o)
      BY <1>6, <2>1
    <2> QED
      BY <1>4, <2>1, <2>2, <2>3
  <1>7. ASSUME Id(o) \in known'[q] \ lost'[q],
               \A j \in 1..Len(queue'[q]) : queue'[q][j].id # Id(o)
        PROVE  shown'[q][Id(o)] = told[o]
    <2>1. ASSUME NEW j \in (1 + 1)..Len(queue[q])
          PROVE  queue[q][j].id # Id(o)
      <3>1. j \in 1..Len(queue[q]) /\ j > 1
        BY <1>2
      <3> QED
        BY <1>2, <1>7, <3>1
    <2>2. CASE ev.id = Id(o)
      <3>1. ev.kind = "despawn" \/ ev.at = told[o]
        BY <1>1, <1>4, <2>1, <2>2 DEF ev
      <3> QED
        BY <1>1, <1>3, <1>7, <2>2, <3>1
    <2>3. CASE ev.id # Id(o)
      <3>1. ASSUME NEW j \in 1..Len(queue[q])
            PROVE  queue[q][j].id # Id(o)
        <4>1. j = 1 \/ j \in (1 + 1)..Len(queue[q])
          BY <1>2
        <4> QED
          BY <2>1, <2>3, <4>1 DEF ev
      <3> QED
        BY <1>1, <1>5, <1>7, <2>3, <3>1
    <2> QED
      BY <2>2, <2>3
  <1> QED
    BY <1>6, <1>7

LEMMA FollowStep ==
    ASSUME TypeInv, TypeInv', IdleKnowsNothing, JoiningIsUnheard, SpawnIsFirst, FollowInv,
           [Next]_vars
    PROVE  FollowInv'
  <1> DEFINE Holds(q, o) ==
        /\ \A i \in 1..Len(queue'[q]) :
              queue'[q][i].id = Id(o) /\ (\A j \in (i + 1)..Len(queue'[q]) : queue'[q][j].id # Id(o))
                  => queue'[q][i].kind = "despawn" \/ queue'[q][i].at = told'[o]
        /\ Id(o) \in known'[q] \ lost'[q] /\ (\A j \in 1..Len(queue'[q]) : queue'[q][j].id # Id(o))
                  => shown'[q][Id(o)] = told'[o]
  <1>0. ASSUME Registered' \subseteq Registered, \A q \in Players : Id(q)' = Id(q),
               \A q \in Players, o \in Registered : Holds(q, o)
        PROVE  FollowInv'
    <2>1. ASSUME NEW q \in Players, NEW o \in Registered'
          PROVE  o \in Registered /\ Id(o)' = Id(o) /\ Holds(q, o)
      BY <1>0 DEF Registered
    <2> QED
      BY <2>1 DEF FollowInv, LastIsTold, SettledIsTold
  <1>a. ASSUME NEW q \in Players, NEW o \in Registered, queue'[q] = queue[q],
               known'[q] = known[q], lost'[q] = lost[q], shown'[q] = shown[q], told' = told
        PROVE  Holds(q, o)
    BY <1>a DEF FollowInv, LastIsTold, SettledIsTold
  <1>1. CASE Quiet
    BY <1>1, FollowQuiet
  <1>2. ASSUME NEW ev \in Event, Spoken(ev)
        PROVE  FollowInv'
    <2>1. \A q \in Players, o \in Registered : Holds(q, o)
      BY <1>2, FollowSpoken DEF TypeInv
    <2>2. Registered' = Registered /\ \A q \in Players : Id(q)' = Id(q)
      BY <1>2 DEF Spoken
    <2> HIDE DEF Holds
    <2> QED
      BY <1>0, <2>1, <2>2
  <1>3. ASSUME NEW pl \in Players, Receive(pl)
        PROVE  FollowInv'
    <2>1. /\ \A q \in Players \ {pl} :
                queue'[q] = queue[q] /\ known'[q] = known[q] /\ shown'[q] = shown[q]
          /\ UNCHANGED <<session, lost, told>>
      BY <1>3, Received
    <2>2. \A o \in Registered : Holds(pl, o)
      BY <1>3, <2>1, FollowReceived
    <2> HIDE DEF Holds
    <2>3. \A q \in Players, o \in Registered : Holds(q, o)
      BY <1>a, <2>1, <2>2
    <2>4. Registered' = Registered /\ \A q \in Players : Id(q)' = Id(q)
      BY <2>1 DEF Registered, Id
    <2> QED
      BY <1>0, <2>3, <2>4
  <1>4. ASSUME NEW pl \in Players, Disconnect(pl)
        PROVE  FollowInv'
    <2>1. \A o \in Registered : Holds(pl, o)
      BY <1>4, Disconnected
    <2> HIDE DEF Holds
    <2>2. \A q \in Players, o \in Registered : Holds(q, o)
      BY <1>4, <1>a, <2>1, Disconnected
    <2>3. Registered' \subseteq Registered /\ \A q \in Players : Id(q)' = Id(q)
      BY <1>4, Disconnected DEF Registered
    <2> QED
      BY <1>0, <2>2, <2>3
  <1> QED
    BY <1>1, <1>2, <1>3, <1>4, Kinds

(* Once the events of a known player are drained its client displays it    *)
(* where it was last announced, unless the receiver lost an event of it:   *)
(* whatever the play loops of all players do in between, the last event    *)
(* that is still to come says where the player is.                         *)
THEOREM ClientsFollow == Spec => []ClientFollows
  <1> DEFINE Inv == /\ TypeInv /\ IdleKnowsNothing /\ JoiningIsUnheard /\ SpawnIsFirst
                    /\ FollowInv
  <1>1. Init => Inv
    <2>1. Init => JoiningIsUnheard /\ SpawnIsFirst
      BY DEF Init, JoiningIsUnheard, SpawnIsFirst
    <2>2. Init => FollowInv
      BY DEF Init, FollowInv, LastIsTold, SettledIsTold, Registered
    <2> QED
      BY <2>1, <2>2, TypeInit
  <1>2. Inv /\ [Next]_vars => Inv'
    BY TypeStep, JoiningStep, SpawnStep, FollowStep
  <1>3. Inv => ClientFollows
    <2> SUFFICES ASSUME Inv, NEW pl \in Subscribed, NEW o \in Registered,
                        Id(o) \in (known[pl] \cap DOMAIN shown[pl]) \ lost[pl],
                        Coming(pl, Id(o)) = {}
                 PROVE  shown[pl][Id(o)] = told[o]
      BY DEF ClientFollows
    <2>1. pl \in Players /\ queue[pl] \in Seq(Event)
      BY DEF Subscribed, TypeInv, ChannelOK
    <2>2. \A j \in 1..Len(queue[pl]) : queue[pl][j].id # Id(o)
      BY <2>1 DEF Coming
    <2> QED
      BY <2>1, <2>2 DEF FollowInv, SettledIsTold
  <1>4. Spec => []Inv
    <2> HIDE DEF Inv
    <2> QED
      BY <1>1, <1>2, PTL DEF Spec
  <1> QED
    BY <1>3, <1>4, PTL

-----------------------------------------------------------------------------
(* Chunk streaming: types                                                      *)

Session == [stage: StreamingStages, at: ChunkPositions, center: ChunkPositions,
            radius: {MaxView} \cup (MinView..Larger(MaxView, MinView)),
            loaded: SUBSET ChunkPositions, todo: SUBSET ChunkPositions, streamed: BOOLEAN]

StoreOK ==
    /\ Loaded \subseteq ChunkPositions /\ store \in [Loaded -> SUBSET Edit]
    /\ region \in [ChunkPositions -> SUBSET Edit]
    /\ edits \in [ChunkPositions -> 0..MaxEdits]
    /\ exposed \in [ChunkPositions -> SUBSET Edit]

ClientsOK ==
    /\ connection \in [Viewers -> Session]
    /\ held \in [Viewers -> SUBSET ChunkPositions]
    /\ crossings \in 0..MaxCrossings

LoaderOK ==
    /\ needed \in SUBSET Queued /\ pending \in SUBSET Queued
    /\ job \in [Jobs -> SUBSET [pos: ChunkPositions, made: BOOLEAN]]
    /\ completed \in SUBSET ChunkPositions /\ draining \in SUBSET completed

LEMMA TypeParts == StreamingTypeOK <=> StoreOK /\ ClientsOK /\ LoaderOK
  BY DEF StreamingTypeOK, StoreOK, ClientsOK, LoaderOK, Session

LEMMA ViewType == \A c, r : View(c, r) \subseteq ChunkPositions
  BY DEF View

LEMMA EffectiveViewType ==
    EffectiveView \in {MaxView} \cup (MinView..Larger(MaxView, MinView))
  <1>1. MaxView \in Nat /\ MinView \in Nat
    BY StreamingAssumption
  <1> QED
    BY <1>1 DEF EffectiveView, Larger

LEMMA StreamingUpdated ==
    ASSUME connection \in [Viewers -> Session], NEW pl \in Viewers, NEW s, SetConnection(pl, s)
    PROVE  /\ connection'[pl] = s
           /\ \A q \in Viewers \ {pl} : connection'[q] = connection[q]
           /\ s \in Session => connection' \in [Viewers -> Session]
  BY DEF SetConnection

LEMMA StreamingSessionFields ==
    ASSUME connection \in [Viewers -> Session], NEW pl \in Viewers
    PROVE  /\ connection[pl] \in Session
           /\ connection[pl].stage \in StreamingStages
           /\ connection[pl].at \in ChunkPositions /\ connection[pl].center \in ChunkPositions
           /\ connection[pl].radius \in {MaxView} \cup (MinView..Larger(MaxView, MinView))
           /\ connection[pl].loaded \subseteq ChunkPositions
           /\ connection[pl].todo \subseteq ChunkPositions
           /\ connection[pl].streamed \in BOOLEAN
  BY DEF Session

LEMMA AwayType == Away \in Session
  BY StreamingAssumption DEF Away, Session, StreamingStages

LEMMA ContentType ==
    ASSUME StoreOK, NEW p \in ChunkPositions
    PROVE  Content(p) \subseteq Edit
  BY DEF StoreOK, Content

(* insert replaces what was at P by chunks that hold no edit.              *)
LEMMA Inserted ==
    ASSUME StoreOK, NEW P \in SUBSET ChunkPositions, InsertPristine(P)
    PROVE  /\ StoreOK'
           /\ \A p \in P : Content(p)' = {}
           /\ \A p \in ChunkPositions \ P : Content(p)' = Content(p)
           /\ \A p \in P : exposed'[p] = exposed[p] \cup Content(p)
           /\ \A p \in ChunkPositions \ P : exposed'[p] = exposed[p]
           /\ region' = region /\ edits' = edits
  <1>1. /\ Loaded' = Loaded \cup P
        /\ \A p \in Loaded' : store'[p] = IF p \in P THEN {} ELSE store[p]
        /\ store' \in [Loaded \cup P -> SUBSET Edit]
    BY DEF InsertPristine, Loaded, StoreOK
  <1>2. exposed' \in [ChunkPositions -> SUBSET Edit]
    BY ContentType DEF InsertPristine, StoreOK
  <1> QED
    BY <1>1, <1>2 DEF InsertPristine, StoreOK, Content

LEMMA StoreStep == StreamingTypeOK /\ StreamingNext => StoreOK'
  <1> SUFFICES ASSUME StreamingTypeOK, StreamingNext
               PROVE  StoreOK'
    OBVIOUS
  <1>0. StoreOK /\ ClientsOK /\ LoaderOK
    BY TypeParts
  <1>1. ASSUME UNCHANGED store_vars
        PROVE  StoreOK'
    BY <1>0, <1>1 DEF store_vars, StoreOK, Loaded
  <1>2. ASSUME NEW pl \in Viewers, NEW p \in ChunkPositions,
               InsertSpawnChunk(pl, p) \/ SendChunk(pl, p)
        PROVE  StoreOK'
    BY <1>0, <1>2, Inserted DEF InsertSpawnChunk, SendChunk
  <1>3. ASSUME NEW pl \in Viewers, NEW c \in ChunkPositions, Cross(pl, c)
        PROVE  StoreOK'
    <2>1. Predicted(pl, c) \subseteq ChunkPositions /\ InsertPristine(Predicted(pl, c))
      BY <1>3 DEF Predicted, Cross
    <2> HIDE DEF Predicted
    <2> QED
      BY <1>0, <2>1, Inserted
  <1>4. ASSUME NEW pl \in Viewers, SaveEvicted(pl)
        PROVE  StoreOK'
    <2> DEFINE dirty == DirtyEvicted(pl)
    <2>1. dirty \subseteq Loaded
      BY DEF DirtyEvicted
    <2>2. \A S \in SUBSET Loaded : Rewritten(S) \in [ChunkPositions -> SUBSET Edit]
      BY <1>0 DEF Rewritten, StoreOK
    <2>3. region' \in {region, Rewritten(dirty), Rewritten({})}
      BY <1>4 DEF SaveEvicted
    <2> HIDE DEF dirty
    <2>4. region' \in [ChunkPositions -> SUBSET Edit]
      BY <1>0, <2>1, <2>2, <2>3 DEF StoreOK
    <2>5. exposed' = [p \in ChunkPositions |->
             exposed[p] \cup ((region[p] \cup IF p \in dirty THEN store[p] ELSE {})
                                \ region'[p])]
      BY <1>4 DEF SaveEvicted, dirty
    <2>6. exposed' \in [ChunkPositions -> SUBSET Edit]
      BY <1>0, <2>1, <2>5 DEF StoreOK
    <2> QED
      BY <1>0, <1>4, <2>4, <2>6 DEF SaveEvicted, StoreOK, Loaded
  <1>5. ASSUME NEW pl \in Viewers, NEW p \in ChunkPositions, Forget(pl, p)
        PROVE  StoreOK'
    <2>1. Loaded' = Loaded \ {p} /\ store' \in [Loaded \ {p} -> SUBSET Edit]
      BY <1>0, <1>5 DEF Forget, Loaded, StoreOK
    <2> QED
      BY <1>0, <1>5, <2>1 DEF Forget, StoreOK
  <1>6. ASSUME NEW p \in ChunkPositions, Install(p)
        PROVE  StoreOK'
    BY <1>0, <1>6, Inserted DEF Install
  <1>7. ASSUME NEW p \in ChunkPositions, SetBlock(p)
        PROVE  StoreOK'
    <2>1. edits[p] + 1 \in Edit /\ edits[p] + 1 \in 0..MaxEdits
      BY <1>0, <1>7, StreamingAssumption DEF SetBlock, StoreOK, Edit
    <2>2. Loaded' = Loaded /\ store' \in [Loaded -> SUBSET Edit]
      BY <1>0, <1>7, <2>1 DEF SetBlock, StoreOK, Loaded
    <2>3. exposed' \in [ChunkPositions -> SUBSET Edit]
      BY <1>0, <1>7, <2>1 DEF SetBlock, StoreOK
    <2>4. edits' \in [ChunkPositions -> 0..MaxEdits]
      BY <1>0, <1>7, <2>1 DEF SetBlock, StoreOK
    <2> QED
      BY <1>0, <1>7, <2>2, <2>3, <2>4 DEF SetBlock, StoreOK
  <1>8. ASSUME NEW pl \in Viewers,
               \/ BeginJoin(pl) \/ Leave(pl) \/ RegisterPlayer(pl) \/ EnterPlay(pl)
               \/ FinishCrossing(pl) \/ (\E c \in ChunkPositions : Arrive(pl, c))
               \/ (\E p \in ChunkPositions : SendSpawnChunk(pl, p))
        PROVE  StoreOK'
    BY <1>1, <1>8 DEF BeginJoin, Leave, RegisterPlayer, EnterPlay, FinishCrossing, Arrive,
                      SendSpawnChunk
  <1>9. ASSUME \/ Request \/ Enqueue \/ DrainCompleted
               \/ \E j \in Jobs : Work(j)
        PROVE  StoreOK'
    BY <1>1, <1>9 DEF Request, Enqueue, DrainCompleted, Work, Generate, CompleteJob
  <1> QED
    BY <1>2, <1>3, <1>4, <1>5, <1>6, <1>7, <1>8, <1>9 DEF StreamingNext, Proceed, Drain

LEMMA ClientsStep == StreamingTypeOK /\ StreamingNext => ClientsOK'
  <1> SUFFICES ASSUME StreamingTypeOK, StreamingNext
               PROVE  ClientsOK'
    OBVIOUS
  <1>0. ClientsOK /\ connection \in [Viewers -> Session]
    BY TypeParts DEF ClientsOK
  <1>1. ASSUME NEW pl \in Viewers, NEW s \in Session, SetConnection(pl, s),
               held' \in [Viewers -> SUBSET ChunkPositions], crossings' \in 0..MaxCrossings
        PROVE  ClientsOK'
    BY <1>0, <1>1, StreamingUpdated DEF ClientsOK
  <1>2. \A pl \in Viewers, P \in SUBSET ChunkPositions :
            [held EXCEPT ![pl] = P] \in [Viewers -> SUBSET ChunkPositions]
    BY <1>0 DEF ClientsOK
  <1>3. \A pl \in Viewers : held[pl] \subseteq ChunkPositions
    BY <1>0 DEF ClientsOK
  <1>4. crossings < MaxCrossings => crossings + 1 \in 0..MaxCrossings
    BY <1>0, StreamingAssumption DEF ClientsOK
  <1>5. held \in [Viewers -> SUBSET ChunkPositions] /\ crossings \in 0..MaxCrossings
    BY <1>0 DEF ClientsOK
  <1>6. ASSUME UNCHANGED <<connection, held, crossings>>
        PROVE  ClientsOK'
    BY <1>0, <1>6 DEF ClientsOK
  <1>7. ASSUME NEW pl \in Viewers, BeginJoin(pl)
        PROVE  ClientsOK'
    <2> DEFINE s == [Away EXCEPT !.stage = "spawning", !.todo = View(Spawn, EffectiveView)]
    <2>1. s \in Session
      BY AwayType, ViewType DEF Session, StreamingStages
    <2>2. SetConnection(pl, s) /\ held' = held /\ crossings' = crossings + 1 /\ crossings < MaxCrossings
      BY <1>7 DEF BeginJoin
    <2> HIDE DEF s
    <2> QED
      BY <1>1, <1>4, <1>5, <2>1, <2>2
  <1>8. ASSUME NEW pl \in Viewers, NEW p \in ChunkPositions, InsertSpawnChunk(pl, p)
        PROVE  ClientsOK'
    <2> DEFINE s == [connection[pl] EXCEPT !.todo = @ \ {p}, !.loaded = @ \cup {p}]
    <2>1. s \in Session
      BY <1>0, StreamingSessionFields DEF Session
    <2>2. SetConnection(pl, s) /\ held' = held /\ crossings' = crossings
      BY <1>8 DEF InsertSpawnChunk
    <2> HIDE DEF s
    <2> QED
      BY <1>1, <1>5, <2>1, <2>2
  <1>9. ASSUME NEW pl \in Viewers, RegisterPlayer(pl)
        PROVE  ClientsOK'
    <2> DEFINE s(c) == [connection[pl] EXCEPT !.stage = "entering", !.at = c,
                                              !.todo = connection[pl].loaded]
    <2>1. \A c \in ChunkPositions : s(c) \in Session
      BY <1>0, StreamingSessionFields DEF Session, StreamingStages
    <2>2. PICK c \in ChunkPositions : SetConnection(pl, s(c))
      BY <1>9 DEF RegisterPlayer
    <2>3. held' = held /\ crossings' = crossings
      BY <1>9 DEF RegisterPlayer
    <2> HIDE DEF s
    <2> QED
      BY <1>1, <1>5, <2>1, <2>2, <2>3
  <1>10. ASSUME NEW pl \in Viewers, NEW p \in ChunkPositions, SendSpawnChunk(pl, p)
         PROVE  ClientsOK'
    <2> DEFINE s == [connection[pl] EXCEPT !.todo = @ \ {p}]
    <2>1. s \in Session
      BY <1>0, StreamingSessionFields DEF Session
    <2>2. SetConnection(pl, s) /\ held' = [held EXCEPT ![pl] = @ \cup {p}] /\ crossings' = crossings
      BY <1>10 DEF SendSpawnChunk
    <2>3. held' \in [Viewers -> SUBSET ChunkPositions]
      BY <1>5, <2>2
    <2> HIDE DEF s
    <2> QED
      BY <1>1, <1>5, <2>1, <2>2, <2>3
  <1>11. ASSUME NEW pl \in Viewers, EnterPlay(pl)
         PROVE  ClientsOK'
    <2> DEFINE s == [connection[pl] EXCEPT !.stage = "playing", !.radius = EffectiveView]
    <2>1. s \in Session
      BY <1>0, StreamingSessionFields, EffectiveViewType DEF Session, StreamingStages
    <2>2. SetConnection(pl, s) /\ held' = held /\ crossings' = crossings
      BY <1>11 DEF EnterPlay
    <2> HIDE DEF s
    <2> QED
      BY <1>1, <1>5, <2>1, <2>2
  <1>12. ASSUME NEW pl \in Viewers, Leave(pl)
         PROVE  ClientsOK'
    <2>1. SetConnection(pl, Away) /\ held' = [held EXCEPT ![pl] = {}] /\ crossings' = crossings
      BY <1>12 DEF Leave
    <2> QED
      BY <1>1, <1>2, <1>5, <2>1, AwayType
  <1>13. ASSUME NEW pl \in Viewers, NEW c \in ChunkPositions, Arrive(pl, c)
         PROVE  ClientsOK'
    <2> DEFINE s == [connection[pl] EXCEPT !.at = c]
    <2>1. s \in Session
      BY <1>0, StreamingSessionFields DEF Session
    <2>2. SetConnection(pl, s) /\ held' = held /\ crossings' = crossings + 1 /\ crossings < MaxCrossings
      BY <1>13 DEF Arrive
    <2> HIDE DEF s
    <2> QED
      BY <1>1, <1>4, <1>5, <2>1, <2>2
  <1>14. ASSUME NEW pl \in Viewers, NEW c \in ChunkPositions, Cross(pl, c)
         PROVE  ClientsOK'
    <2> DEFINE s(S) == [connection[pl] EXCEPT !.stage = "sending", !.at = c,
                                              !.center = c, !.todo = S]
    <2>1. \A S \in SUBSET NewChunks(pl, c) : s(S) \in Session
      BY <1>0, StreamingSessionFields, ViewType DEF Session, StreamingStages, NewChunks
    <2>2. PICK S \in SUBSET NewChunks(pl, c) : SetConnection(pl, s(S))
      BY <1>14 DEF Cross
    <2>3. held' = held /\ crossings' = crossings + 1 /\ crossings < MaxCrossings
      BY <1>14 DEF Cross
    <2> HIDE DEF s
    <2> QED
      BY <1>1, <1>4, <1>5, <2>1, <2>2, <2>3
  <1>15. ASSUME NEW pl \in Viewers, NEW p \in ChunkPositions, SendChunk(pl, p)
         PROVE  ClientsOK'
    <2> DEFINE s == [connection[pl] EXCEPT !.todo = @ \ {p}]
    <2>1. s \in Session
      BY <1>0, StreamingSessionFields DEF Session
    <2>2. SetConnection(pl, s) /\ held' = [held EXCEPT ![pl] = @ \cup {p}] /\ crossings' = crossings
      BY <1>15 DEF SendChunk
    <2>3. held' \in [Viewers -> SUBSET ChunkPositions]
      BY <1>5, <2>2
    <2> HIDE DEF s
    <2> QED
      BY <1>1, <1>5, <2>1, <2>2, <2>3
  <1>16. ASSUME NEW pl \in Viewers, SaveEvicted(pl)
         PROVE  ClientsOK'
    <2> DEFINE s == [connection[pl] EXCEPT !.stage = "forgetting", !.todo = Evicted(pl)]
    <2>1. s \in Session
      BY <1>0, StreamingSessionFields DEF Session, StreamingStages, Evicted
    <2>2. SetConnection(pl, s) /\ held' = held /\ crossings' = crossings
      BY <1>16 DEF SaveEvicted
    <2> HIDE DEF s
    <2> QED
      BY <1>1, <1>5, <2>1, <2>2
  <1>17. ASSUME NEW pl \in Viewers, NEW p \in ChunkPositions, Forget(pl, p)
         PROVE  ClientsOK'
    <2> DEFINE s == [connection[pl] EXCEPT !.todo = @ \ {p}]
    <2>1. s \in Session
      BY <1>0, StreamingSessionFields DEF Session
    <2>2. SetConnection(pl, s) /\ held' = [held EXCEPT ![pl] = held[pl] \ {p}] /\ crossings' = crossings
      BY <1>17 DEF Forget, Forgotten
    <2>3. held' \in [Viewers -> SUBSET ChunkPositions]
      BY <1>5, <2>2
    <2> HIDE DEF s
    <2> QED
      BY <1>1, <1>5, <2>1, <2>2, <2>3
  <1>18. ASSUME NEW pl \in Viewers, FinishCrossing(pl)
         PROVE  ClientsOK'
    <2> DEFINE s == [connection[pl] EXCEPT !.stage = "playing", !.streamed = TRUE,
                                           !.loaded = Tracked(connection[pl])]
    <2>1. s \in Session
      BY <1>0, StreamingSessionFields, ViewType DEF Session, StreamingStages, Tracked
    <2>2. SetConnection(pl, s) /\ held' = held /\ crossings' = crossings
      BY <1>18 DEF FinishCrossing
    <2> HIDE DEF s
    <2> QED
      BY <1>1, <1>5, <2>1, <2>2
  <1>19. ASSUME \/ Request \/ Enqueue \/ Drain
                \/ (\E j \in Jobs : Work(j))
                \/ (\E p \in ChunkPositions : SetBlock(p))
         PROVE  ClientsOK'
    BY <1>6, <1>19 DEF Request, Enqueue, Drain, DrainCompleted, Install, Work, Generate,
                       CompleteJob, SetBlock
  <1> QED
    BY <1>7, <1>8, <1>9, <1>10, <1>11, <1>12, <1>13, <1>14, <1>15, <1>16, <1>17,
       <1>18, <1>19 DEF StreamingNext, Proceed

LEMMA LoaderStep == StreamingTypeOK /\ StreamingNext => LoaderOK'
  <1> SUFFICES ASSUME StreamingTypeOK, StreamingNext
               PROVE  LoaderOK'
    OBVIOUS
  <1>0. LoaderOK /\ ClientsOK
    BY TypeParts
  <1>1. ASSUME UNCHANGED loader_vars
        PROVE  LoaderOK'
    BY <1>0, <1>1 DEF loader_vars, LoaderOK
  <1>2. ASSUME NEW pl \in Viewers,
               \/ BeginJoin(pl) \/ Leave(pl) \/ Proceed(pl)
               \/ \E c \in ChunkPositions : Arrive(pl, c) \/ Cross(pl, c)
        PROVE  LoaderOK'
    BY <1>1, <1>2 DEF BeginJoin, Leave, Arrive, Cross, Proceed, InsertSpawnChunk,
          SendSpawnChunk, SendChunk, Forget, RegisterPlayer, EnterPlay, SaveEvicted,
          FinishCrossing
  <1>3. ASSUME NEW p \in ChunkPositions, SetBlock(p)
        PROVE  LoaderOK'
    BY <1>1, <1>3 DEF SetBlock
  <1>4. CASE Request
    <2>1. \A pl \in Online : NeededBy(pl) \subseteq Queued
      BY DEF NeededBy, Priority, Queued, View
    <2>2. needed' = UNION {NeededBy(pl) : pl \in Online}
      BY <1>4 DEF Request
    <2>3. needed' \subseteq Queued
      BY <2>1, <2>2
    <2> QED
      BY <1>0, <1>4, <2>3 DEF Request, LoaderOK
  <1>5. CASE Enqueue
    <2>1. PICK S \in SUBSET needed :
            \E B \in SUBSET (pending \cup S) :
              /\ pending' = (pending \cup S) \ B
              /\ \/ B = {} /\ job' = job
                 \/ \E j \in Jobs :
                      job' = [job EXCEPT ![j] = {Slot(x.pos, FALSE) : x \in B}]
      BY <1>5 DEF Enqueue
    <2>2. PICK B \in SUBSET (pending \cup S) :
              /\ pending' = (pending \cup S) \ B
              /\ \/ B = {} /\ job' = job
                 \/ \E j \in Jobs :
                      job' = [job EXCEPT ![j] = {Slot(x.pos, FALSE) : x \in B}]
      BY <2>1
    <2>3. B \subseteq Queued /\ pending' \subseteq Queued
      BY <1>0, <2>2 DEF LoaderOK
    <2>4. {Slot(x.pos, FALSE) : x \in B} \subseteq [pos: ChunkPositions, made: BOOLEAN]
      <3>1. \A x \in B : x.pos \in ChunkPositions
        BY <2>3 DEF Queued
      <3>2. \A p \in ChunkPositions : Slot(p, FALSE) \in [pos: ChunkPositions, made: BOOLEAN]
        BY DEF Slot
      <3> QED
        BY <3>1, <3>2
    <2>5. job' \in [Jobs -> SUBSET [pos: ChunkPositions, made: BOOLEAN]]
      BY <1>0, <2>2, <2>4 DEF LoaderOK
    <2> QED
      BY <1>0, <1>5, <2>3, <2>5 DEF Enqueue, LoaderOK
  <1>6. ASSUME NEW j \in Jobs, NEW p \in ChunkPositions, Generate(j, p)
        PROVE  LoaderOK'
    <2>1. Slot(p, TRUE) \in [pos: ChunkPositions, made: BOOLEAN]
      BY DEF Slot
    <2> QED
      BY <1>0, <1>6, <2>1 DEF Generate, LoaderOK
  <1>7. ASSUME NEW j \in Jobs, NEW p \in ChunkPositions, CompleteJob(j, p)
        PROVE  LoaderOK'
    BY <1>0, <1>7 DEF CompleteJob, LoaderOK
  <1>8. CASE DrainCompleted
    BY <1>0, <1>8 DEF DrainCompleted, LoaderOK
  <1>9. ASSUME NEW p \in ChunkPositions, Install(p)
        PROVE  LoaderOK'
    BY <1>0, <1>9 DEF Install, LoaderOK
  <1> QED
    BY <1>2, <1>3, <1>4, <1>5, <1>6, <1>7, <1>8, <1>9 DEF StreamingNext, Work, Drain

LEMMA StreamingTypeStep == StreamingTypeOK /\ [StreamingNext]_streaming_vars => StreamingTypeOK'
  <1> SUFFICES ASSUME StreamingTypeOK, [StreamingNext]_streaming_vars
               PROVE  StreamingTypeOK'
    OBVIOUS
  <1>1. CASE UNCHANGED streaming_vars
    BY <1>1 DEF streaming_vars, store_vars, loader_vars, StreamingTypeOK, Loaded
  <1>2. CASE StreamingNext
    BY <1>2, StoreStep, ClientsStep, LoaderStep
    DEF StreamingTypeOK, StoreOK, ClientsOK, LoaderOK, Session
  <1> QED
    BY <1>1, <1>2

LEMMA StreamingTypeInit == StreamingInit => StreamingTypeOK
  <1> SUFFICES ASSUME StreamingInit
               PROVE  StreamingTypeOK
    OBVIOUS
  <1>1. StoreOK
    BY StreamingAssumption DEF StreamingInit, StoreOK, Loaded
  <1>2. ClientsOK
    BY StreamingAssumption, AwayType DEF StreamingInit, ClientsOK
  <1>3. LoaderOK
    BY DEF StreamingInit, LoaderOK
  <1> QED
    BY <1>1, <1>2, <1>3, TypeParts

(* Every variable of the streaming keeps its type; in particular no chunk  *)
(* and no position leaves the world, and what drain_completed still has to *)
(* install is in the loader's results.                                     *)
THEOREM StreamingTypeCorrect == StreamingSpec => []StreamingTypeOK
  BY StreamingTypeInit, StreamingTypeStep, PTL DEF StreamingSpec

-----------------------------------------------------------------------------
(* What the server knows of its clients                                    *)

(* What the connection task with record s, at each stage of a join or of a *)
(* crossing, knows of the chunks S that its client holds.                  *)
Knows(s, S) ==
    /\ s.stage \in {"away", "spawning"} => S = {}
    /\ s.stage \in {"away", "spawning", "entering"} => ~s.streamed
    /\ s.stage = "entering" => S \subseteq s.loaded /\ s.todo \subseteq s.loaded
    /\ s.stage = "playing" =>
         /\ S \subseteq s.loaded
         /\ s.streamed => s.loaded = Tracked(s)
    /\ s.stage = "sending" => S \subseteq s.loaded \cup Tracked(s) /\ s.todo \subseteq Tracked(s)
    /\ s.stage = "forgetting" => S \subseteq Tracked(s) \cup s.todo

ViewInv == \A pl \in Viewers : Knows(connection[pl], held[pl])

LEMMA ViewKept ==
    ASSUME StreamingTypeOK, ViewInv, NEW pl \in Viewers, NEW s, NEW S,
           SetConnection(pl, s), held' = [held EXCEPT ![pl] = S],
           Knows(s, S)
    PROVE  ViewInv'
  <1>1. ClientsOK /\ connection \in [Viewers -> Session]
    BY TypeParts DEF ClientsOK
  <1>2. /\ connection'[pl] = s
        /\ \A q \in Viewers \ {pl} : connection'[q] = connection[q]
    BY <1>1, StreamingUpdated
  <1>3. /\ held'[pl] = S
        /\ \A q \in Viewers \ {pl} : held'[q] = held[q]
    BY <1>1 DEF ClientsOK
  <1> HIDE DEF Knows
  <1> QED
    BY <1>2, <1>3 DEF ViewInv

LEMMA ViewStep == StreamingTypeOK /\ ViewInv /\ [StreamingNext]_streaming_vars => ViewInv'
  <1> SUFFICES ASSUME StreamingTypeOK, ViewInv, [StreamingNext]_streaming_vars
               PROVE  ViewInv'
    OBVIOUS
  <1>0. ClientsOK /\ connection \in [Viewers -> Session] /\ held \in [Viewers -> SUBSET ChunkPositions]
    BY TypeParts DEF ClientsOK
  <1>1. ASSUME UNCHANGED <<connection, held>>
        PROVE  ViewInv'
    BY <1>1 DEF ViewInv
  <1>2. ASSUME NEW pl \in Viewers, NEW s, SetConnection(pl, s), held' = held, Knows(s, held[pl])
        PROVE  ViewInv'
    <2>1. held' = [held EXCEPT ![pl] = held[pl]]
      BY <1>0, <1>2
    <2> HIDE DEF Knows
    <2> QED
      BY <1>2, <2>1, ViewKept
  <1>3. ASSUME NEW pl \in Viewers, BeginJoin(pl)
        PROVE  ViewInv'
    <2> DEFINE s == [Away EXCEPT !.stage = "spawning", !.todo = View(Spawn, EffectiveView)]
    <2>1. held[pl] = {}
      BY <1>3 DEF BeginJoin, ViewInv, Knows
    <2>2. Knows(s, held[pl])
      BY <2>1 DEF Knows, Away
    <2> QED
      BY <1>2, <1>3, <2>2 DEF BeginJoin
  <1>4. ASSUME NEW pl \in Viewers, NEW p \in ChunkPositions, InsertSpawnChunk(pl, p)
        PROVE  ViewInv'
    <2> DEFINE s == [connection[pl] EXCEPT !.todo = @ \ {p}, !.loaded = @ \cup {p}]
    <2>1. s.stage = "spawning" /\ s.streamed = connection[pl].streamed
      BY <1>0, <1>4, StreamingSessionFields DEF InsertSpawnChunk, Session
    <2>2. connection[pl].stage = "spawning" /\ Knows(connection[pl], held[pl])
      BY <1>4 DEF InsertSpawnChunk, ViewInv
    <2>3. SetConnection(pl, s) /\ held' = held
      BY <1>4 DEF InsertSpawnChunk
    <2> HIDE DEF s
    <2>4. Knows(s, held[pl])
      BY <2>1, <2>2 DEF Knows
    <2> QED
      BY <1>2, <2>3, <2>4
  <1>5. ASSUME NEW pl \in Viewers, RegisterPlayer(pl)
        PROVE  ViewInv'
    <2> DEFINE s(c) == [connection[pl] EXCEPT !.stage = "entering", !.at = c,
                                              !.todo = connection[pl].loaded]
    <2>1. PICK c \in ChunkPositions : SetConnection(pl, s(c))
      BY <1>5 DEF RegisterPlayer
    <2>2. /\ s(c).stage = "entering" /\ s(c).streamed = connection[pl].streamed
          /\ s(c).todo = s(c).loaded
      BY <1>0, StreamingSessionFields DEF Session
    <2>3. connection[pl].stage = "spawning" /\ Knows(connection[pl], held[pl]) /\ held' = held
      BY <1>5 DEF RegisterPlayer, ViewInv
    <2> HIDE DEF s
    <2>4. Knows(s(c), held[pl])
      BY <2>2, <2>3 DEF Knows
    <2> QED
      BY <1>2, <2>1, <2>3, <2>4
  <1>6. ASSUME NEW pl \in Viewers, NEW p \in ChunkPositions, SendSpawnChunk(pl, p)
        PROVE  ViewInv'
    <2> DEFINE s == [connection[pl] EXCEPT !.todo = @ \ {p}]
    <2>1. /\ SetConnection(pl, s) /\ held' = [held EXCEPT ![pl] = held[pl] \cup {p}]
          /\ connection[pl].stage = "entering" /\ p \in connection[pl].todo
      BY <1>6 DEF SendSpawnChunk
    <2>2. /\ s.stage = connection[pl].stage /\ s.streamed = connection[pl].streamed
          /\ s.loaded = connection[pl].loaded /\ s.todo = connection[pl].todo \ {p}
      BY <1>0, StreamingSessionFields DEF Session
    <2>3. Knows(connection[pl], held[pl])
      BY DEF ViewInv
    <2> HIDE DEF s
    <2>4. Knows(s, held[pl] \cup {p})
      BY <2>1, <2>2, <2>3 DEF Knows
    <2> QED
      BY <2>1, <2>4, ViewKept
  <1>7. ASSUME NEW pl \in Viewers, EnterPlay(pl)
        PROVE  ViewInv'
    <2> DEFINE s == [connection[pl] EXCEPT !.stage = "playing", !.radius = EffectiveView]
    <2>1. SetConnection(pl, s) /\ held' = held /\ connection[pl].stage = "entering"
      BY <1>7 DEF EnterPlay
    <2>2. /\ s.stage = "playing" /\ s.streamed = connection[pl].streamed
          /\ s.loaded = connection[pl].loaded
      BY <1>0, StreamingSessionFields DEF Session
    <2>3. Knows(connection[pl], held[pl])
      BY DEF ViewInv
    <2> HIDE DEF s
    <2>4. Knows(s, held[pl])
      BY <2>1, <2>2, <2>3 DEF Knows
    <2> QED
      BY <1>2, <2>1, <2>4
  <1>8. ASSUME NEW pl \in Viewers, Leave(pl)
        PROVE  ViewInv'
    <2>1. SetConnection(pl, Away) /\ held' = [held EXCEPT ![pl] = {}]
      BY <1>8 DEF Leave
    <2>2. Knows(Away, {})
      BY DEF Knows, Away
    <2> QED
      BY <2>1, <2>2, ViewKept
  <1>9. ASSUME NEW pl \in Viewers, NEW c \in ChunkPositions, Arrive(pl, c)
        PROVE  ViewInv'
    <2> DEFINE s == [connection[pl] EXCEPT !.at = c]
    <2>1. SetConnection(pl, s) /\ held' = held /\ connection[pl].stage = "playing"
      BY <1>9 DEF Arrive
    <2>2. /\ s.stage = connection[pl].stage /\ s.streamed = connection[pl].streamed
          /\ s.loaded = connection[pl].loaded /\ Tracked(s) = Tracked(connection[pl])
      BY <1>0, StreamingSessionFields DEF Session, Tracked
    <2>3. Knows(connection[pl], held[pl])
      BY DEF ViewInv
    <2> HIDE DEF s
    <2>4. Knows(s, held[pl])
      BY <2>1, <2>2, <2>3 DEF Knows
    <2> QED
      BY <1>2, <2>1, <2>4
  <1>10. ASSUME NEW pl \in Viewers, NEW c \in ChunkPositions, Cross(pl, c)
         PROVE  ViewInv'
    <2> DEFINE s(S) == [connection[pl] EXCEPT !.stage = "sending", !.at = c,
                                              !.center = c, !.todo = S]
    <2>1. PICK S \in SUBSET NewChunks(pl, c) : SetConnection(pl, s(S))
      BY <1>10 DEF Cross
    <2>2. held' = held /\ connection[pl].stage = "playing"
      BY <1>10 DEF Cross
    <2>3. /\ s(S).stage = "sending" /\ s(S).loaded = connection[pl].loaded
          /\ s(S).todo = S /\ s(S).center = c /\ s(S).radius = connection[pl].radius
      BY <1>0, StreamingSessionFields DEF Session
    <2>4. Knows(connection[pl], held[pl])
      BY DEF ViewInv
    <2> HIDE DEF s
    <2>5. S \subseteq Tracked(s(S))
      BY <2>3 DEF NewChunks, Tracked
    <2>6. Knows(s(S), held[pl])
      BY <2>2, <2>3, <2>4, <2>5 DEF Knows
    <2> QED
      BY <1>2, <2>1, <2>2, <2>6
  <1>11. ASSUME NEW pl \in Viewers, NEW p \in ChunkPositions, SendChunk(pl, p)
         PROVE  ViewInv'
    <2> DEFINE s == [connection[pl] EXCEPT !.todo = @ \ {p}]
    <2>1. /\ SetConnection(pl, s) /\ held' = [held EXCEPT ![pl] = held[pl] \cup {p}]
          /\ connection[pl].stage = "sending" /\ p \in connection[pl].todo
      BY <1>11 DEF SendChunk
    <2>2. /\ s.stage = connection[pl].stage /\ s.loaded = connection[pl].loaded
          /\ s.todo = connection[pl].todo \ {p} /\ Tracked(s) = Tracked(connection[pl])
      BY <1>0, StreamingSessionFields DEF Session, Tracked
    <2>3. Knows(connection[pl], held[pl])
      BY DEF ViewInv
    <2> HIDE DEF s
    <2>4. Knows(s, held[pl] \cup {p})
      BY <2>1, <2>2, <2>3 DEF Knows
    <2> QED
      BY <2>1, <2>4, ViewKept
  <1>12. ASSUME NEW pl \in Viewers, SaveEvicted(pl)
         PROVE  ViewInv'
    <2> DEFINE s == [connection[pl] EXCEPT !.stage = "forgetting", !.todo = Evicted(pl)]
    <2>1. SetConnection(pl, s) /\ held' = held /\ connection[pl].stage = "sending"
      BY <1>12 DEF SaveEvicted
    <2>2. /\ s.stage = "forgetting" /\ s.todo = Evicted(pl)
          /\ Tracked(s) = Tracked(connection[pl])
      BY <1>0, StreamingSessionFields DEF Session, Tracked
    <2>3. Knows(connection[pl], held[pl])
      BY DEF ViewInv
    <2>4. Evicted(pl) = connection[pl].loaded \ Tracked(connection[pl])
      BY DEF Evicted, Tracked
    <2> HIDE DEF s
    <2>5. Knows(s, held[pl])
      BY <2>1, <2>2, <2>3, <2>4 DEF Knows
    <2> QED
      BY <1>2, <2>1, <2>5
  <1>13. ASSUME NEW pl \in Viewers, NEW p \in ChunkPositions, Forget(pl, p)
         PROVE  ViewInv'
    <2> DEFINE s == [connection[pl] EXCEPT !.todo = @ \ {p}]
    <2>1. /\ SetConnection(pl, s) /\ held' = [held EXCEPT ![pl] = held[pl] \ {p}]
          /\ connection[pl].stage = "forgetting"
      BY <1>13 DEF Forget, Forgotten
    <2>2. /\ s.stage = connection[pl].stage
          /\ s.todo = connection[pl].todo \ {p} /\ Tracked(s) = Tracked(connection[pl])
      BY <1>0, StreamingSessionFields DEF Session, Tracked
    <2>3. Knows(connection[pl], held[pl])
      BY DEF ViewInv
    <2> HIDE DEF s
    <2>4. Knows(s, held[pl] \ {p})
      BY <2>1, <2>2, <2>3 DEF Knows
    <2> QED
      BY <2>1, <2>4, ViewKept
  <1>14. ASSUME NEW pl \in Viewers, FinishCrossing(pl)
         PROVE  ViewInv'
    <2> DEFINE s == [connection[pl] EXCEPT !.stage = "playing", !.streamed = TRUE,
                                           !.loaded = Tracked(connection[pl])]
    <2>1. /\ SetConnection(pl, s) /\ held' = held
          /\ connection[pl].stage = "forgetting" /\ connection[pl].todo = {}
      BY <1>14 DEF FinishCrossing
    <2>2. /\ s.stage = "playing" /\ s.loaded = Tracked(connection[pl])
          /\ Tracked(s) = Tracked(connection[pl])
      BY <1>0, StreamingSessionFields DEF Session, Tracked
    <2>3. Knows(connection[pl], held[pl])
      BY DEF ViewInv
    <2> HIDE DEF s
    <2>4. Knows(s, held[pl])
      BY <2>1, <2>2, <2>3 DEF Knows
    <2> QED
      BY <1>2, <2>1, <2>4
  <1>15. ASSUME \/ Request \/ Enqueue \/ Drain
                \/ (\E j \in Jobs : Work(j))
                \/ (\E p \in ChunkPositions : SetBlock(p))
         PROVE  ViewInv'
    BY <1>1, <1>15 DEF Request, Enqueue, Drain, DrainCompleted, Install, Work, Generate,
                       CompleteJob, SetBlock
  <1>16. CASE UNCHANGED streaming_vars
    BY <1>1, <1>16 DEF streaming_vars
  <1> QED
    BY <1>3, <1>4, <1>5, <1>6, <1>7, <1>8, <1>9, <1>10, <1>11, <1>12, <1>13,
       <1>14, <1>15, <1>16 DEF StreamingNext, Proceed

(* Between two crossings a client holds no chunk that the server does not  *)
(* track for it, and after one the server tracks exactly its view, however *)
(* the joins, crossings and evictions of all players overlap.              *)
THEOREM ClientsAreTracked == StreamingSpec => []ViewsAgree
  <1>1. StreamingInit => ViewInv
    BY DEF StreamingInit, ViewInv, Knows, Away
  <1>2. ViewInv => ViewsAgree
    BY DEF ViewInv, Knows, ViewsAgree, TrackerIsView, ClientForgets, Tracked
  <1> QED
    BY <1>1, <1>2, StreamingTypeInit, StreamingTypeStep, ViewStep, PTL DEF StreamingSpec

-----------------------------------------------------------------------------
(* Where the edits are                                                     *)

(* p's edits that need no chunk in the store.                              *)
Safe(p) == region[p] \cup exposed[p]

(* A chunk that is about to be forgotten holds nothing but safe edits.     *)
ForgetSafe(s) ==
    s.stage = "forgetting" => \A p \in s.todo \cap ChunkPositions : Content(p) \subseteq Safe(p)

EditInv ==
    /\ \A pl \in Viewers : ForgetSafe(connection[pl])
    /\ EditsAccountedFor

(* A step of the store that takes no edit back, and takes edits out of it  *)
(* only when they are safe.                                                *)
LEMMA EditsKept ==
    ASSUME EditInv, edits' = edits,
           \A p \in ChunkPositions : Safe(p) \subseteq Safe(p)',
           \A p \in ChunkPositions : Content(p) \subseteq Content(p)' \cup Safe(p)',
           \A p \in ChunkPositions : Content(p)' \subseteq Content(p),
           \A q \in Viewers : \/ connection'[q].stage # "forgetting"
                              \/ /\ connection[q].stage = "forgetting"
                                 /\ connection'[q].todo \subseteq connection[q].todo
                              \/ ForgetSafe(connection[q])'
    PROVE  EditInv'
  <1>1. EditsAccountedFor'
    <2> SUFFICES ASSUME NEW p \in ChunkPositions, NEW e \in 1..edits[p]
                 PROVE  e \in Content(p)' \cup region'[p] \cup exposed'[p]
      BY DEF EditsAccountedFor
    <2>1. e \in Content(p) \cup Safe(p)
      BY DEF EditInv, EditsAccountedFor, Safe
    <2> QED
      BY <2>1 DEF Safe
  <1>2. ASSUME NEW q \in Viewers
        PROVE  ForgetSafe(connection[q])'
    <2>1. CASE connection[q].stage = "forgetting" /\ connection'[q].todo \subseteq connection[q].todo
      <3>1. \A p \in connection[q].todo \cap ChunkPositions : Content(p) \subseteq Safe(p)
        BY <2>1 DEF EditInv, ForgetSafe
      <3>2. \A p \in connection'[q].todo \cap ChunkPositions : Content(p)' \subseteq Safe(p)'
        BY <2>1, <3>1
      <3> QED
        BY <3>2 DEF ForgetSafe
    <2> QED
      BY <2>1 DEF ForgetSafe
  <1> QED
    BY <1>1, <1>2 DEF EditInv

LEMMA EditsInsert ==
    ASSUME StreamingTypeOK, EditInv, NEW P \in SUBSET ChunkPositions, InsertPristine(P),
           \A q \in Viewers : \/ connection'[q] = connection[q]
                              \/ connection'[q].stage # "forgetting"
    PROVE  EditInv'
  <1>1. /\ \A p \in P : Content(p)' = {}
        /\ \A p \in ChunkPositions \ P : Content(p)' = Content(p)
        /\ \A p \in P : exposed'[p] = exposed[p] \cup Content(p)
        /\ \A p \in ChunkPositions \ P : exposed'[p] = exposed[p]
        /\ region' = region /\ edits' = edits
    BY Inserted, TypeParts
  <1>2. \A p \in ChunkPositions :
          /\ Safe(p) \subseteq Safe(p)' /\ Content(p)' \subseteq Content(p)
          /\ Content(p) \subseteq Content(p)' \cup Safe(p)'
    BY <1>1 DEF Safe
  <1> QED
    BY <1>1, <1>2, EditsKept

LEMMA EditsUntouched ==
    ASSUME EditInv, UNCHANGED store_vars,
           \A q \in Viewers : connection'[q] = connection[q] \/ connection'[q].stage # "forgetting"
    PROVE  EditInv'
  <1>1. \A p \in ChunkPositions : Safe(p)' = Safe(p) /\ Content(p)' = Content(p)
    BY DEF store_vars, Safe, Content, Loaded
  <1> QED
    BY <1>1, EditsKept DEF store_vars

LEMMA EditStep == StreamingTypeOK /\ EditInv /\ [StreamingNext]_streaming_vars => EditInv'
  <1> SUFFICES ASSUME StreamingTypeOK, EditInv, [StreamingNext]_streaming_vars
               PROVE  EditInv'
    OBVIOUS
  <1>0. StoreOK /\ connection \in [Viewers -> Session]
    BY TypeParts DEF ClientsOK
  <1>1. ASSUME NEW pl \in Viewers, NEW s, SetConnection(pl, s), s.stage # "forgetting"
        PROVE  \A q \in Viewers : connection'[q] = connection[q] \/ connection'[q].stage # "forgetting"
    BY <1>0, <1>1, StreamingUpdated
  <1>2. ASSUME NEW pl \in Viewers, BeginJoin(pl)
        PROVE  EditInv'
    <2>1. [Away EXCEPT !.stage = "spawning", !.todo = View(Spawn, EffectiveView)].stage
             # "forgetting"
      BY DEF Away
    <2> QED
      BY <1>1, <1>2, <2>1, EditsUntouched DEF BeginJoin
  <1>3. ASSUME NEW pl \in Viewers, NEW p \in ChunkPositions, InsertSpawnChunk(pl, p)
        PROVE  EditInv'
    <2> DEFINE s == [connection[pl] EXCEPT !.todo = @ \ {p}, !.loaded = @ \cup {p}]
    <2>1. s.stage # "forgetting"
      BY <1>0, <1>3, StreamingSessionFields DEF InsertSpawnChunk, Session
    <2>2. SetConnection(pl, s) /\ InsertPristine({p})
      BY <1>3 DEF InsertSpawnChunk
    <2> HIDE DEF s
    <2> QED
      BY <1>1, <2>1, <2>2, EditsInsert
  <1>4. ASSUME NEW pl \in Viewers, RegisterPlayer(pl)
        PROVE  EditInv'
    <2> DEFINE s(c) == [connection[pl] EXCEPT !.stage = "entering", !.at = c,
                                              !.todo = connection[pl].loaded]
    <2>1. PICK c \in ChunkPositions : SetConnection(pl, s(c))
      BY <1>4 DEF RegisterPlayer
    <2>2. s(c).stage # "forgetting"
      BY <1>0, StreamingSessionFields DEF Session
    <2> HIDE DEF s
    <2> QED
      BY <1>1, <1>4, <2>1, <2>2, EditsUntouched DEF RegisterPlayer
  <1>5. ASSUME NEW pl \in Viewers, NEW p \in ChunkPositions, SendSpawnChunk(pl, p)
        PROVE  EditInv'
    <2> DEFINE s == [connection[pl] EXCEPT !.todo = @ \ {p}]
    <2>1. SetConnection(pl, s) /\ s.stage # "forgetting"
      BY <1>0, <1>5, StreamingSessionFields DEF SendSpawnChunk, Session
    <2> HIDE DEF s
    <2> QED
      BY <1>1, <1>5, <2>1, EditsUntouched DEF SendSpawnChunk
  <1>6. ASSUME NEW pl \in Viewers, EnterPlay(pl)
        PROVE  EditInv'
    <2> DEFINE s == [connection[pl] EXCEPT !.stage = "playing", !.radius = EffectiveView]
    <2>1. SetConnection(pl, s) /\ s.stage # "forgetting"
      BY <1>0, <1>6, StreamingSessionFields DEF EnterPlay, Session
    <2> HIDE DEF s
    <2> QED
      BY <1>1, <1>6, <2>1, EditsUntouched DEF EnterPlay
  <1>7. ASSUME NEW pl \in Viewers, Leave(pl)
        PROVE  EditInv'
    <2>1. SetConnection(pl, Away) /\ Away.stage # "forgetting"
      BY <1>7 DEF Leave, Away
    <2> QED
      BY <1>1, <1>7, <2>1, EditsUntouched DEF Leave
  <1>8. ASSUME NEW pl \in Viewers, NEW c \in ChunkPositions, Arrive(pl, c)
        PROVE  EditInv'
    <2> DEFINE s == [connection[pl] EXCEPT !.at = c]
    <2>1. SetConnection(pl, s) /\ s.stage # "forgetting"
      BY <1>0, <1>8, StreamingSessionFields DEF Arrive, Session
    <2> HIDE DEF s
    <2> QED
      BY <1>1, <1>8, <2>1, EditsUntouched DEF Arrive
  <1>9. ASSUME NEW pl \in Viewers, NEW c \in ChunkPositions, Cross(pl, c)
        PROVE  EditInv'
    <2> DEFINE s(S) == [connection[pl] EXCEPT !.stage = "sending", !.at = c,
                                              !.center = c, !.todo = S]
    <2>1. PICK S \in SUBSET NewChunks(pl, c) : SetConnection(pl, s(S))
      BY <1>9 DEF Cross
    <2>2. s(S).stage # "forgetting"
      BY <1>0, StreamingSessionFields DEF Session
    <2>3. InsertPristine(Predicted(pl, c)) /\ Predicted(pl, c) \subseteq ChunkPositions
      BY <1>9 DEF Cross, Predicted
    <2> HIDE DEF s, Predicted
    <2> QED
      BY <1>1, <2>1, <2>2, <2>3, EditsInsert
  <1>10. ASSUME NEW pl \in Viewers, NEW p \in ChunkPositions, SendChunk(pl, p)
         PROVE  EditInv'
    <2> DEFINE s == [connection[pl] EXCEPT !.todo = @ \ {p}]
    <2>1. SetConnection(pl, s) /\ s.stage # "forgetting" /\ InsertPristine({p})
      BY <1>0, <1>10, StreamingSessionFields DEF SendChunk, Session
    <2> HIDE DEF s
    <2> QED
      BY <1>1, <2>1, EditsInsert
  <1>11. ASSUME NEW pl \in Viewers, SaveEvicted(pl)
         PROVE  EditInv'
    <2> DEFINE s == [connection[pl] EXCEPT !.stage = "forgetting", !.todo = Evicted(pl)]
               dirty == DirtyEvicted(pl)
    <2>1. SetConnection(pl, s) /\ s.todo = Evicted(pl) /\ s.stage = "forgetting"
      BY <1>0, <1>11, StreamingSessionFields DEF SaveEvicted, Session
    <2>2. /\ connection'[pl] = s
          /\ \A q \in Viewers \ {pl} : connection'[q] = connection[q]
      BY <1>0, <2>1, StreamingUpdated
    <2>3. \A p \in ChunkPositions : Content(p)' = Content(p)
      BY <1>11 DEF SaveEvicted, Content, Loaded
    <2>4. \A p \in ChunkPositions :
            exposed'[p] = exposed[p] \cup ((region[p] \cup IF p \in dirty THEN store[p] ELSE {})
                                             \ region'[p])
      BY <1>11 DEF SaveEvicted
    <2>5. \A p \in Evicted(pl) \cap ChunkPositions :
            Content(p) = IF p \in dirty THEN store[p] ELSE {}
      BY DEF DirtyEvicted, Content
    <2>6. edits' = edits
      BY <1>11 DEF SaveEvicted
    <2> HIDE DEF s, dirty
    <2>7. \A p \in ChunkPositions : Safe(p) \subseteq Safe(p)'
      BY <2>4 DEF Safe
    <2>8. \A p \in Evicted(pl) \cap ChunkPositions : Content(p)' \subseteq Safe(p)'
      BY <2>3, <2>4, <2>5 DEF Safe
    <2>9. ForgetSafe(connection[pl])'
      BY <2>1, <2>2, <2>8 DEF ForgetSafe
    <2>10. \A q \in Viewers : \/ connection'[q].stage # "forgetting"
                              \/ /\ connection[q].stage = "forgetting"
                                 /\ connection'[q].todo \subseteq connection[q].todo
                              \/ ForgetSafe(connection[q])'
      BY <2>2, <2>9
    <2> QED
      BY <2>3, <2>6, <2>7, <2>10, EditsKept
  <1>12. ASSUME NEW pl \in Viewers, NEW p \in ChunkPositions, Forget(pl, p)
         PROVE  EditInv'
    <2> DEFINE s == [connection[pl] EXCEPT !.todo = @ \ {p}]
    <2>1. /\ SetConnection(pl, s) /\ s.todo \subseteq connection[pl].todo
          /\ connection[pl].stage = "forgetting" /\ p \in connection[pl].todo
          /\ UNCHANGED <<region, edits, exposed>>
      BY <1>0, <1>12, StreamingSessionFields DEF Forget, Session
    <2>2. /\ connection'[pl] = s
          /\ \A q \in Viewers \ {pl} : connection'[q] = connection[q]
      BY <1>0, <2>1, StreamingUpdated
    <2>3. /\ Content(p)' = {}
          /\ \A q \in ChunkPositions \ {p} : Content(q)' = Content(q)
      BY <1>12 DEF Forget, Content, Loaded
    <2>4. Content(p) \subseteq Safe(p)
      BY <2>1 DEF EditInv, ForgetSafe
    <2>5. \A q \in ChunkPositions : Safe(q)' = Safe(q)
      BY <2>1 DEF Safe
    <2> HIDE DEF s
    <2>6. \A q \in Viewers : \/ connection'[q].stage # "forgetting"
                             \/ /\ connection[q].stage = "forgetting"
                                /\ connection'[q].todo \subseteq connection[q].todo
      BY <2>1, <2>2
    <2>7. \A q \in ChunkPositions : /\ Content(q)' \subseteq Content(q)
                                    /\ Content(q) \subseteq Content(q)' \cup Safe(q)'
      BY <2>3, <2>4, <2>5
    <2> QED
      BY <2>1, <2>5, <2>6, <2>7, EditsKept
  <1>13. ASSUME NEW pl \in Viewers, FinishCrossing(pl)
         PROVE  EditInv'
    <2> DEFINE s == [connection[pl] EXCEPT !.stage = "playing", !.streamed = TRUE,
                                           !.loaded = Tracked(connection[pl])]
    <2>1. SetConnection(pl, s) /\ s.stage # "forgetting"
      BY <1>0, <1>13, StreamingSessionFields DEF FinishCrossing, Session
    <2> HIDE DEF s
    <2> QED
      BY <1>1, <1>13, <2>1, EditsUntouched DEF FinishCrossing
  <1>14. CASE Request \/ Enqueue \/ DrainCompleted \/ \E j \in Jobs : Work(j)
    BY <1>14, EditsUntouched DEF Request, Enqueue, DrainCompleted, Work, Generate, CompleteJob
  <1>15. ASSUME NEW p \in ChunkPositions, Install(p)
         PROVE  EditInv'
    BY <1>15, EditsInsert DEF Install
  <1>16. ASSUME NEW p \in ChunkPositions, SetBlock(p)
         PROVE  EditInv'
    <2> DEFINE e == edits[p] + 1
               doomed == \E pl \in Viewers : connection[pl].stage = "forgetting"
                                             /\ p \in connection[pl].todo
    <2>1. /\ edits[p] \in Nat
          /\ edits'[p] = e /\ \A q \in ChunkPositions \ {p} : edits'[q] = edits[q]
          /\ region' = region /\ connection' = connection
      BY <1>0, <1>16 DEF SetBlock, StoreOK
    <2>2. /\ Content(p)' = Content(p) \cup {e}
          /\ \A q \in ChunkPositions \ {p} : Content(q)' = Content(q)
      BY <1>0, <1>16 DEF SetBlock, Content, Loaded, StoreOK
    <2>3. /\ exposed'[p] = IF doomed THEN exposed[p] \cup {e} ELSE exposed[p]
          /\ \A q \in ChunkPositions \ {p} : exposed'[q] = exposed[q]
      BY <1>0, <1>16 DEF SetBlock, StoreOK
    <2>4. \A q \in ChunkPositions : Safe(q) \subseteq Safe(q)'
      BY <2>1, <2>3 DEF Safe
    <2>5. EditsAccountedFor'
      <3> SUFFICES ASSUME NEW q \in ChunkPositions, NEW i \in 1..edits'[q]
                   PROVE  i \in Content(q)' \cup region'[q] \cup exposed'[q]
        BY DEF EditsAccountedFor
      <3>1. i \in 1..edits[q] \/ (q = p /\ i = e)
        BY <2>1
      <3> HIDE DEF e
      <3>2. CASE i \in 1..edits[q]
        <4>1. i \in Content(q) \cup Safe(q)
          BY <3>2 DEF EditInv, EditsAccountedFor, Safe
        <4> QED
          BY <2>2, <2>4, <4>1 DEF Safe
      <3>3. CASE q = p /\ i = e
        BY <2>2, <3>3
      <3> QED
        BY <3>1, <3>2, <3>3
    <2>6. ASSUME NEW pl \in Viewers, connection[pl].stage = "forgetting"
          PROVE  \A q \in connection[pl].todo \cap ChunkPositions : Content(q)' \subseteq Safe(q)'
      <3> TAKE q \in connection[pl].todo \cap ChunkPositions
      <3>1. Content(q) \subseteq Safe(q)
        BY <2>6 DEF EditInv, ForgetSafe
      <3>2. q = p => doomed
        BY <2>6
      <3> HIDE DEF e, doomed
      <3> QED
        BY <2>2, <2>3, <2>4, <3>1, <3>2 DEF Safe
    <2>7. \A pl \in Viewers : ForgetSafe(connection[pl])'
      BY <2>1, <2>6 DEF ForgetSafe
    <2> QED
      BY <2>5, <2>7 DEF EditInv
  <1>17. CASE UNCHANGED streaming_vars
    BY <1>17, EditsUntouched DEF streaming_vars
  <1> QED
    BY <1>2, <1>3, <1>4, <1>5, <1>6, <1>7, <1>8, <1>9, <1>10, <1>11, <1>12, <1>13,
       <1>14, <1>15, <1>16, <1>17 DEF StreamingNext, Proceed, Drain

(* A player's edit is in the store or in the region file, unless it met    *)
(* one of the windows the model records, whatever joins, crossings and     *)
(* loader jobs overlap.                                                    *)
THEOREM StreamedEditsAccountedFor == StreamingSpec => []EditsAccountedFor
  <1>1. StreamingInit => EditInv
    BY DEF StreamingInit, EditInv, EditsAccountedFor, ForgetSafe, Away
  <1>2. EditInv => EditsAccountedFor
    BY DEF EditInv
  <1> QED
    BY <1>1, <1>2, StreamingTypeInit, StreamingTypeStep, EditStep, PTL DEF StreamingSpec

-----------------------------------------------------------------------------
(* Varints: what is written is read again                                  *)

LEMMA DivMod ==
    ASSUME NEW a \in Nat, NEW b \in Nat \ {0}
    PROVE  /\ a \div b \in Nat /\ a % b \in 0..b - 1
           /\ a = b * (a \div b) + (a % b)
  OBVIOUS

LEMMA Remainder ==
    ASSUME NEW a \in Nat, NEW b \in Nat \ {0}, a < b
    PROVE  a % b = a
  OBVIOUS

LEMMA Steps ==
    ASSUME NEW n \in Nat
    PROVE  \A i \in 1..n : i \in 0..n /\ i # 0 /\ i \in Nat /\ i - 1 \in 0..n
  OBVIOUS

LEMMA StepBack ==
    ASSUME NEW n \in Nat, NEW i \in 0..n, i # 0
    PROVE  i \in 1..n /\ i - 1 \in 0..n /\ i - 1 < i /\ i \in Nat \ {0}
  OBVIOUS

LEMMA Shares ==
    ASSUME NEW b \in Nat, NEW q \in Nat, NEW d \in Nat, NEW r \in Nat, NEW p, p = b * q + d
    PROVE  p * r = q * (b * r) + d * r
<1>1. p * r = (b * q) * r + d * r
  OBVIOUS
<1>2. (b * q) * r = q * (b * r)
  OBVIOUS
<1> QED BY <1>1, <1>2

LEMMA Behind ==
    ASSUME NEW h \in Nat, NEW m \in Nat, NEW i \in 1..m, NEW j, j = h + i
    PROVE  j \in 1..h + m /\ ~(j <= h) /\ j - h = i
  OBVIOUS

(* Powers of the base.                                                     *)
LEMMA Powers ==
    /\ Power \in [Nat -> Nat] /\ Power[0] = 1
    /\ \A i \in Nat \ {0} : Power[i] = Base * Power[i - 1]
<1>0. Base \in Nat
  BY FramesAssumption
<1>1. PICK G : G = [k \in Nat |-> [v \in Nat |-> Base * v]]
  OBVIOUS
<1>2. G \in [Nat -> [Nat -> Nat]]
  BY <1>0, <1>1
<1> DEFINE Eq(g) == g = [i \in Nat |-> IF i = 0 THEN 1 ELSE Base * g[i - 1]]
<1>3. PICK V, one, S : V = Nat /\ one = 1 /\ S = Nat
  OBVIOUS
<1>4. one \in V /\ G \in [Nat -> [V -> V]] /\ S \in SUBSET Nat /\ 0 \in S /\ \A i \in S \ {0} : i - 1 \in S
  BY <1>2, <1>3
<1>5. /\ \E f \in [S -> V] : Proceeds(f, G, one, S)
      /\ \A f : Heeds(f, G, one, S, V) => f \in [S -> V] /\ Proceeds(f, G, one, S)
  BY <1>4, Recursive
<1>6. PICK f \in [Nat -> Nat] : f[0] = 1 /\ \A i \in Nat \ {0} : f[i] = Base * f[i - 1]
  BY <1>1, <1>3, <1>5 DEF Proceeds
<1>7. Eq(f)
  BY <1>6
<1>8. Eq(Power)
  <2>1. Power = CHOOSE g : Eq(g)
    BY DEF Power
  <2> HIDE DEF Eq
  <2> QED BY <1>7, <2>1
<1>9. Heeds(Power, G, one, S, V)
  BY <1>1, <1>3, <1>8 DEF Heeds
<1>10. Power \in [S -> V] /\ Proceeds(Power, G, one, S)
  BY <1>5, <1>9
<1> QED BY <1>1, <1>3, <1>10 DEF Proceeds

(* What is left of a value is divided by the base, digit by digit.         *)
LEMMA Shifts ==
    ASSUME NEW value \in Nat
    PROVE  /\ Shifted(value) \in [Nat -> Nat] /\ Shifted(value)[0] = value
           /\ \A i \in Nat \ {0} : Shifted(value)[i] = Shifted(value)[i - 1] \div Base
<1>0. Base \in Nat \ {0}
  BY FramesAssumption
<1>1. PICK G : G = [k \in Nat |-> [v \in Nat |-> v \div Base]]
  OBVIOUS
<1>2. G \in [Nat -> [Nat -> Nat]]
  BY <1>0, <1>1
<1> DEFINE Eq(g) == g = [i \in Nat |-> IF i = 0 THEN value ELSE g[i - 1] \div Base]
<1>3. PICK V, S : V = Nat /\ S = Nat
  OBVIOUS
<1>4. value \in V /\ G \in [Nat -> [V -> V]] /\ S \in SUBSET Nat /\ 0 \in S /\ \A i \in S \ {0} : i - 1 \in S
  BY <1>2, <1>3
<1>5. /\ \E f \in [S -> V] : Proceeds(f, G, value, S)
      /\ \A f : Heeds(f, G, value, S, V) => f \in [S -> V] /\ Proceeds(f, G, value, S)
  BY <1>4, Recursive
<1>6. PICK f \in [Nat -> Nat] : f[0] = value /\ \A i \in Nat \ {0} : f[i] = f[i - 1] \div Base
  BY <1>1, <1>3, <1>5 DEF Proceeds
<1>7. Eq(f)
  BY <1>6
<1>8. PICK rest : rest = Shifted(value)
  OBVIOUS
<1>9. Eq(rest)
  <2>1. Shifted(value) = CHOOSE g : Eq(g)
    BY DEF Shifted
  <2> HIDE DEF Eq
  <2> QED BY <1>7, <1>8, <2>1
<1>10. Heeds(rest, G, value, S, V)
  BY <1>1, <1>3, <1>9 DEF Heeds
<1>11. rest \in [S -> V] /\ Proceeds(rest, G, value, S)
  BY <1>5, <1>10
<1> QED BY <1>1, <1>3, <1>8, <1>11 DEF Proceeds

(* A value below the n-th power has n digits.                              *)
LEMMA Exhausted ==
    ASSUME NEW value \in Nat
    PROVE  \A n \in Nat : Shifted(value)[n] * Power[n] <= value
<1>0. Base \in Nat \ {0}
  BY FramesAssumption
<1>1. PICK rest \in [Nat -> Nat] : /\ rest = Shifted(value) /\ rest[0] = value
                                   /\ \A i \in Nat \ {0} : rest[i] = rest[i - 1] \div Base
  BY Shifts
<1> DEFINE Bad == {n \in Nat : ~(rest[n] * Power[n] <= value)}
<1>2. ASSUME NEW n \in Bad PROVE \E m \in Bad : m < n
  <2>1. n # 0
    BY <1>1, Powers
  <2>2. n - 1 \in Nat /\ n \in Nat \ {0} /\ n - 1 < n
    BY <2>1
  <2>3. rest[n] = rest[n - 1] \div Base /\ Power[n] = Base * Power[n - 1]
    BY <1>1, <2>2, Powers
  <2>4. PICK p, q, r \in Nat : p = rest[n - 1] /\ q = rest[n] /\ r = Power[n - 1]
    BY <1>1, <2>2, Powers
  <2>5. Base * q <= p
    <3>1. p = Base * (p \div Base) + (p % Base) /\ p % Base \in 0..Base - 1 /\ p \div Base \in Nat
      BY <1>0, DivMod
    <3>2. PICK b, c : b = Base * q /\ c = p % Base
      OBVIOUS
    <3> QED BY <1>0, <2>3, <2>4, <3>1
  <2>6. (Base * q) * r <= p * r
    <3>1. PICK b : b = Base * q
      OBVIOUS
    <3>2. b \in Nat /\ b <= p
      BY <1>0, <2>5, <3>1
    <3>3. b * r <= p * r
      BY <3>2
    <3> QED BY <3>1, <3>3
  <2>7. q * (Base * r) = (Base * q) * r
    BY <1>0
  <2>8. ~(q * (Base * r) <= value)
    BY <2>2, <2>3, <2>4
  <2>9. ~(p * r <= value)
    <3>1. PICK x, y : x = (Base * q) * r /\ y = p * r
      OBVIOUS
    <3>2. x \in Nat /\ y \in Nat /\ x <= y /\ ~(x <= value)
      BY <1>0, <2>6, <2>7, <2>8, <3>1
    <3> QED BY <3>1, <3>2
  <2> QED BY <2>2, <2>4, <2>9
<1>3. Bad = {}
  <2>1. Bad \in SUBSET Nat
    OBVIOUS
  <2> HIDE DEF Bad
  <2> QED BY <1>2, <2>1, NoneBad
<1> QED BY <1>1, <1>3

(* The bytes of a value.                                                   *)
Spelt(bytes, value) ==
    /\ bytes \in Seq(Digit) /\ Len(bytes) \in 1..VarIntBytes
    /\ bytes[Len(bytes)] < Base /\ \A k \in 1..Len(bytes) - 1 : bytes[k] >= Base
    /\ \A i \in 1..Len(bytes) : bytes[i] % Base = Shifted(value)[i - 1] % Base
    /\ Shifted(value)[Len(bytes)] = 0

LEMMA Written ==
    ASSUME NEW value \in 0..Word - 1
    PROVE  Spelt(WriteVarint(value), value)
<1>0. Base \in Nat \ {0} /\ Word \in Nat /\ VarIntBytes \in Nat \ {0} /\ Word <= Power[VarIntBytes]
  BY FramesAssumption
<1>01. value \in Nat /\ value < Word
  BY <1>0
<1>1. PICK rest \in [Nat -> Nat] : /\ rest = Shifted(value) /\ rest[0] = value
                                   /\ \A i \in Nat \ {0} : rest[i] = rest[i - 1] \div Base
  BY Shifts, <1>01
<1> DEFINE Done == {n \in 1..VarIntBytes : rest[n] = 0}
           Ends(n) == rest[n] = 0 /\ \A k \in 1..n - 1 : rest[k] # 0
<1>2. VarIntBytes \in Done
  <2>1. PICK r, p \in Nat : r = rest[VarIntBytes] /\ p = Power[VarIntBytes]
    BY <1>0, <1>1, Powers
  <2>2. r * p <= value
    BY <1>0, <1>01, <1>1, <2>1, Exhausted
  <2>3. value < p
    BY <1>0, <1>01, <2>1, Powers
  <2>4. r = 0
    <3>1. CASE r >= 1
      <4>1. p <= r * p
        BY <2>1, <3>1
      <4> QED BY <2>2, <2>3, <4>1
    <3> QED BY <2>1, <3>1
  <2>5. rest[VarIntBytes] = 0
    BY <2>1, <2>4
  <2>6. VarIntBytes \in 1..VarIntBytes
    BY <1>0
  <2> QED BY <2>5, <2>6
<1>3. PICK n \in Done : \A m \in Done : ~(m < n)
  <2>1. Done \in SUBSET Nat /\ Done # {}
    BY <1>2
  <2> HIDE DEF Done
  <2> QED BY <2>1, NoneBad
<1>4. n \in 1..VarIntBytes /\ Ends(n)
  <2>1. ASSUME NEW k \in 1..n - 1, rest[k] = 0 PROVE FALSE
    <3>1. k \in Done /\ k < n
      BY <1>0, <2>1
    <3> QED BY <1>3, <3>1
  <2> QED BY <2>1
<1>5. PICK size : size = CHOOSE m \in 1..VarIntBytes : Ends(m)
  OBVIOUS
<1>6. size \in 1..VarIntBytes /\ Ends(size)
  <2> HIDE DEF Ends
  <2> QED BY <1>4, <1>5
<1>7. WriteVarint(value) = [i \in 1..size |-> (rest[i - 1] % Base) + (IF i < size THEN Base ELSE 0)]
  BY <1>1, <1>5 DEF WriteVarint
<1>8. PICK bytes : bytes = WriteVarint(value)
  OBVIOUS
<1>9. ASSUME NEW i \in 1..size
      PROVE  /\ bytes[i] \in Digit /\ bytes[i] % Base = rest[i - 1] % Base
             /\ IF i < size THEN bytes[i] >= Base ELSE bytes[i] < Base
  <2>1. i - 1 \in Nat
    BY <1>6
  <2>2. PICK d : d = rest[i - 1] % Base
    OBVIOUS
  <2>3. d \in 0..Base - 1
    BY <1>0, <1>1, <2>1, <2>2, DivMod
  <2>4. bytes[i] = d + (IF i < size THEN Base ELSE 0)
    BY <1>7, <1>8, <2>2
  <2>5. d % Base = d /\ (d + Base) % Base = d
    BY <1>0, <2>3
  <2> QED BY <1>0, <2>2, <2>3, <2>4, <2>5 DEF Digit
<1>10. size \in Nat /\ bytes = [i \in 1..size |-> bytes[i]]
  BY <1>0, <1>6, <1>7, <1>8
<1>11. bytes \in Seq(Digit) /\ Len(bytes) = size
  <2>1. \A i \in 1..size : bytes[i] \in Digit
    BY <1>9
  <2>2. PICK m, D : m = size /\ D = Digit
    OBVIOUS
  <2>3. m \in Nat /\ bytes \in [1..m -> D]
    BY <1>10, <2>1, <2>2
  <2>4. bytes \in Seq(D)
    BY <2>3, SeqDef
  <2>5. Len(bytes) = m
    <3>1. Len(bytes) \in Nat /\ DOMAIN bytes = 1..Len(bytes) /\ DOMAIN bytes = 1..m
      BY <2>3, <2>4, LenProperties
    <3> QED BY <2>3, <3>1
  <2> QED BY <2>2, <2>4, <2>5
<1>12. bytes[size] < Base /\ \A k \in 1..size - 1 : bytes[k] >= Base
  BY <1>0, <1>6, <1>9
<1> QED BY <1>1, <1>6, <1>8, <1>9, <1>11, <1>12 DEF Spelt

(* There is one last byte at most.                                         *)
LEMMA OneSize ==
    ASSUME NEW bytes \in Seq(Digit), NEW n \in VarintSizes(bytes)
    PROVE  /\ VarintSizes(bytes) = {n} /\ (CHOOSE m \in VarintSizes(bytes) : TRUE) = n
           /\ n \in 1..VarIntBytes /\ n \in 1..Len(bytes)
<1>0. Base \in Nat \ {0} /\ VarIntBytes \in Nat \ {0}
  BY FramesAssumption
<1>1. \A m \in VarintSizes(bytes) : /\ m \in 1..VarIntBytes /\ m \in 1..Len(bytes) /\ bytes[m] < Base
                                    /\ \A k \in 1..m - 1 : bytes[k] >= Base
  BY <1>0 DEF VarintSizes
<1>2. \A m \in 1..Len(bytes) : bytes[m] \in Int
  BY <1>0 DEF Digit
<1>3. ASSUME NEW m \in VarintSizes(bytes), NEW l \in VarintSizes(bytes) PROVE ~(m < l)
  <2>1. SUFFICES ASSUME m < l PROVE FALSE
    OBVIOUS
  <2>2. m \in 1..l - 1 /\ bytes[m] < Base /\ bytes[m] \in Int
    BY <1>1, <1>2, <2>1
  <2> QED BY <1>0, <1>1, <2>2
<1>4. VarintSizes(bytes) = {n}
  BY <1>1, <1>3
<1> QED BY <1>1, <1>4

(* The value is summed up byte by byte.                                    *)
Sums(val, bytes, size) ==
    /\ val \in [0..size -> Nat] /\ val[0] = 0
    /\ \A i \in 1..size : val[i] = val[i - 1] + (bytes[i] % Base) * Power[i - 1]

LEMMA SummedUp ==
    ASSUME NEW bytes \in Seq(Digit), NEW size \in 1..Len(bytes)
    PROVE  \E val : Sums(val, bytes, size) /\ ValueOf(bytes, size) = val[size] % Word
<1>0. Base \in Nat \ {0} /\ Word \in Nat \ {0}
  BY FramesAssumption
<1>2. size \in Nat \ {0}
  OBVIOUS
<1>02. size \in Nat \ {0}
  BY <1>2
<1>6. \A i \in 1..size : i - 1 \in Nat /\ bytes[i] % Base \in 0..Base - 1
  <2> SUFFICES ASSUME NEW i \in 1..size PROVE i - 1 \in Nat /\ bytes[i] % Base \in 0..Base - 1
    OBVIOUS
  <2>1. bytes[i] \in Digit
    OBVIOUS
  <2>2. PICK a \in Nat : a = bytes[i]
    BY <1>0, <2>1 DEF Digit
  <2>3. a % Base \in 0..Base - 1
    BY <1>0, DivMod
  <2>4. i - 1 \in Nat
    BY <1>02
  <2> QED BY <2>2, <2>3, <2>4
<1>7. PICK C \in [Nat -> Nat] : \A i \in 1..size : C[i] = (bytes[i] % Base) * Power[i - 1]
  <2>1. \A i \in 1..size : (bytes[i] % Base) * Power[i - 1] \in Nat
    <3> SUFFICES ASSUME NEW i \in 1..size PROVE (bytes[i] % Base) * Power[i - 1] \in Nat
      OBVIOUS
    <3>1. PICK a, b : a = bytes[i] % Base /\ b = Power[i - 1]
      OBVIOUS
    <3>2. a \in Nat /\ b \in Nat
      BY <1>0, <1>6, <3>1, Powers
    <3>3. a * b \in Nat
      BY <3>2
    <3> QED BY <3>1, <3>3
  <2>2. PICK C : C = [i \in Nat |-> IF i \in 1..size THEN (bytes[i] % Base) * Power[i - 1] ELSE 0]
    OBVIOUS
  <2>3. C \in [Nat -> Nat]
    BY <2>1, <2>2
  <2>4. 1..size \subseteq Nat
    OBVIOUS
  <2> QED BY <2>2, <2>3, <2>4
<1>8. PICK G : G = [k \in Nat |-> [v \in Nat |-> v + C[k]]]
  OBVIOUS
<1>9. G \in [Nat -> [Nat -> Nat]]
  <2>1. \A k \in Nat : C[k] \in Nat
    BY <1>7
  <2>2. ASSUME NEW k \in Nat PROVE [v \in Nat |-> v + C[k]] \in [Nat -> Nat]
    <3>1. PICK c \in Nat : c = C[k]
      BY <2>1
    <3>2. \A v \in Nat : v + c \in Nat
      OBVIOUS
    <3> QED BY <3>1, <3>2
  <2> QED BY <1>8, <2>2
<1> DEFINE Eq(g) == g = [i \in 0..size |-> IF i = 0 THEN 0 ELSE g[i - 1] + (bytes[i] % Base) * Weight(i)]
<1>10. PICK V, S, zero : V = Nat /\ S = 0..size /\ zero = 0
  OBVIOUS
<1>11. /\ zero \in V /\ G \in [Nat -> [V -> V]] /\ S \in SUBSET Nat /\ 0 \in S
       /\ \A i \in S \ {0} : i - 1 \in S
  <2>1. \A i \in 0..size : i \in Nat /\ (i # 0 => i - 1 \in 0..size)
    BY <1>2
  <2>2. 0 \in 0..size
    BY <1>2
  <2> QED BY <1>9, <1>10, <2>1, <2>2
<1>12. /\ \E f \in [S -> V] : Proceeds(f, G, zero, S)
       /\ \A f : Heeds(f, G, zero, S, V) => f \in [S -> V] /\ Proceeds(f, G, zero, S)
  BY <1>11, Recursive
<1>13. \A i \in 1..size : Weight(i) = Power[i - 1] /\ C[i] = (bytes[i] % Base) * Weight(i) /\ C[i] \in Nat
  <2>1. ASSUME NEW i \in 1..size PROVE i \in Nat /\ C[i] \in Nat
    <3>1. i \in Nat
      BY <1>02
    <3> QED BY <1>7, <3>1
  <2>2. \A i \in 1..size : Weight(i) = Power[i - 1]
    BY DEF Weight
  <2> QED BY <1>7, <2>1, <2>2
<1>14. PICK f \in [0..size -> Nat] : f[0] = 0 /\ \A i \in 1..size : f[i] = f[i - 1] + C[i]
  <2>1. PICK f \in [S -> V] : Proceeds(f, G, zero, S)
    BY <1>12
  <2>2. \A i \in 1..size : i \in S \ {0} /\ i \in Nat /\ i - 1 \in S /\ f[i - 1] \in Nat
    <3>1. \A i \in 1..size : i \in 0..size /\ i # 0 /\ i \in Nat /\ i - 1 \in 0..size
      BY <1>02, Steps
    <3> QED BY <1>10, <2>1, <3>1
  <2>3. f[0] = 0 /\ \A i \in 1..size : f[i] = f[i - 1] + C[i]
    BY <1>8, <1>10, <2>1, <2>2 DEF Proceeds
  <2> QED BY <1>10, <2>1, <2>3
<1>15. Eq(f)
  <2>1. \A i \in 0..size : i = 0 \/ i \in 1..size
    OBVIOUS
  <2>2. \A i \in 0..size : f[i] = IF i = 0 THEN 0 ELSE f[i - 1] + (bytes[i] % Base) * Weight(i)
    BY <1>13, <1>14, <2>1
  <2> QED BY <2>2
<1>16. PICK val : val = (CHOOSE g : Eq(g)) /\ Eq(val)
  <2> HIDE DEF Eq
  <2> QED BY <1>15
<1>17. ValueOf(bytes, size) = val[size] % Word
  BY <1>16 DEF ValueOf
<1>18. Heeds(val, G, zero, S, V)
  <2>1. \A i \in 0..size : i = 0 \/ i \in 1..size
    OBVIOUS
  <2>2. \A i \in 0..size : val[i] = IF i = 0 THEN 0 ELSE val[i - 1] + (bytes[i] % Base) * Weight(i)
    BY <1>16
  <2>3. val[0] = 0 /\ \A i \in 1..size : val[i] = val[i - 1] + C[i]
    <3>1. 0 \in 0..size /\ \A i \in 1..size : i \in 0..size /\ i # 0
      BY <1>02
    <3>2. val[0] = 0
      BY <2>2, <3>1
    <3>3. \A i \in 1..size : val[i] = val[i - 1] + (bytes[i] % Base) * Weight(i)
      BY <2>2, <3>1
    <3> QED BY <1>13, <3>2, <3>3
  <2>4. val = [i \in 0..size |-> val[i]]
    BY <1>16
  <2>5. \A i \in S \ {0} : i \in 1..size /\ i \in Nat
    BY <1>2, <1>10
  <2>6. ASSUME NEW i \in S \ {0}, val[i - 1] \in V PROVE val[i] = G[i][val[i - 1]]
    <3>1. i \in Nat /\ val[i] = val[i - 1] + C[i] /\ val[i - 1] \in Nat
      BY <1>10, <2>3, <2>5, <2>6
    <3> QED BY <1>8, <3>1
  <2> QED BY <1>10, <2>3, <2>4, <2>6 DEF Heeds
<1>19. val \in [0..size -> Nat] /\ val[0] = 0 /\ \A i \in 1..size : val[i] = val[i - 1] + C[i]
  <2>1. val \in [S -> V] /\ Proceeds(val, G, zero, S)
    BY <1>12, <1>18
  <2>2. \A i \in 1..size : i \in S \ {0} /\ i \in Nat /\ i - 1 \in S /\ val[i - 1] \in Nat
    <3>1. \A i \in 1..size : i \in 0..size /\ i # 0 /\ i \in Nat /\ i - 1 \in 0..size
      BY <1>02, Steps
    <3> QED BY <1>10, <2>1, <3>1
  <2> QED BY <1>8, <1>10, <2>1, <2>2 DEF Proceeds
<1>20. Sums(val, bytes, size)
  BY <1>7, <1>19 DEF Sums
<1> QED BY <1>17, <1>20

LEMMA Found ==
    ASSUME NEW value \in 0..Word - 1, NEW bytes \in Seq(Digit), NEW size, size = Len(WriteVarint(value)),
           size <= Len(bytes), \A i \in 1..size : bytes[i] = WriteVarint(value)[i]
    PROVE  VarintSizes(bytes) = {size} /\ ValueOf(bytes, size) = value
<1>0. Base \in Nat \ {0} /\ Word \in Nat \ {0} /\ VarIntBytes \in Nat \ {0}
  BY FramesAssumption
<1>01. value \in Nat /\ value < Word
  BY <1>0
<1>1. PICK written : written = WriteVarint(value)
  OBVIOUS
<1>2. /\ written \in Seq(Digit) /\ size = Len(written) /\ size \in 1..VarIntBytes
      /\ written[size] < Base /\ \A k \in 1..size - 1 : written[k] >= Base
      /\ \A i \in 1..size : written[i] % Base = Shifted(value)[i - 1] % Base
      /\ Shifted(value)[size] = 0 /\ size \in Nat \ {0}
  BY <1>0, <1>1, Written DEF Spelt
<1>02. size \in Nat \ {0}
  BY <1>2
<1>3. size \in VarintSizes(bytes)
  BY <1>0, <1>1, <1>2 DEF VarintSizes
<1>4. VarintSizes(bytes) = {size}
  BY <1>3, OneSize
<1>5. PICK rest \in [Nat -> Nat] : /\ rest = Shifted(value) /\ rest[0] = value
                                   /\ \A i \in Nat \ {0} : rest[i] = rest[i - 1] \div Base
  BY Shifts, <1>01
<1>6. ASSUME NEW i \in 1..size
      PROVE  i - 1 \in Nat /\ bytes[i] % Base = rest[i - 1] % Base /\ bytes[i] % Base \in 0..Base - 1
  <2>1. i - 1 \in Nat /\ rest[i - 1] \in Nat
    BY <1>0, <1>2, <1>5
  <2>2. rest[i - 1] % Base \in 0..Base - 1
    <3>1. PICK a : a = rest[i - 1]
      OBVIOUS
    <3>2. a \in Nat
      BY <2>1, <3>1
    <3> QED BY <1>0, <3>1, <3>2, DivMod
  <2>3. bytes[i] % Base = rest[i - 1] % Base
    BY <1>1, <1>2, <1>5
  <2> QED BY <2>1, <2>2, <2>3
<1>7. PICK val : Sums(val, bytes, size) /\ ValueOf(bytes, size) = val[size] % Word
  <2>1. size \in 1..Len(bytes)
    BY <1>02
  <2> QED BY <2>1, SummedUp
<1>17. ValueOf(bytes, size) = val[size] % Word
  BY <1>7
<1>19. val \in [0..size -> Nat] /\ val[0] = 0
       /\ \A i \in 1..size : val[i] = val[i - 1] + (bytes[i] % Base) * Power[i - 1]
  BY <1>7 DEF Sums
<1> DEFINE Bad == {i \in 0..size : ~(val[i] + rest[i] * Power[i] = value)}
<1>20. ASSUME NEW i \in Bad PROVE \E m \in Bad : m < i
  <2>1. i \in 0..size /\ ~(val[i] + rest[i] * Power[i] = value)
    OBVIOUS
  <2>2. i # 0
    <3>1. val[0] + rest[0] * Power[0] = value
      BY <1>01, <1>5, <1>19, Powers
    <3> QED BY <2>1, <3>1
  <2>3. i \in 1..size /\ i - 1 \in 0..size /\ i - 1 < i /\ i \in Nat \ {0}
    BY <1>02, <2>1, <2>2, StepBack
  <2>4. val[i] = val[i - 1] + (bytes[i] % Base) * Power[i - 1]
    BY <1>19, <2>3
  <2>5. PICK u, p, q, r, d : u = val[i - 1] /\ p = rest[i - 1] /\ q = rest[i] /\ r = Power[i - 1] /\ d = bytes[i] % Base
    OBVIOUS
  <2>6. u \in Nat /\ p \in Nat /\ q \in Nat /\ r \in Nat /\ d \in Nat
    <3>1. val[i - 1] \in Nat /\ rest[i - 1] \in Nat /\ rest[i] \in Nat /\ Power[i - 1] \in Nat
      BY <1>5, <1>6, <1>19, <2>3, Powers
    <3>2. bytes[i] % Base \in Nat
      BY <1>0, <1>6, <2>3
    <3> QED BY <2>5, <3>1, <3>2
  <2>7. p = Base * q + d
    <3>1. p = Base * (p \div Base) + (p % Base)
      BY <1>0, <2>6, DivMod
    <3>2. q = p \div Base /\ d = p % Base
      BY <1>5, <1>6, <2>3, <2>5
    <3> QED BY <3>1, <3>2
  <2>8. Power[i] = Base * r
    BY <2>3, <2>5, Powers
  <2>9. p * r = q * (Base * r) + d * r
    BY <1>0, <2>6, <2>7, Shares
  <2>10. ~((u + d * r) + q * (Base * r) = value)
    BY <2>1, <2>4, <2>5, <2>8
  <2>11. ~(u + p * r = value)
    <3>1. PICK x, y, z : x = d * r /\ y = q * (Base * r) /\ z = p * r
      OBVIOUS
    <3>2. x \in Nat /\ y \in Nat /\ z = y + x
      BY <1>0, <2>6, <2>9, <3>1
    <3>3. ~((u + x) + y = value)
      BY <2>10, <3>1
    <3>4. ~(u + z = value)
      BY <2>6, <3>2, <3>3
    <3> QED BY <3>1, <3>4
  <2>12. i - 1 \in Bad
    BY <2>3, <2>5, <2>11
  <2> QED BY <2>3, <2>12
<1>21. Bad = {}
  <2>1. Bad \in SUBSET Nat
    OBVIOUS
  <2> HIDE DEF Bad
  <2> QED BY <1>20, <2>1, NoneBad
<1>22. val[size] = value
  <2>1. size \in 0..size /\ size \in Nat
    BY <1>2
  <2>2. val[size] + rest[size] * Power[size] = value /\ rest[size] = 0
    BY <1>2, <1>5, <1>21, <2>1
  <2>3. PICK a, b : a = val[size] /\ b = Power[size]
    OBVIOUS
  <2>4. a \in Nat /\ b \in Nat /\ a + 0 * b = value
    BY <1>19, <2>1, <2>2, <2>3, Powers
  <2>5. a = value
    BY <2>4
  <2> QED BY <2>3, <2>5
<1>23. value % Word = value
  <2>1. PICK a, b : a = value /\ b = Word
    OBVIOUS
  <2>2. a \in Nat /\ b \in Nat \ {0} /\ a < b
    BY <1>0, <1>01, <2>1
  <2>4. a % b = a
    BY <2>2, Remainder
  <2> QED BY <2>1, <2>4
<1> QED BY <1>4, <1>17, <1>22, <1>23

(* Before the last byte there is no size.                                  *)
LEMMA NotYet ==
    ASSUME NEW value \in 0..Word - 1, NEW bytes \in Seq(Digit), Len(bytes) < Len(WriteVarint(value)),
           \A i \in 1..Len(bytes) : bytes[i] = WriteVarint(value)[i]
    PROVE  VarintSizes(bytes) = {}
<1>1. PICK written : written = WriteVarint(value)
  OBVIOUS
<1>2. written \in Seq(Digit) /\ \A k \in 1..Len(written) - 1 : written[k] >= Base
  BY <1>1, Written DEF Spelt
<1>3. Base \in Nat \ {0} /\ VarIntBytes \in Nat
  BY FramesAssumption
<1>4. \A n \in VarintSizes(bytes) : n \in 1..Len(bytes) /\ bytes[n] < Base
  BY <1>3 DEF VarintSizes
<1>5. ASSUME NEW n \in VarintSizes(bytes) PROVE FALSE
  <2>1. n \in 1..Len(bytes) /\ bytes[n] < Base
    BY <1>4
  <2>2. n \in 1..Len(written) - 1 /\ written[n] = bytes[n] /\ n \in 1..Len(written)
    BY <1>1, <2>1
  <2>3. written[n] \in Digit
    BY <1>2, <2>2
  <2>4. written[n] \in Int /\ written[n] >= Base
    BY <1>2, <1>3, <2>2, <2>3 DEF Digit
  <2> QED BY <1>3, <2>1, <2>2, <2>4
<1> QED BY <1>5

(* A value is a word, and other bytes behind do not change it.             *)
LEMMA ValueThere ==
    ASSUME NEW bytes \in Seq(Digit), NEW size \in 1..Len(bytes)
    PROVE  ValueOf(bytes, size) \in 0..Word - 1
<1>0. Word \in Nat \ {0}
  BY FramesAssumption
<1>1. PICK val : Sums(val, bytes, size) /\ ValueOf(bytes, size) = val[size] % Word
  BY SummedUp
<1>2. PICK a \in Nat : a = val[size]
  <2>1. size \in 0..size
    OBVIOUS
  <2> QED BY <1>1, <2>1 DEF Sums
<1>3. a % Word \in 0..Word - 1
  BY <1>0, DivMod
<1> QED BY <1>1, <1>2, <1>3

LEMMA SameValue ==
    ASSUME NEW bytes \in Seq(Digit), NEW more \in Seq(Digit), NEW size \in 1..Len(bytes), Len(bytes) <= Len(more),
           \A i \in 1..size : bytes[i] = more[i]
    PROVE  ValueOf(bytes, size) = ValueOf(more, size)
<1>1. PICK f : Sums(f, bytes, size) /\ ValueOf(bytes, size) = f[size] % Word
  BY SummedUp
<1>2. PICK g : Sums(g, more, size) /\ ValueOf(more, size) = g[size] % Word
  <2>1. size \in 1..Len(more)
    OBVIOUS
  <2> QED BY <2>1, SummedUp
<1>3. size \in Nat
  OBVIOUS
<1> DEFINE Bad == {i \in 0..size : f[i] # g[i]}
<1>4. ASSUME NEW i \in Bad PROVE \E m \in Bad : m < i
  <2>1. i \in 1..size /\ i - 1 \in 0..size /\ i - 1 < i
    <3>1. i # 0
      BY <1>1, <1>2 DEF Sums
    <3> QED BY <1>3, <3>1
  <2>2. /\ f[i] = f[i - 1] + (bytes[i] % Base) * Power[i - 1]
        /\ g[i] = g[i - 1] + (more[i] % Base) * Power[i - 1]
    BY <1>1, <1>2, <2>1 DEF Sums
  <2>3. bytes[i] = more[i]
    BY <2>1
  <2> QED BY <2>1, <2>2, <2>3
<1>5. Bad = {}
  <2>1. Bad \in SUBSET Nat
    BY <1>3
  <2> HIDE DEF Bad
  <2> QED BY <1>4, <2>1, NoneBad
<1>6. size \in 0..size
  BY <1>3
<1> QED BY <1>1, <1>2, <1>5, <1>6

-----------------------------------------------------------------------------
(* Frames                                                                  *)

LEMMA Packed ==
    ASSUME NEW packet \in Packet
    PROVE  /\ packet.id \in 0..Word - 1 /\ packet.payload \in Seq(Digit)
           /\ WriteVarint(packet.id) \in Seq(Digit) /\ Len(WriteVarint(packet.id)) \in 1..VarIntBytes
           /\ WriteVarint(packet.id) \o packet.payload \in Seq(Digit)
           /\ Len(WriteVarint(packet.id) \o packet.payload) = Len(WriteVarint(packet.id)) + Len(packet.payload)
           /\ Len(WriteVarint(packet.id) \o packet.payload) \in 0..MaxFrame
<1>1. packet.id \in Ids /\ packet.payload \in Payloads
  BY DEF Packet
<1>2. packet.id \in 0..Word - 1 /\ packet.payload \in Seq(Digit)
  BY <1>1, PacketsFit
<1>3. WriteVarint(packet.id) \in Seq(Digit) /\ Len(WriteVarint(packet.id)) \in 1..VarIntBytes
  BY <1>2, Written DEF Spelt
<1>4. PICK x \in Seq(Digit), y \in Seq(Digit) : x = WriteVarint(packet.id) /\ y = packet.payload
  BY <1>2, <1>3
<1>5. x \o y \in Seq(Digit) /\ Len(x \o y) = Len(x) + Len(y) /\ Len(x \o y) \in Nat
  BY ConcatProperties, LenProperties
<1>6. Len(x) + Len(y) <= MaxFrame
  BY <1>1, <1>4, PacketsFit
<1>7. MaxFrame \in Nat
  BY FramesAssumption
<1>8. Len(x \o y) \in 0..MaxFrame
  <2>1. PICK n \in Nat : n = Len(x \o y)
    BY <1>5
  <2>2. n <= MaxFrame
    BY <1>5, <1>6, <2>1
  <2>3. n \in 0..MaxFrame
    BY <1>7, <2>1, <2>2
  <2> QED BY <2>1, <2>3
<1>9. x \o y = WriteVarint(packet.id) \o packet.payload
  BY <1>4
<1> QED BY <1>2, <1>3, <1>4, <1>5, <1>8, <1>9

(* Numbers of bytes: what encloses a packet adds little.                   *)
LEMMA Room ==
    ASSUME NEW d \in 0..MaxFrame, NEW n \in 0..VarIntBytes
    PROVE  /\ d \in 0..MaxFrame + VarIntBytes + 1 /\ n + d \in 0..MaxFrame + VarIntBytes + 1
           /\ n + (d + 1) \in 0..MaxFrame + VarIntBytes + 1
<1>1. VarIntBytes \in Nat /\ MaxFrame \in Nat
  BY FramesAssumption
<1> QED BY <1>1

LEMMA Lengths ==
    ASSUME NEW n \in 0..MaxFrame + VarIntBytes + 1
    PROVE  WriteVarint(n) \in Seq(Digit) /\ Len(WriteVarint(n)) \in 1..VarIntBytes
<1>1. n \in 0..Word - 1
  BY FramesAssumption
<1> QED BY <1>1, Written DEF Spelt

(* What is written are bytes.                                              *)
LEMMA Encoded ==
    ASSUME NEW packet \in Packet, NEW threshold
    PROVE  Encode(packet, threshold) \in Seq(Digit)
<1>0. VarIntBytes \in Nat \ {0} /\ MaxFrame \in Nat /\ ZlibHeader \in Digit
  BY FramesAssumption
<1>1. PICK data \in Seq(Digit) : data = WriteVarint(packet.id) \o packet.payload /\ Len(data) \in 0..MaxFrame
  BY Packed
<1>2. Zlib(data) \in Seq(Digit) /\ Len(Zlib(data)) = Len(data) + 1
  <2>1. PICK h : h = <<ZlibHeader>>
    OBVIOUS
  <2>2. h \in Seq(Digit) /\ Len(h) = 1
    <3>1. PICK d, D : d = ZlibHeader /\ D = Digit
      OBVIOUS
    <3>2. <<d>> \in Seq(D) /\ Len(<<d>>) = 1
      BY <1>0, <3>1
    <3> QED BY <2>1, <3>1, <3>2
  <2>3. h \o data \in Seq(Digit) /\ Len(h \o data) = 1 + Len(data)
    <3>1. h \in Seq(Digit)
      BY <2>2
    <3>2. h \o data \in Seq(Digit) /\ Len(h \o data) = Len(h) + Len(data)
      BY ONLY <3>1, data \in Seq(Digit), ConcatProperties
    <3> QED BY <2>2, <3>2
  <2>4. Zlib(data) = h \o data
    BY <2>1 DEF Zlib
  <2>5. Len(data) \in Nat
    OBVIOUS
  <2> QED BY <2>3, <2>4, <2>5
<1>3. Body(packet, threshold) \in Seq(Digit) /\ Len(Body(packet, threshold)) \in 0..MaxFrame + VarIntBytes + 1
  <2>1. CASE threshold = 0
    <3>1. Body(packet, threshold) = data
      BY <1>1, <2>1 DEF Body
    <3>2. 0 \in 0..VarIntBytes
      BY <1>0
    <3> QED BY <1>1, <3>1, <3>2, Room
  <2>2. CASE threshold # 0 /\ Len(data) >= threshold
    <3>1. PICK x, y : x = WriteVarint(Len(data)) /\ y = Zlib(data)
      OBVIOUS
    <3>2. x \in Seq(Digit) /\ Len(x) \in 1..VarIntBytes
      <4>0. 0 \in 0..VarIntBytes
        BY <1>0
      <4>1. Len(data) \in 0..MaxFrame + VarIntBytes + 1
        BY <1>1, <4>0, Room
      <4> QED BY <3>1, <4>1, Lengths
    <3>3. x \o y \in Seq(Digit) /\ Len(x \o y) = Len(x) + Len(y) /\ Len(y) = Len(data) + 1
      BY <1>2, <3>1, <3>2, ConcatProperties
    <3>4. Body(packet, threshold) = x \o y
      BY <1>1, <2>2, <3>1 DEF Body
    <3>5. Len(x) \in 0..VarIntBytes
      BY <1>0, <3>2
    <3> QED BY <1>1, <3>3, <3>4, <3>5, Room
  <2>3. CASE threshold # 0 /\ ~(Len(data) >= threshold)
    <3>1. PICK x : x = WriteVarint(0)
      OBVIOUS
    <3>2. x \in Seq(Digit) /\ Len(x) \in 1..VarIntBytes
      <4>1. 0 \in 0..MaxFrame + VarIntBytes + 1
        BY <1>0
      <4> QED BY <3>1, <4>1, Lengths
    <3>3. x \o data \in Seq(Digit) /\ Len(x \o data) = Len(x) + Len(data)
      BY <3>2, ConcatProperties
    <3>4. Body(packet, threshold) = x \o data
      BY <1>1, <2>3, <3>1 DEF Body
    <3>5. Len(x) \in 0..VarIntBytes
      BY <1>0, <3>2
    <3> QED BY <1>1, <3>3, <3>4, <3>5, Room
  <2> QED BY <2>1, <2>2, <2>3
<1>4. PICK x, y : y = Body(packet, threshold) /\ x = WriteVarint(Len(y))
  OBVIOUS
<1>5. x \in Seq(Digit) /\ y \in Seq(Digit)
  BY <1>3, <1>4, Lengths
<1>6. x \o y \in Seq(Digit)
  BY <1>5, ConcatProperties
<1> QED BY <1>4, <1>6 DEF Encode

-----------------------------------------------------------------------------
(* Types                                                                   *)

Frame == [id : -1..Word - 1, payload : Seq(Digit)]

(* A read goes on only until it has the frame its length announces.        *)
FramesInv ==
    /\ stage \in {"login", "acknowledge", "configuration", "finish", "play", "closed"}
    /\ server_codec \in {0, Threshold}
    /\ wire \in Seq(Digit) /\ taken \in Seq(Digit)
    /\ Prefix # {} => Len(taken) = PrefixSize \/ (FrameSize <= MaxFrame /\ Len(taken) <= PrefixSize + FrameSize)
    /\ {connected, cut} \subseteq BOOLEAN
    /\ sent \in Seq(Packet)
    /\ parsed \in Seq(Frame)

LEMMA Parses ==
    ASSUME NEW frame \in Seq(Digit)
    PROVE  Parse(frame) \in Frame
<1>0. Word \in Nat \ {0}
  BY FramesAssumption
<1>1. CASE VarintSizes(frame) = {}
  <2>1. <<>> \in Seq(Digit)
    OBVIOUS
  <2> QED BY <1>0, <1>1, <2>1 DEF Parse, Malformed, Frame
<1>2. CASE VarintSizes(frame) # {}
  <2>1. PICK size \in VarintSizes(frame) : TRUE
    BY <1>2
  <2>2. (CHOOSE n \in VarintSizes(frame) : TRUE) = size /\ size \in 1..Len(frame)
    BY <2>1, OneSize
  <2>3. ValueOf(frame, size) \in 0..Word - 1
    BY <2>2, ValueThere
  <2>4. SubSeq(frame, size + 1, Len(frame)) \in Seq(Digit)
    <3>1. \A i \in size + 1..Len(frame) : frame[i] \in Digit
      BY <2>2
    <3> QED BY <2>2, <3>1, SubSeqProperties
  <2>5. Parse(frame) = [id |-> ValueOf(frame, size), payload |-> SubSeq(frame, size + 1, Len(frame))]
    BY <1>2, <2>2 DEF Parse
  <2> QED BY <1>0, <2>3, <2>4, <2>5 DEF Frame
<1> QED BY <1>1, <1>2

LEMMA FramesInitTyped == FramesInit => FramesInv
<1> SUFFICES ASSUME FramesInit PROVE FramesInv
  OBVIOUS
<1>0. VarIntBytes \in Nat
  BY FramesAssumption
<1>1. <<>> \in Seq(Digit) /\ <<>> \in Seq(Packet) /\ <<>> \in Seq(Frame) /\ Len(<<>>) = 0
  OBVIOUS
<1>2. Prefix = {}
  <2>1. \A n \in 1..VarIntBytes : ~(n <= 0)
    BY <1>0
  <2> QED BY <1>1, <2>1 DEF FramesInit, Prefix, VarintSizes
<1> QED BY <1>1, <1>2 DEF FramesInit, FramesInv

(* One more byte.                                                          *)
LEMMA OneMore ==
    ASSUME NEW bytes \in Seq(Digit), NEW b \in Digit, NEW more, more = Append(bytes, b)
    PROVE  /\ more \in Seq(Digit) /\ Len(more) = Len(bytes) + 1 /\ \A i \in 1..Len(bytes) : more[i] = bytes[i]
           /\ VarintSizes(bytes) \subseteq VarintSizes(more)
           /\ VarintSizes(more) \subseteq VarintSizes(bytes) \cup {Len(more)}
<1>0. VarIntBytes \in Nat
  BY FramesAssumption
<1>1. more \in Seq(Digit) /\ Len(more) = Len(bytes) + 1 /\ \A i \in 1..Len(bytes) : more[i] = bytes[i]
  BY AppendProperties
<1>2. PICK l \in Nat : l = Len(bytes)
  OBVIOUS
<1>3. ASSUME NEW n \in 1..VarIntBytes, n <= l
      PROVE  n \in VarintSizes(bytes) <=> n \in VarintSizes(more)
  <2>1. n \in 1..l /\ \A k \in 1..n - 1 : k \in 1..l
    BY <1>0, <1>3
  <2>2. more[n] = bytes[n] /\ \A k \in 1..n - 1 : more[k] = bytes[k]
    BY <1>1, <1>2, <2>1
  <2>3. n <= Len(bytes) /\ n <= Len(more)
    BY <1>0, <1>1, <1>2, <1>3
  <2> QED BY <2>2, <2>3 DEF VarintSizes
<1>4. \A n \in VarintSizes(more) : n \in 1..VarIntBytes /\ (n <= l \/ n = l + 1)
  BY <1>0, <1>1, <1>2 DEF VarintSizes
<1>5. \A n \in VarintSizes(bytes) : n \in 1..VarIntBytes /\ n <= l
  BY <1>2 DEF VarintSizes
<1> QED BY <1>1, <1>2, <1>3, <1>4, <1>5

LEMMA FramesStepTyped == FramesInv /\ [FramesNext]_frames_vars => FramesInv'
<1> SUFFICES ASSUME FramesInv, [FramesNext]_frames_vars PROVE FramesInv'
  OBVIOUS
<1>0. VarIntBytes \in Nat \ {0} /\ MaxFrame \in Nat /\ Word \in Nat \ {0}
  BY FramesAssumption
<1>1. /\ stage \in {"login", "acknowledge", "configuration", "finish", "play", "closed"}
      /\ server_codec \in {0, Threshold}
      /\ wire \in Seq(Digit) /\ taken \in Seq(Digit)
      /\ {connected, cut} \subseteq BOOLEAN
      /\ sent \in Seq(Packet) /\ parsed \in Seq(Frame)
  BY DEF FramesInv
<1> DEFINE Reading == Prefix # {} => Len(taken) = PrefixSize \/ (FrameSize <= MaxFrame /\ Len(taken) <= PrefixSize + FrameSize)
<1>2. Reading
  BY DEF FramesInv
<1>3. ASSUME taken' = taken PROVE Reading'
  BY <1>2, <1>3 DEF Prefix, PrefixSize, FrameSize
<1>4. ASSUME taken' = <<>> PROVE Reading' /\ taken' \in Seq(Digit)
  <2>1. \A n \in 1..VarIntBytes : ~(n <= 0)
    BY <1>0
  <2>2. Len(<<>>) = 0 /\ <<>> \in Seq(Digit)
    OBVIOUS
  <2>3. VarintSizes(<<>>) = {}
    BY <2>1, <2>2 DEF VarintSizes
  <2> QED BY <1>4, <2>2, <2>3 DEF Prefix
<1>5. ASSUME NEW packet \in Packet, Send(packet) PROVE FramesInv'
  <2>1. wire' \in Seq(Digit) /\ sent' \in Seq(Packet)
    <3>1. PICK e \in Seq(Digit) : wire' = wire \o e
      BY <1>5, Encoded DEF Send
    <3>2. wire' \in Seq(Digit)
      BY <1>1, <3>1, ConcatProperties
    <3>3. sent' \in Seq(Packet)
      BY <1>1, <1>5, AppendProperties DEF Send
    <3> QED BY <3>2, <3>3
  <2>2. Reading'
    BY <1>3, <1>5 DEF Send
  <2> QED BY <1>1, <1>5, <2>1, <2>2 DEF Send, FramesInv
<1>6. ASSUME HangUp PROVE FramesInv'
  <2>1. Reading'
    BY <1>3, <1>6 DEF HangUp
  <2> QED BY <1>1, <1>6, <2>1 DEF HangUp, FramesInv
<1>7. ASSUME Take PROVE FramesInv'
  <2>1. PICK b \in Digit : taken' = Append(taken, b)
    BY <1>1, <1>7, HeadTailProperties DEF Take
  <2>2. wire' \in Seq(Digit)
    BY <1>1, <1>7, HeadTailProperties DEF Take
  <2>3. /\ taken' \in Seq(Digit) /\ Len(taken') = Len(taken) + 1
        /\ \A i \in 1..Len(taken) : taken'[i] = taken[i]
        /\ Prefix \subseteq Prefix' /\ Prefix' \subseteq Prefix \cup {Len(taken')}
    <3>1. PICK t, u : t = taken /\ u = taken'
      OBVIOUS
    <3>2. t \in Seq(Digit) /\ u = Append(t, b)
      BY <1>1, <2>1, <3>1
    <3>3. /\ u \in Seq(Digit) /\ Len(u) = Len(t) + 1 /\ \A i \in 1..Len(t) : u[i] = t[i]
          /\ VarintSizes(t) \subseteq VarintSizes(u)
          /\ VarintSizes(u) \subseteq VarintSizes(t) \cup {Len(u)}
      BY <3>2, OneMore
    <3> QED BY <3>1, <3>3 DEF Prefix
  <2>4. Reading'
    <3>1. CASE Prefix = {}
      <4>1. Prefix' # {} => PrefixSize' = Len(taken')
        BY <2>3, <3>1 DEF PrefixSize
      <4> QED BY <4>1
    <3>2. CASE Prefix # {}
      <4>1. PICK t, u, n : t = taken /\ u = taken' /\ n \in Prefix
        BY <3>2
      <4>2. t \in Seq(Digit) /\ u \in Seq(Digit) /\ n \in VarintSizes(t) /\ n \in VarintSizes(u)
        BY <1>1, <2>3, <4>1 DEF Prefix
      <4>3. /\ (CHOOSE m \in VarintSizes(t) : TRUE) = n /\ n \in 1..Len(t)
            /\ (CHOOSE m \in VarintSizes(u) : TRUE) = n
        BY <4>2, OneSize
      <4>4. PrefixSize = n /\ PrefixSize' = n
        BY <4>1, <4>3 DEF PrefixSize, Prefix
      <4>5. ValueOf(t, n) = ValueOf(u, n) /\ ValueOf(t, n) \in 0..Word - 1
        <5>1. Len(t) <= Len(u) /\ \A i \in 1..n : t[i] = u[i]
          BY <2>3, <4>1, <4>2, <4>3
        <5> QED BY <4>2, <4>3, <5>1, SameValue, ValueThere
      <4>6. FrameSize' = FrameSize /\ FrameSize \in Nat
        BY <1>0, <4>1, <4>4, <4>5 DEF FrameSize
      <4>7. FrameSize <= MaxFrame /\ Len(taken) # n + FrameSize
        <5>1. ~Refused /\ ~Complete
          BY <1>7 DEF Take
        <5>2. FrameSize <= MaxFrame
          BY <1>0, <3>2, <4>6, <5>1 DEF Refused
        <5> QED BY <3>2, <4>4, <5>1, <5>2 DEF Complete
      <4>8. Len(taken) <= n + FrameSize
        BY <1>2, <3>2, <4>2, <4>3, <4>4, <4>6
      <4>9. n \in Nat /\ Len(taken) \in Nat
        BY <4>1, <4>2, <4>3
      <4>10. Len(taken') <= n + FrameSize
        BY <2>3, <4>6, <4>7, <4>8, <4>9
      <4> QED BY <4>4, <4>6, <4>7, <4>10
    <3> QED BY <3>1, <3>2
  <2> QED BY <1>1, <1>7, <2>2, <2>3, <2>4 DEF Take, FramesInv
<1>8. ASSUME ReadFrame PROVE FramesInv'
  <2>1. PICK frame : frame = SubSeq(taken, PrefixSize + 1, Len(taken))
    OBVIOUS
  <2>2. frame \in Seq(Digit)
    <3>1. PICK n : n \in Prefix
      BY <1>8 DEF ReadFrame, Complete
    <3>2. PrefixSize = n /\ n \in 1..Len(taken)
      BY <1>1, <3>1, OneSize DEF Prefix, PrefixSize
    <3>3. \A i \in n + 1..Len(taken) : taken[i] \in Digit
      BY <1>1, <3>2
    <3>4. Len(taken) \in Nat
      BY <1>1
    <3> QED BY <2>1, <3>2, <3>3, <3>4, SubSeqProperties
  <2>3. parsed' = Append(parsed, Parse(frame)) /\ Parse(frame) \in Frame
    BY <1>8, <2>1, <2>2, Parses DEF ReadFrame
  <2>4. parsed' \in Seq(Frame)
    BY <1>1, <2>3, AppendProperties
  <2>5. stage' \in {"closed", "acknowledge", "configuration", "finish", "play"}
    <3>1. PICK packet : stage' \in AfterFrame(packet)
      BY <1>8 DEF ReadFrame
    <3>2. CASE stage = "login"
      BY <3>1, <3>2 DEF AfterFrame
    <3>3. CASE stage = "acknowledge"
      BY <3>1, <3>3 DEF AfterFrame
    <3>4. CASE stage = "configuration"
      BY <3>1, <3>4 DEF AfterFrame
    <3>5. CASE stage \notin {"login", "acknowledge", "configuration"}
      BY <3>1, <3>5 DEF AfterFrame
    <3> QED BY <3>2, <3>3, <3>4, <3>5
  <2>6. Reading' /\ taken' \in Seq(Digit)
    BY <1>4, <1>8 DEF ReadFrame
  <2>7. server_codec' \in {0, Threshold}
    BY <1>1, <1>8 DEF ReadFrame
  <2>8. wire' = wire /\ connected' = connected /\ sent' = sent /\ cut' = cut
    BY <1>8 DEF ReadFrame
  <2> QED BY <1>1, <2>4, <2>5, <2>6, <2>7, <2>8 DEF FramesInv
<1>9. ASSUME ReadError PROVE FramesInv'
  <2>1. stage' \in {"closed", "acknowledge", "configuration", "finish", "play"}
    <3>1. stage' = AfterError
      BY <1>9 DEF ReadError
    <3>2. CASE stage = "finish"
      BY <3>1, <3>2 DEF AfterError
    <3>3. CASE stage = "acknowledge"
      BY <3>1, <3>3 DEF AfterError
    <3>4. CASE stage = "configuration"
      BY <3>1, <3>4 DEF AfterError
    <3>5. CASE stage \notin {"finish", "acknowledge", "configuration"}
      BY <3>1, <3>5 DEF AfterError
    <3> QED BY <3>2, <3>3, <3>4, <3>5
  <2>2. Reading' /\ taken' \in Seq(Digit)
    BY <1>4, <1>9 DEF ReadError
  <2> QED BY <1>1, <1>9, <2>1, <2>2 DEF ReadError, FramesInv
<1>10. ASSUME TimeOut PROVE FramesInv'
  <2>1. stage' \in {"configuration", "finish", "play"}
    <3>1. CASE stage = "configuration"
      BY <1>10, <3>1 DEF TimeOut
    <3>2. CASE stage # "configuration"
      BY <1>10, <3>2 DEF TimeOut
    <3> QED BY <3>1, <3>2
  <2>2. Reading' /\ taken' \in Seq(Digit)
    BY <1>4, <1>10 DEF TimeOut
  <2>3. cut' \in BOOLEAN
    BY <1>10 DEF TimeOut
  <2>4. server_codec' = server_codec /\ wire' = wire /\ connected' = connected /\ sent' = sent /\ parsed' = parsed
    BY <1>10 DEF TimeOut
  <2> QED BY <1>1, <2>1, <2>2, <2>3, <2>4 DEF FramesInv
<1>11. ASSUME UNCHANGED frames_vars PROVE FramesInv'
  <2>1. Reading'
    BY <1>3, <1>11 DEF frames_vars
  <2> QED BY <1>1, <1>11, <2>1 DEF frames_vars, FramesInv
<1> QED BY <1>5, <1>6, <1>7, <1>8, <1>9, <1>10, <1>11 DEF FramesNext

LEMMA FramesTyped == FramesSpec => []FramesInv
<1>1. FramesInit => FramesInv
  BY FramesInitTyped
<1>2. FramesInv /\ [FramesNext]_frames_vars => FramesInv'
  BY FramesStepTyped
<1> QED BY <1>1, <1>2, PTL DEF FramesSpec

(* The variables have their types, and a read takes in no more than the    *)
(* largest frame and its length, whatever the client sends and however far *)
(* out of step the reads have come.                                        *)
THEOREM FramesTypeCorrect == FramesSpec => []FramesTypeOK
<1>1. FramesInv => FramesTypeOK
  <2> SUFFICES ASSUME FramesInv PROVE FramesTypeOK
    OBVIOUS
  <2>0. VarIntBytes \in Nat \ {0} /\ MaxFrame \in Nat /\ Word \in Nat \ {0}
    BY FramesAssumption
  <2>1. Prefix # {} => Len(taken) <= PrefixSize + MaxFrame
    <3> SUFFICES ASSUME Prefix # {} PROVE Len(taken) <= PrefixSize + MaxFrame
      OBVIOUS
    <3>1. PICK n, t : n \in Prefix /\ t = taken
      OBVIOUS
    <3>2. t \in Seq(Digit) /\ n \in VarintSizes(t)
      BY <3>1 DEF FramesInv, Prefix
    <3>3. PrefixSize = n /\ n \in 1..Len(t)
      BY <3>1, <3>2, OneSize DEF Prefix, PrefixSize
    <3>4. PICK size \in Nat : size = FrameSize
      BY <2>0, <3>1, <3>2, <3>3, ValueThere DEF FrameSize
    <3>5. Len(t) = n \/ (size <= MaxFrame /\ Len(t) <= n + size)
      BY <3>1, <3>3, <3>4 DEF FramesInv
    <3>6. Len(t) <= n + MaxFrame
      BY <2>0, <3>2, <3>3, <3>4, <3>5
    <3> QED BY <3>1, <3>3, <3>6
  <2>2. \A i \in 1..Len(parsed) : parsed[i].payload \in Seq(Digit)
    <3>1. parsed \in Seq(Frame)
      BY DEF FramesInv
    <3>2. \A i \in 1..Len(parsed) : parsed[i] \in Frame
      BY <3>1, ElementOfSeq
    <3> QED BY <3>2 DEF Frame
  <2> QED BY <2>1, <2>2 DEF FramesInv, FramesTypeOK
<1> QED BY <1>1, FramesTyped, PTL

-----------------------------------------------------------------------------
(* Without compression the frames are what the client sent                 *)

(* Frames of packets are not refused, and give the packets.                *)
Whole(bytes, packet) == bytes = WriteVarint(Len(Body(packet, 0))) \o Body(packet, 0)

LEMMA Uncompressed ==
    ASSUME NEW packet \in Packet
    PROVE  /\ Body(packet, 0) = WriteVarint(packet.id) \o packet.payload
           /\ Body(packet, 0) \in Seq(Digit) /\ Len(Body(packet, 0)) \in 0..MaxFrame
           /\ Len(Body(packet, 0)) \in 0..Word - 1
           /\ WriteVarint(Len(Body(packet, 0))) \in Seq(Digit)
           /\ Len(WriteVarint(Len(Body(packet, 0)))) \in 1..VarIntBytes
           /\ Encode(packet, 0) = WriteVarint(Len(Body(packet, 0))) \o Body(packet, 0)
           /\ Parse(Body(packet, 0)) = packet
<1>0. MaxFrame \in Nat /\ VarIntBytes \in Nat \ {0} /\ Word \in Nat \ {0} /\ MaxFrame < Word
  BY FramesAssumption
<1>1. Body(packet, 0) = WriteVarint(packet.id) \o packet.payload
  BY DEF Body
<1>2. PICK body \in Seq(Digit) : body = Body(packet, 0) /\ Len(body) \in 0..MaxFrame
  BY <1>1, Packed
<1>3. Len(body) \in 0..Word - 1
  BY <1>0, <1>2
<1>4. Spelt(WriteVarint(Len(body)), Len(body))
  BY <1>3, Written
<1>5. Encode(packet, 0) = WriteVarint(Len(body)) \o body
  BY <1>2 DEF Encode
<1>6. PICK x, y : /\ x = WriteVarint(packet.id) /\ y = packet.payload
                  /\ x \in Seq(Digit) /\ y \in Seq(Digit) /\ Len(x) \in 1..VarIntBytes
                  /\ packet.id \in 0..Word - 1
  BY Packed
<1>7. /\ body = x \o y /\ Len(body) = Len(x) + Len(y) /\ \A i \in 1..Len(x) : body[i] = x[i]
      /\ \A i \in 1..Len(x) + Len(y) : body[i] = IF i <= Len(x) THEN x[i] ELSE y[i - Len(x)]
      /\ Len(x) \in Nat /\ Len(y) \in Nat
  <2>1. Len(x \o y) = Len(x) + Len(y) /\ \A i \in 1..Len(x) + Len(y) : (x \o y)[i] = IF i <= Len(x) THEN x[i] ELSE y[i - Len(x)]
    BY <1>6, ConcatProperties
  <2>2. body = x \o y
    BY <1>1, <1>2, <1>6
  <2>3. PICK l, m : l \in Nat /\ m \in Nat /\ l = Len(x) /\ m = Len(y)
    BY <1>6, LenProperties
  <2>4. \A i \in 1..l : i \in 1..l + m /\ i <= l
    BY <2>3
  <2> QED BY <2>1, <2>2, <2>3, <2>4
<1>8. PICK n \in Nat : n = Len(x) /\ n <= Len(body)
  BY <1>7
<1>9. VarintSizes(body) = {n} /\ ValueOf(body, n) = packet.id
  <2>1. n = Len(WriteVarint(packet.id)) /\ \A i \in 1..n : body[i] = WriteVarint(packet.id)[i]
    BY <1>6, <1>7, <1>8
  <2> QED BY <1>6, <1>8, <2>1, Found
<1>10. SubSeq(body, n + 1, Len(body)) = y
  <2>1. PICK l, m : l \in Nat /\ m \in Nat /\ l = Len(body) /\ m = Len(y) /\ l = n + m
    <3>1. PICK l, m : l = Len(body) /\ m = Len(y)
      OBVIOUS
    <3>2. l \in Nat /\ m \in Nat /\ l = n + m
      BY <1>7, <1>8, <3>1
    <3> QED BY <3>1, <3>2
  <2>2. \A i \in n + 1..l : body[i] \in Digit
    <3>1. \A i \in n + 1..l : i \in 1..l
      BY <1>8, <2>1
    <3> QED BY <2>1, <3>1, ElementOfSeq
  <2>3. PICK s : s = SubSeq(body, n + 1, l)
    OBVIOUS
  <2>4. /\ s \in Seq(Digit) /\ Len(s) = IF n + 1 <= l THEN l - (n + 1) + 1 ELSE 0
        /\ \A i \in 1..l - (n + 1) + 1 : s[i] = body[n + 1 + i - 1]
    BY <1>8, <2>1, <2>2, <2>3, SubSeqProperties
  <2>5. Len(s) = m
    BY <1>8, <2>1, <2>4
  <2>6. ASSUME NEW i \in 1..m PROVE s[i] = y[i]
    <3>1. i \in 1..l - (n + 1) + 1 /\ n + 1 + i - 1 = n + i /\ n + i \in 1..n + m /\ ~(n + i <= n) /\ n + i - n = i
      BY <1>8, <2>1
    <3>2. s[i] = body[n + i]
      BY <2>4, <3>1
    <3>3. body[n + i] = IF n + i <= n THEN x[n + i] ELSE y[n + i - n]
      BY <1>7, <1>8, <2>1, <3>1
    <3> QED BY <3>1, <3>2, <3>3
  <2>7. s = y
    BY <1>6, <2>1, <2>4, <2>5, <2>6, SeqEqual
  <2> QED BY <2>1, <2>3, <2>7
<1>11. Parse(body) = [id |-> packet.id, payload |-> packet.payload]
  <2>1. (CHOOSE m \in VarintSizes(body) : TRUE) = n /\ VarintSizes(body) # {}
    BY <1>9
  <2> QED BY <1>6, <1>9, <1>10, <2>1 DEF Parse
<1>12. packet = [id |-> packet.id, payload |-> packet.payload]
  BY DEF Packet
<1> QED BY <1>1, <1>2, <1>3, <1>4, <1>5, <1>11, <1>12 DEF Spelt

(* A read that has taken the beginning of a packet's frame.                *)
Partly(packet) ==
    /\ Len(taken) <= Len(Encode(packet, 0))
    /\ \A i \in 1..Len(taken) : taken[i] = Encode(packet, 0)[i]

LEMMA UnderWay ==
    ASSUME taken \in Seq(Digit), NEW packet \in Packet, Partly(packet)
    PROVE  /\ ~Refused /\ (Complete <=> Len(taken) = Len(Encode(packet, 0)))
           /\ Complete => Parse(SubSeq(taken, PrefixSize + 1, Len(taken))) = packet
<1>0. MaxFrame \in Nat /\ VarIntBytes \in Nat \ {0} /\ Word \in Nat \ {0}
  BY FramesAssumption
<1>1. PICK x, body, e : /\ x = WriteVarint(Len(body)) /\ body = Body(packet, 0) /\ e = Encode(packet, 0)
                        /\ x \in Seq(Digit) /\ body \in Seq(Digit)
                        /\ Len(x) \in 1..VarIntBytes /\ Len(body) \in 0..MaxFrame /\ Len(body) \in 0..Word - 1
                        /\ e = x \o body /\ Parse(body) = packet
  BY Uncompressed
<1>2. PICK h, m : h \in Nat /\ m \in Nat /\ h = Len(x) /\ m = Len(body) /\ h <= VarIntBytes /\ h # 0 /\ m <= MaxFrame
  <2>1. Len(x) \in Nat /\ Len(body) \in Nat
    BY <1>1, LenProperties
  <2>2. Len(x) <= VarIntBytes /\ Len(x) # 0
    BY <1>0, <1>1
  <2>3. Len(body) <= MaxFrame
    BY <1>0, <1>1
  <2> QED BY <2>1, <2>2, <2>3
<1>3. /\ e \in Seq(Digit) /\ Len(e) = h + m
      /\ \A i \in 1..h + m : e[i] = IF i <= h THEN x[i] ELSE body[i - h]
  <2>1. /\ x \o body \in Seq(Digit) /\ Len(x \o body) = Len(x) + Len(body)
        /\ \A i \in 1..Len(x) + Len(body) : (x \o body)[i] = IF i <= Len(x) THEN x[i] ELSE body[i - Len(x)]
    BY <1>1, ConcatProperties
  <2> QED BY <1>1, <1>2, <2>1
<1>4. PICK t \in Seq(Digit) : t = taken /\ Len(t) <= h + m /\ \A i \in 1..Len(t) : t[i] = e[i]
  BY <1>1, <1>3 DEF Partly
<1>5. PICK l \in Nat : l = Len(t) /\ l <= h + m
  BY <1>4
<1>6. \A i \in 1..l : i \in 1..h + m
  BY <1>2, <1>5
<1>7. CASE l < h
  <2>1. VarintSizes(t) = {}
    <3>1. \A i \in 1..Len(t) : t[i] = WriteVarint(Len(body))[i]
      <4> SUFFICES ASSUME NEW i \in 1..l PROVE t[i] = x[i]
        BY <1>1, <1>5
      <4>1. i \in 1..h + m /\ i <= h
        BY <1>2, <1>6, <1>7
      <4> QED BY <1>3, <1>4, <1>5, <4>1
    <3> QED BY <1>1, <1>2, <1>5, <1>7, <3>1, NotYet
  <2>2. Prefix = {}
    BY <1>4, <2>1 DEF Prefix
  <2>3. l # VarIntBytes /\ l # h + m
    BY <1>0, <1>2, <1>5, <1>7
  <2> QED BY <1>1, <1>3, <1>4, <1>5, <2>2, <2>3 DEF Refused, Complete
<1>8. CASE l >= h
  <2>1. VarintSizes(t) = {h} /\ ValueOf(t, h) = m
    <3>1. \A i \in 1..h : t[i] = WriteVarint(Len(body))[i]
      <4> SUFFICES ASSUME NEW i \in 1..h PROVE t[i] = x[i]
        BY <1>1
      <4>1. i \in 1..h + m /\ i <= h /\ i \in 1..l
        BY <1>2, <1>5, <1>8
      <4> QED BY <1>3, <1>4, <1>5, <4>1
    <3>2. h = Len(WriteVarint(Len(body))) /\ h <= Len(t)
      BY <1>1, <1>2, <1>5, <1>8
    <3>3. VarintSizes(t) = {h} /\ ValueOf(t, h) = Len(body)
      BY <1>1, <3>1, <3>2, Found
    <3> QED BY <1>2, <3>3
  <2>2. Prefix = {h} /\ PrefixSize = h /\ FrameSize = m
    BY <1>4, <2>1 DEF Prefix, PrefixSize, FrameSize
  <2>3. ~Refused
    BY <1>0, <1>2, <2>2 DEF Refused
  <2>4. Complete <=> l = h + m
    BY <1>4, <1>5, <2>2, <2>3 DEF Complete
  <2>5. ASSUME l = h + m PROVE SubSeq(t, h + 1, l) = body
    <3>1. \A i \in h + 1..l : t[i] \in Digit
      BY <1>2, <1>5
    <3>2. PICK s : s = SubSeq(t, h + 1, l)
      OBVIOUS
    <3>3. /\ s \in Seq(Digit) /\ Len(s) = IF h + 1 <= l THEN l - (h + 1) + 1 ELSE 0
          /\ \A i \in 1..l - (h + 1) + 1 : s[i] = t[h + 1 + i - 1]
      BY <1>2, <1>5, <3>1, <3>2, SubSeqProperties
    <3>4. Len(s) = m
      BY <1>2, <2>5, <3>3
    <3>5. ASSUME NEW i \in 1..m PROVE s[i] = body[i]
      <4>1. i \in 1..l - (h + 1) + 1 /\ h + 1 + i - 1 = h + i /\ h + i \in 1..h + m /\ ~(h + i <= h) /\ h + i - h = i
        BY <1>2, <2>5
      <4>2. s[i] = t[h + i] /\ t[h + i] = e[h + i]
        BY <1>4, <1>5, <2>5, <3>3, <4>1
      <4>3. PICK j : j = h + i /\ j \in 1..h + m /\ ~(j <= h) /\ j - h = i
        <5>1. PICK j : j = h + i
          OBVIOUS
        <5>2. j \in 1..h + m /\ ~(j <= h) /\ j - h = i
          BY <1>2, <5>1, Behind
        <5> QED BY <5>1, <5>2
      <4>4. e[j] = body[j - h]
        BY <1>3, <4>3
      <4> QED BY <4>2, <4>3, <4>4
    <3>6. s = body
      BY <1>1, <1>2, <3>3, <3>4, <3>5, SeqEqual
    <3> QED BY <3>2, <3>6
  <2> QED BY <1>1, <1>3, <1>4, <1>5, <2>2, <2>3, <2>4, <2>5
<1> QED BY <1>2, <1>5, <1>7, <1>8

(* The bytes in hand and on the wire are the frames of the packets not yet *)
(* parsed, one after the other, and a read is within the first of them.    *)
Laid(rests, k) ==
    /\ rests \in [k..Len(sent) -> Seq(Digit)]
    /\ rests[k] = taken \o wire /\ rests[Len(sent)] = <<>>
    /\ \A n \in k + 1..Len(sent) : rests[n - 1] = Encode(sent[n], 0) \o rests[n]

InStep ==
    ~cut => /\ Len(parsed) <= Len(sent) /\ \A i \in 1..Len(parsed) : parsed[i] = sent[i]
            /\ \E rests : Laid(rests, Len(parsed))
            /\ taken # <<>> => /\ Len(parsed) < Len(sent)
                               /\ Len(taken) <= Len(Encode(sent[Len(parsed) + 1], 0))

LEMMA Prefixed ==
    ASSUME NEW S, NEW x \in Seq(S), NEW y \in Seq(S), NEW u \in Seq(S), NEW v \in Seq(S),
           x \o y = u \o v, Len(x) <= Len(u)
    PROVE  /\ \A i \in 1..Len(x) : x[i] = u[i]
           /\ Len(x) = Len(u) => x = u /\ y = v
           /\ y = <<>> => Len(x) = Len(u)
<1>1. PICK a, b, c, d \in Nat : a = Len(x) /\ b = Len(y) /\ c = Len(u) /\ d = Len(v)
  BY LenProperties
<1>2. /\ Len(x \o y) = a + b /\ \A i \in 1..a + b : (x \o y)[i] = IF i <= a THEN x[i] ELSE y[i - a]
      /\ Len(u \o v) = c + d /\ \A i \in 1..c + d : (u \o v)[i] = IF i <= c THEN u[i] ELSE v[i - c]
  BY <1>1, ConcatProperties
<1>3. a <= c /\ a + b = c + d
  BY <1>1, <1>2
<1>4. ASSUME NEW i \in 1..a PROVE x[i] = u[i]
  <2>1. i \in 1..a + b /\ i <= a /\ i <= c /\ i \in 1..c + d
    BY <1>3
  <2> QED BY <1>2, <2>1
<1>5. ASSUME a = c PROVE x = u /\ y = v
  <2>1. x = u
    BY <1>1, <1>4, <1>5, SeqEqual
  <2>2. y = v
    BY <2>1, ConcatSimplifications
  <2> QED BY <2>1, <2>2
<1>6. ASSUME y = <<>> PROVE a = c
  <2>1. b = 0
    BY <1>1, <1>6
  <2> QED BY <1>3, <2>1
<1> QED BY <1>1, <1>4, <1>5, <1>6

LEMMA Moved ==
    ASSUME NEW S, NEW t \in Seq(S), NEW w \in Seq(S), w # <<>>
    PROVE  Append(t, Head(w)) \o Tail(w) = t \o w
<1>1. Head(w) \in S /\ Tail(w) \in Seq(S)
  BY HeadTailProperties
<1>2. PICK h : h = <<Head(w)>>
  OBVIOUS
<1>3. h \in Seq(S) /\ Append(t, Head(w)) = t \o h
  BY <1>1, <1>2, AppendIsConcat
<1>4. w = h \o Tail(w)
  <2>1. PICK v, g : v = Tail(w) /\ g = Head(w)
    OBVIOUS
  <2>2. h = <<g>> /\ h \in Seq(S) /\ Len(h) = 1 /\ h[1] = g
    BY <1>2, <1>3, <2>1
  <2>3. v \in Seq(S) /\ Len(v) = Len(w) - 1 /\ \A i \in 1..Len(v) : v[i] = w[i + 1]
    BY <2>1, HeadTailProperties
  <2>4. g = w[1] /\ Len(w) \in Nat \ {0}
    BY <2>1, EmptySeq
  <2>5. h \o v \in Seq(S) /\ Len(h \o v) = 1 + Len(v)
        /\ \A i \in 1..1 + Len(v) : (h \o v)[i] = IF i <= 1 THEN h[i] ELSE v[i - 1]
    BY <2>2, <2>3, ConcatProperties
  <2>6. Len(h \o v) = Len(w)
    BY <2>3, <2>4, <2>5
  <2>7. ASSUME NEW i \in 1..Len(w) PROVE w[i] = (h \o v)[i]
    <3>1. CASE i = 1
      BY <2>2, <2>3, <2>4, <2>5, <3>1
    <3>2. CASE i # 1
      <4>1. i \in 1..1 + Len(v) /\ ~(i <= 1) /\ i - 1 \in 1..Len(v) /\ i - 1 + 1 = i
        BY <2>3, <2>4, <3>2
      <4> QED BY <2>3, <2>5, <4>1
    <3> QED BY <3>1, <3>2
  <2> QED BY <2>1, <2>5, <2>6, <2>7, SeqEqual
<1>5. (t \o h) \o Tail(w) = t \o (h \o Tail(w))
  BY <1>1, <1>3, ConcatAssociative
<1> QED BY <1>3, <1>4, <1>5

(* What is known of a read in step.                                        *)
LEMMA ReadInStep ==
    ASSUME FramesInv, InStep, ~cut
    PROVE  /\ ~Refused /\ (taken = <<>> => ~Complete)
           /\ taken # <<>> => LET next == sent[Len(parsed) + 1] IN
                 /\ Len(parsed) + 1 \in 1..Len(sent) /\ next \in Packet
                 /\ Complete <=> Len(taken) = Len(Encode(next, 0))
                 /\ Complete => Parse(SubSeq(taken, PrefixSize + 1, Len(taken))) = next
<1>0. VarIntBytes \in Nat \ {0}
  BY FramesAssumption
<1>1. taken \in Seq(Digit) /\ wire \in Seq(Digit) /\ sent \in Seq(Packet) /\ parsed \in Seq(Frame)
  BY DEF FramesInv
<1>2. CASE taken = <<>>
  <2>1. Len(<<>>) = 0 /\ \A n \in 1..VarIntBytes : ~(n <= 0)
    BY <1>0
  <2>2. Prefix = {}
    BY <1>2, <2>1 DEF Prefix, VarintSizes
  <2> QED BY <1>0, <1>2, <2>1, <2>2 DEF Refused, Complete
<1>3. CASE taken # <<>>
  <2>1. PICK k, l \in Nat : k = Len(parsed) /\ l = Len(sent)
    BY <1>1
  <2>2. k < l /\ Len(taken) <= Len(Encode(sent[k + 1], 0))
    BY <1>3, <2>1 DEF InStep
  <2>3. k + 1 \in 1..l /\ k \in k..l /\ k + 1 \in k..l /\ k + 1 \in k + 1..l /\ (k + 1) - 1 = k
    BY <2>1, <2>2
  <2>4. PICK next \in Packet : next = sent[k + 1]
    BY <1>1, <2>1, <2>3, ElementOfSeq
  <2>5. PICK rests : Laid(rests, k)
    BY <2>1 DEF InStep
  <2>6. PICK e, r \in Seq(Digit) : e = Encode(next, 0) /\ r = rests[k + 1]
    BY <2>1, <2>3, <2>5, Encoded DEF Laid
  <2>7. taken \o wire = e \o r
    BY <2>1, <2>3, <2>4, <2>5, <2>6 DEF Laid
  <2>8. Len(taken) <= Len(e) /\ \A i \in 1..Len(taken) : taken[i] = e[i]
    <3>1. Len(taken) <= Len(e)
      BY <2>2, <2>4, <2>6
    <3>2. PICK t, w : t = taken /\ w = wire
      OBVIOUS
    <3>3. t \in Seq(Digit) /\ w \in Seq(Digit) /\ t \o w = e \o r /\ Len(t) <= Len(e)
      BY <1>1, <2>7, <3>1, <3>2
    <3>4. e \in Seq(Digit) /\ r \in Seq(Digit)
      BY <2>6
    <3>5. /\ \A i \in 1..Len(t) : t[i] = e[i]
          /\ Len(t) = Len(e) => t = e /\ w = r
          /\ w = <<>> => Len(t) = Len(e)
      BY ONLY <3>3, <3>4, Prefixed
    <3> QED BY <3>1, <3>2, <3>5
  <2>9. Partly(next)
    BY <2>6, <2>8 DEF Partly
  <2>10. /\ ~Refused /\ (Complete <=> Len(taken) = Len(Encode(next, 0)))
         /\ Complete => Parse(SubSeq(taken, PrefixSize + 1, Len(taken))) = next
    BY <1>1, <2>9, UnderWay
  <2> QED BY <1>3, <2>1, <2>3, <2>4, <2>10
<1> QED BY <1>2, <1>3

LEMMA InStepFirst == FramesInit => InStep
<1> SUFFICES ASSUME FramesInit PROVE InStep
  OBVIOUS
<1>1. sent = <<>> /\ parsed = <<>> /\ taken = <<>> /\ wire = <<>> /\ Len(<<>>) = 0
  BY DEF FramesInit
<1>2. PICK rests : rests = [n \in 0..0 |-> <<>>]
  OBVIOUS
<1>3. <<>> \in Seq(Digit) /\ <<>> \o <<>> = <<>>
  BY EmptySeq, ConcatEmptySeq
<1>4. Laid(rests, 0)
  BY <1>1, <1>2, <1>3 DEF Laid
<1> QED BY <1>1, <1>4 DEF InStep

(* What keeps the bytes, the packets and the read.                         *)
LEMMA InStepKept ==
    ASSUME InStep, UNCHANGED <<wire, taken, sent, parsed>>, cut' = FALSE => cut = FALSE, cut \in BOOLEAN, cut' \in BOOLEAN
    PROVE  InStep'
<1>1. SUFFICES ASSUME ~cut' PROVE InStep'
  BY DEF InStep
<1>2. ~cut
  BY <1>1
<1>3. PICK rests : Laid(rests, Len(parsed))
  BY <1>2 DEF InStep
<1>4. Laid(rests, Len(parsed))'
  BY <1>3 DEF Laid
<1>5. \E r : Laid(r, Len(parsed))'
  BY <1>4
<1> QED BY <1>2, <1>5 DEF InStep

LEMMA InStepSend ==
    ASSUME Threshold = 0, FramesInv, InStep, NEW packet \in Packet, Send(packet)
    PROVE  InStep'
<1>1. taken \in Seq(Digit) /\ wire \in Seq(Digit) /\ sent \in Seq(Packet) /\ parsed \in Seq(Frame)
  BY DEF FramesInv
<1>2. PICK e \in Seq(Digit) : e = Encode(packet, 0)
  BY Encoded
<1>3. /\ sent' = Append(sent, packet) /\ wire' = wire \o e
      /\ taken' = taken /\ parsed' = parsed /\ cut' = cut
  BY <1>2 DEF Send
<1>4. SUFFICES ASSUME ~cut PROVE InStep'
  BY <1>3 DEF InStep
<1>5. PICK k, l \in Nat : k = Len(parsed) /\ l = Len(sent)
  BY <1>1
<1>6. k <= l /\ (\A i \in 1..k : parsed[i] = sent[i])
  BY <1>4, <1>5 DEF InStep
<1>7. PICK rests : Laid(rests, k)
  BY <1>4, <1>5 DEF InStep
<1>8. /\ rests \in [k..l -> Seq(Digit)] /\ rests[k] = taken \o wire /\ rests[l] = <<>>
      /\ \A n \in k + 1..l : rests[n - 1] = Encode(sent[n], 0) \o rests[n]
  BY <1>5, <1>7 DEF Laid
<1>9. Len(sent') = l + 1 /\ sent'[l + 1] = packet /\ \A n \in 1..l : sent'[n] = sent[n]
  BY <1>1, <1>3, <1>5, AppendProperties
<1>10. PICK more : more = [n \in k..l + 1 |-> IF n = l + 1 THEN <<>> ELSE rests[n] \o e]
  OBVIOUS
<1>11. \A n \in k..l : n \in k..l + 1 /\ n # l + 1 /\ rests[n] \o e \in Seq(Digit) /\ more[n] = rests[n] \o e
  <2> SUFFICES ASSUME NEW n \in k..l
               PROVE  n \in k..l + 1 /\ n # l + 1 /\ rests[n] \o e \in Seq(Digit) /\ more[n] = rests[n] \o e
    OBVIOUS
  <2>1. n \in k..l + 1 /\ n # l + 1
    OBVIOUS
  <2>2. rests[n] \in Seq(Digit)
    BY <1>8
  <2>3. rests[n] \o e \in Seq(Digit)
    BY <2>2, ConcatProperties
  <2> QED BY <1>10, <2>1, <2>3
<1>12. more[l + 1] = <<>> /\ <<>> \in Seq(Digit) /\ l + 1 \in k..l + 1
  BY <1>6, <1>10, EmptySeq
<1>13. more \in [k..l + 1 -> Seq(Digit)]
  <2>1. \A n \in k..l + 1 : n = l + 1 \/ n \in k..l
    OBVIOUS
  <2> QED BY <1>10, <1>11, <1>12, <2>1
<1>14. more[k] = taken' \o wire'
  <2>1. k \in k..l
    BY <1>6
  <2>2. (taken \o wire) \o e = taken \o (wire \o e)
    BY <1>1, ConcatAssociative
  <2> QED BY <1>3, <1>8, <1>11, <2>1, <2>2
<1>15. ASSUME NEW n \in k + 1..l + 1 PROVE more[n - 1] = Encode(sent'[n], 0) \o more[n]
  <2>1. CASE n = l + 1
    <3>1. l \in k..l /\ n - 1 = l
      BY <1>6, <2>1
    <3>2. more[l] = rests[l] \o e
      BY <1>11, <3>1
    <3>3. more[l] = e
      BY <1>8, <3>2, ConcatEmptySeq
    <3>4. Encode(sent'[n], 0) \o more[n] = e
      BY <1>2, <1>9, <1>12, <2>1, ConcatEmptySeq
    <3> QED BY <3>1, <3>3, <3>4
  <2>2. CASE n # l + 1
    <3>1. n \in k + 1..l /\ n \in k..l /\ n - 1 \in k..l /\ n \in 1..l
      BY <2>2
    <3>2. PICK f, r \in Seq(Digit) : f = Encode(sent[n], 0) /\ r = rests[n]
      <4>1. sent[n] \in Packet
        BY <1>1, <1>5, <3>1, ElementOfSeq
      <4>2. Encode(sent[n], 0) \in Seq(Digit) /\ rests[n] \in Seq(Digit)
        BY <1>8, <3>1, <4>1, Encoded
      <4> QED BY <4>2
    <3>3. rests[n - 1] = f \o r
      BY <1>8, <3>1, <3>2
    <3>4. (f \o r) \o e = f \o (r \o e)
      BY ConcatAssociative
    <3>5. more[n - 1] = rests[n - 1] \o e /\ more[n] = r \o e
      BY <1>11, <3>1, <3>2
    <3> QED BY <1>9, <3>1, <3>2, <3>3, <3>4, <3>5
  <2> QED BY <2>1, <2>2
<1>16. Laid(more, k)'
  BY <1>9, <1>12, <1>13, <1>14, <1>15 DEF Laid
<1>17. Len(parsed') = k /\ Len(parsed') <= Len(sent') /\ \A i \in 1..Len(parsed') : parsed'[i] = sent'[i]
  <2>1. Len(parsed') = k /\ k <= l + 1 /\ \A i \in 1..k : i \in 1..l
    BY <1>3, <1>5, <1>6
  <2> QED BY <1>3, <1>6, <1>9, <2>1
<1>18. ASSUME taken # <<>> PROVE k < Len(sent') /\ Len(taken') <= Len(Encode(sent'[k + 1], 0))
  <2>1. k < l /\ Len(taken) <= Len(Encode(sent[k + 1], 0))
    BY <1>4, <1>5, <1>18 DEF InStep
  <2>2. k + 1 \in 1..l /\ k < l + 1
    BY <2>1
  <2> QED BY <1>3, <1>9, <2>1, <2>2
<1>19. \E r : Laid(r, Len(parsed))'
  BY <1>16, <1>17
<1> QED BY <1>3, <1>17, <1>18, <1>19 DEF InStep

LEMMA InStepTake ==
    ASSUME FramesInv, InStep, Take
    PROVE  InStep'
<1>1. taken \in Seq(Digit) /\ wire \in Seq(Digit) /\ sent \in Seq(Packet) /\ parsed \in Seq(Frame)
  BY DEF FramesInv
<1>2. /\ wire # <<>> /\ ~Complete /\ taken' = Append(taken, Head(wire)) /\ wire' = Tail(wire)
      /\ sent' = sent /\ parsed' = parsed /\ cut' = cut
  BY DEF Take
<1>3. SUFFICES ASSUME ~cut PROVE InStep'
  BY <1>2 DEF InStep
<1>4. PICK k, l \in Nat : k = Len(parsed) /\ l = Len(sent)
  BY <1>1
<1>5. k <= l /\ (\A i \in 1..k : parsed[i] = sent[i])
  BY <1>3, <1>4 DEF InStep
<1>6. PICK rests : Laid(rests, k)
  BY <1>3, <1>4 DEF InStep
<1>7. taken' \o wire' = taken \o wire
  BY <1>1, <1>2, Moved
<1>8. Laid(rests, k)'
  BY <1>2, <1>6, <1>7 DEF Laid
<1>9. k < l
  <2>1. CASE k = l
    <3>1. taken \o wire = <<>>
      BY <1>4, <1>6, <2>1 DEF Laid
    <3>2. wire = <<>>
      BY <1>1, <3>1, ConcatSimplifications
    <3> QED BY <1>2, <3>2
  <2> QED BY <1>5, <2>1
<1>10. Len(taken') <= Len(Encode(sent[k + 1], 0))
  <2>1. PICK next \in Packet : next = sent[k + 1]
    <3>1. k + 1 \in 1..l
      BY <1>9
    <3> QED BY <1>1, <1>4, <3>1, ElementOfSeq
  <2>2. PICK t, m \in Nat : t = Len(taken) /\ m = Len(Encode(next, 0))
    BY <1>1, <2>1, Encoded, LenProperties
  <2>3. Len(taken') = t + 1
    BY <1>1, <1>2, <2>2, HeadTailProperties, AppendProperties
  <2>4. t < m
    <3>1. CASE taken = <<>>
      <4>1. t = 0
        BY <2>2, <3>1
      <4>2. PICK x, b \in Seq(Digit) : Encode(next, 0) = x \o b /\ Len(x) >= 1
        <5>1. VarIntBytes \in Nat
          BY FramesAssumption
        <5>2. \A n \in 1..VarIntBytes : n >= 1
          BY <5>1
        <5> QED BY <5>2, Uncompressed
      <4>3. m = Len(x) + Len(b) /\ Len(x) \in Nat /\ Len(b) \in Nat
        BY <2>2, <4>2, ConcatProperties, LenProperties
      <4> QED BY <4>1, <4>2, <4>3
    <3>2. CASE taken # <<>>
      <4>1. t <= m
        BY <1>3, <1>4, <2>1, <2>2, <3>2 DEF InStep
      <4>2. t # m
        BY <1>2, <1>3, <1>4, <2>1, <2>2, <3>2, ReadInStep
      <4> QED BY <4>1, <4>2
    <3> QED BY <3>1, <3>2
  <2>5. t + 1 <= m
    BY <2>4
  <2> QED BY <2>1, <2>2, <2>3, <2>5
<1>11. \E r : Laid(r, Len(parsed))'
  BY <1>2, <1>4, <1>8
<1>12. Len(parsed') <= Len(sent') /\ \A i \in 1..Len(parsed') : parsed'[i] = sent'[i]
  BY <1>2, <1>4, <1>5
<1>13. Len(parsed') < Len(sent') /\ Len(taken') <= Len(Encode(sent'[Len(parsed') + 1], 0))
  BY <1>2, <1>4, <1>9, <1>10
<1> QED BY <1>2, <1>11, <1>12, <1>13 DEF InStep

LEMMA InStepReadFrame ==
    ASSUME FramesInv, InStep, ReadFrame
    PROVE  InStep'
<1>1. taken \in Seq(Digit) /\ wire \in Seq(Digit) /\ sent \in Seq(Packet) /\ parsed \in Seq(Frame)
  BY DEF FramesInv
<1>2. PICK frame : frame = SubSeq(taken, PrefixSize + 1, Len(taken))
  OBVIOUS
<1>3. /\ Complete /\ taken' = <<>> /\ parsed' = Append(parsed, Parse(frame))
      /\ wire' = wire /\ sent' = sent /\ cut' = cut
  BY <1>2 DEF ReadFrame
<1>4. SUFFICES ASSUME ~cut PROVE InStep'
  BY <1>3 DEF InStep
<1>5. taken # <<>>
  BY <1>3, <1>4, ReadInStep
<1>6. PICK k, l \in Nat : k = Len(parsed) /\ l = Len(sent)
  BY <1>1
<1>7. PICK next \in Packet : /\ next = sent[k + 1] /\ k + 1 \in 1..l
                             /\ Len(taken) = Len(Encode(next, 0)) /\ Parse(frame) = next
  BY <1>2, <1>3, <1>4, <1>5, <1>6, ReadInStep
<1>8. k < l /\ (\A i \in 1..k : parsed[i] = sent[i])
  BY <1>4, <1>6, <1>7 DEF InStep
<1>9. PICK rests : Laid(rests, k)
  BY <1>4, <1>6 DEF InStep
<1>10. k + 1 \in k + 1..l /\ k + 1 \in k..l /\ (k + 1) - 1 = k
  BY <1>8
<1>11. wire = rests[k + 1]
  <2>1. PICK e, r \in Seq(Digit) : e = Encode(next, 0) /\ r = rests[k + 1]
    BY <1>6, <1>9, <1>10, Encoded DEF Laid
  <2>2. taken \o wire = e \o r
    BY <1>6, <1>7, <1>9, <1>10, <2>1 DEF Laid
  <2>3. PICK t, w : t = taken /\ w = wire
    OBVIOUS
  <2>4. t \in Seq(Digit) /\ w \in Seq(Digit) /\ e \in Seq(Digit) /\ r \in Seq(Digit)
    BY <1>1, <2>1, <2>3
  <2>41. t \o w = e \o r /\ Len(t) = Len(e)
    BY <1>7, <2>1, <2>2, <2>3
  <2>42. Len(t) <= Len(e)
    <3>1. Len(t) \in Nat
      BY <2>4, LenProperties
    <3> QED BY <2>41, <3>1
  <2>5. /\ \A i \in 1..Len(t) : t[i] = e[i]
        /\ Len(t) = Len(e) => t = e /\ w = r
        /\ w = <<>> => Len(t) = Len(e)
    <3>1. t \o w = e \o r
      BY <2>41
    <3> QED BY ONLY <2>4, <2>42, <3>1, Prefixed
  <2> QED BY <2>1, <2>3, <2>41, <2>5
<1>12. PICK rest : rest = [n \in k + 1..l |-> rests[n]]
  OBVIOUS
<1>13. /\ rest \in [k + 1..l -> Seq(Digit)] /\ rest[k + 1] = rests[k + 1] /\ rest[l] = <<>>
       /\ \A n \in (k + 1) + 1..l : rest[n - 1] = Encode(sent[n], 0) \o rest[n]
  <2>1. \A n \in k + 1..l : n \in k..l
    BY <1>8
  <2>2. l \in k + 1..l
    BY <1>8
  <2>3. \A n \in (k + 1) + 1..l : n \in k + 1..l /\ n - 1 \in k + 1..l
    BY <1>8
  <2> QED BY <1>6, <1>9, <1>10, <1>12, <2>1, <2>2, <2>3 DEF Laid
<1>14. taken' \o wire' = rest[k + 1]
  BY <1>1, <1>3, <1>11, <1>13, ConcatEmptySeq
<1>15. Laid(rest, k + 1)'
  BY <1>3, <1>6, <1>13, <1>14 DEF Laid
<1>16. /\ Len(parsed') = k + 1 /\ parsed'[k + 1] = next /\ \A i \in 1..k : parsed'[i] = parsed[i]
  <2>1. next \in Frame
    <3>1. Parse(frame) \in Frame
      <4>1. PICK n : n \in Prefix
        BY <1>3 DEF Complete
      <4>2. PrefixSize = n /\ n \in 1..Len(taken) /\ Len(taken) \in Nat
        BY <1>1, <4>1, OneSize, LenProperties DEF Prefix, PrefixSize
      <4>3. \A i \in n + 1..Len(taken) : taken[i] \in Digit
        BY <1>1, <4>2
      <4>4. frame \in Seq(Digit)
        BY <1>2, <4>2, <4>3, SubSeqProperties
      <4> QED BY <4>4, Parses
    <3> QED BY <1>7, <3>1
  <2> QED BY <1>1, <1>3, <1>6, <1>7, <2>1, AppendProperties
<1>17. k + 1 <= l /\ \A i \in 1..k + 1 : parsed'[i] = sent[i]
  <2>1. \A i \in 1..k + 1 : i \in 1..k \/ i = k + 1
    OBVIOUS
  <2>2. k + 1 <= l
    BY <1>8
  <2> QED BY <1>7, <1>8, <1>16, <2>1, <2>2
<1>18. \E r : Laid(r, Len(parsed))'
  BY <1>15, <1>16
<1>19. Len(parsed') <= Len(sent') /\ \A i \in 1..Len(parsed') : parsed'[i] = sent'[i]
  BY <1>3, <1>6, <1>16, <1>17
<1> QED BY <1>3, <1>18, <1>19 DEF InStep

LEMMA InStepReadError ==
    ASSUME FramesInv, InStep, ReadError
    PROVE  InStep'
<1>1. taken \in Seq(Digit) /\ wire \in Seq(Digit) /\ sent \in Seq(Packet) /\ cut \in BOOLEAN
  BY DEF FramesInv
<1>2. /\ Refused \/ (wire = <<>> /\ ~Complete)
      /\ taken' = <<>> /\ wire' = wire /\ sent' = sent /\ parsed' = parsed /\ cut' = cut
  BY DEF ReadError
<1>3. SUFFICES ASSUME ~cut PROVE InStep'
  BY <1>2 DEF InStep
<1>4. wire = <<>> /\ ~Complete
  BY <1>2, <1>3, ReadInStep
<1>5. taken = <<>>
  <2> SUFFICES ASSUME taken # <<>> PROVE FALSE
    OBVIOUS
  <2>0. PICK k : k = Len(parsed)
    OBVIOUS
  <2>1. PICK next \in Packet : /\ k = Len(parsed) /\ next = sent[k + 1] /\ k + 1 \in 1..Len(sent)
                               /\ (Complete <=> Len(taken) = Len(Encode(next, 0)))
    BY <1>3, <2>0, ReadInStep
  <2>2. k \in Nat /\ Len(sent) \in Nat
    BY <1>1, <2>1, LenProperties DEF FramesInv
  <2>3. PICK rests : Laid(rests, k)
    BY <1>3, <2>1 DEF InStep
  <2>4. k + 1 \in k + 1..Len(sent) /\ k + 1 \in k..Len(sent) /\ (k + 1) - 1 = k
    BY <2>1, <2>2
  <2>5. PICK e, r \in Seq(Digit) : e = Encode(next, 0) /\ r = rests[k + 1]
    BY <2>3, <2>4, Encoded DEF Laid
  <2>6. taken \o wire = e \o r
    BY <2>1, <2>3, <2>4, <2>5 DEF Laid
  <2>7. Len(taken) <= Len(e)
    BY <1>3, <2>1, <2>5 DEF InStep
  <2>8. PICK t, w : t = taken /\ w = wire
    OBVIOUS
  <2>9. t \in Seq(Digit) /\ w \in Seq(Digit) /\ t \o w = e \o r /\ Len(t) <= Len(e) /\ w = <<>>
    BY <1>1, <1>4, <2>6, <2>7, <2>8
  <2>10. Len(t) = Len(e)
    BY <2>5, <2>9, Prefixed
  <2> QED BY <1>4, <2>1, <2>5, <2>8, <2>10
<1>6. UNCHANGED <<wire, taken, sent, parsed>>
  BY <1>2, <1>5
<1> QED BY <1>1, <1>2, <1>6, InStepKept

LEMMA InStepTimeOut ==
    ASSUME FramesInv, InStep, TimeOut
    PROVE  InStep'
<1>1. taken' = <<>> /\ cut' = (cut \/ taken # <<>>) /\ UNCHANGED <<wire, sent, parsed>>
  BY DEF TimeOut
<1>2. CASE taken = <<>> /\ ~cut
  <2>1. UNCHANGED <<wire, taken, sent, parsed>> /\ cut' \in BOOLEAN /\ cut = FALSE /\ cut \in BOOLEAN
    BY <1>1, <1>2 DEF FramesInv
  <2> QED BY <2>1, InStepKept
<1>3. CASE ~(taken = <<>> /\ ~cut)
  <2>1. cut'
    BY <1>1, <1>3
  <2> QED BY <2>1 DEF InStep
<1> QED BY <1>2, <1>3

(* Without compression the server parses the packets the client sent, one  *)
(* for one and in order, as long as no read was given up with bytes in its *)
(* hands, and all of them once nothing is on its way: the lengths that     *)
(* read_frame takes from the stream stay at the beginnings of frames.      *)
THEOREM PacketsArrive ==
    ASSUME Threshold = 0
    PROVE  FramesSpec => []PacketsUnderstood
<1>1. FramesInit => InStep
  BY InStepFirst
<1>2. FramesInv /\ InStep /\ [FramesNext]_frames_vars => InStep'
  <2> SUFFICES ASSUME FramesInv, InStep, [FramesNext]_frames_vars PROVE InStep'
    OBVIOUS
  <2>0. cut \in BOOLEAN
    BY DEF FramesInv
  <2>1. ASSUME NEW packet \in Packet, Send(packet) PROVE InStep'
    BY <2>1, InStepSend
  <2>2. CASE HangUp
    BY <2>0, <2>2, InStepKept DEF HangUp
  <2>3. CASE Take
    BY <2>3, InStepTake
  <2>4. CASE ReadFrame
    BY <2>4, InStepReadFrame
  <2>5. CASE ReadError
    BY <2>5, InStepReadError
  <2>6. CASE TimeOut
    BY <2>6, InStepTimeOut
  <2>7. CASE UNCHANGED frames_vars
    BY <2>0, <2>7, InStepKept DEF frames_vars
  <2> QED BY <2>1, <2>2, <2>3, <2>4, <2>5, <2>6, <2>7 DEF FramesNext
<1>3. FramesInv /\ InStep => PacketsUnderstood
  <2> SUFFICES ASSUME FramesInv, InStep, ~cut PROVE PacketsUnderstood
    BY DEF PacketsUnderstood
  <2>1. sent \in Seq(Packet) /\ parsed \in Seq(Frame)
    BY DEF FramesInv
  <2>2. Len(parsed) <= Len(sent) /\ \A i \in 1..Len(parsed) : parsed[i] = sent[i]
    BY DEF InStep
  <2>3. ASSUME wire = <<>>, taken = <<>> PROVE parsed = sent
    <3>1. PICK k, l \in Nat : k = Len(parsed) /\ l = Len(sent)
      BY <2>1
    <3>2. PICK rests : Laid(rests, k)
      BY <3>1 DEF InStep
    <3>3. rests[k] = <<>>
      BY <2>3, <3>2, ConcatEmptySeq DEF Laid
    <3>4. k = l
      <4> SUFFICES ASSUME k < l PROVE FALSE
        BY <2>2, <3>1
      <4>1. k + 1 \in k + 1..l /\ k + 1 \in k..l /\ k + 1 \in 1..l /\ (k + 1) - 1 = k
        OBVIOUS
      <4>2. PICK next \in Packet : next = sent[k + 1]
        BY <2>1, <3>1, <4>1, ElementOfSeq
      <4>3. PICK x, b \in Seq(Digit) : Encode(next, 0) = x \o b /\ Len(x) >= 1
        <5>1. VarIntBytes \in Nat
          BY FramesAssumption
        <5>2. \A n \in 1..VarIntBytes : n >= 1
          BY <5>1
        <5> QED BY <5>2, Uncompressed
      <4>4. PICK e, r \in Seq(Digit) : e = Encode(next, 0) /\ r = rests[k + 1]
        BY <3>1, <3>2, <4>1, Encoded DEF Laid
      <4>5. e \o r = <<>>
        BY <3>1, <3>2, <3>3, <4>1, <4>2, <4>4 DEF Laid
      <4>6. e = <<>>
        BY <4>5, ConcatSimplifications
      <4>7. x = <<>>
        BY <4>3, <4>4, <4>6, ConcatSimplifications
      <4>8. Len(x) = 0
        BY <4>7
      <4> QED BY <4>3, <4>8
    <3>5. PICK S : S = Packet \cup Frame
      OBVIOUS
    <3>6. parsed \in Seq(S) /\ sent \in Seq(S)
      <4>1. Packet \subseteq S /\ Frame \subseteq S
        BY <3>5
      <4> QED BY <2>1, <4>1, SeqMonotonic
    <3> QED BY <2>2, <3>1, <3>4, <3>6, SeqEqual
  <2> QED BY <2>2, <2>3 DEF PacketsUnderstood
<1> QED BY <1>1, <1>2, <1>3, FramesTyped, PTL DEF FramesSpec

-----------------------------------------------------------------------------
(* The three beside each other                                             *)

LEMMA EachGoesItsWay == ViewsSpec => StreamingSpec /\ Spec /\ FramesSpec
<1>1. ViewsInit => StreamingInit /\ Init /\ FramesInit
  BY DEF ViewsInit
<1>2. [ViewsNext]_<<part, streaming_vars, vars, frames_vars>> =>
          [StreamingNext]_streaming_vars /\ [Next]_vars /\ [FramesNext]_frames_vars
  BY DEF ViewsNext
<1> QED BY <1>1, <1>2, PTL DEF ViewsSpec, StreamingSpec, Spec, FramesSpec

(* What the server and its clients know of each other keeps its type in    *)
(* every behaviour of the three modules beside each other.                 *)
THEOREM ViewsTypeCorrect == ViewsSpec => []ViewsTypeOK
<1>1. StreamingTypeOK /\ TypeOK /\ FramesTypeOK => ViewsTypeOK
  BY DEF ViewsTypeOK
<1> QED BY <1>1, EachGoesItsWay, StreamingTypeCorrect, EntitiesTypeCorrect, FramesTypeCorrect, PTL
===============================================================================
