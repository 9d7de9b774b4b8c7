-------------------------------- MODULE World ---------------------------------
(***************************************************************************)
(* Time, weather, dimensions and the border: WorldState behind its lock     *)
(* (mc-core/src/world_state.rs), the stages of the tick loop that change it *)
(* or move players by it, the players' own tasks, which do some of the same,*)
(* and the commands about the world.  The loop tells clients by events that *)
(* wait in a broadcast channel; a task tells its own client at once.  Every *)
(* step is one access to a lock or to a player's entry.                     *)
(***************************************************************************)
EXTENDS Integers, FiniteSets, SequencesExt

CONSTANTS
    Roamers,       \* players
    FrostWalkers,  \* those with frost walker boots
    Day, Night,    \* daytime runs from 0 to Day - 1; one can sleep from Night on (24000, 12542)
    Second,        \* ticks between two rounds of the slow stages (20)
    LongestSky,    \* largest weather timer
    TrustLimit,    \* violations at which a player is put back (four, of two points each)
    MailCap,       \* capacity of the broadcast channel
    WorldSteps     \* bound: what tasks do, where a command counts for two

ASSUME WorldAssumption ==
    /\ IsFiniteSet(Roamers) /\ "all" \notin Roamers /\ FrostWalkers \subseteq Roamers
    /\ {Day, Night} \subseteq Nat \ {0} /\ Night < Day
    /\ {Second, LongestSky, TrustLimit, MailCap} \subseteq Nat \ {0} /\ WorldSteps \in Nat

VARIABLES
    world,    \* WorldState
    pulse,    \* the tick loop: its stage, its tick, and what it has still to do with copies
    roamers,  \* PlayerManager.players: player -> entry
    hands,    \* a player's task: idle, at a portal, or with the dimension it has read
    mail,     \* events of the channel a player's task has not handled
    views,    \* what a client shows
    forgiven,  \* history: what a client has no reason to show right (see WorldTold)
    wsteps    \* bound
world_vars == <<world, pulse, roamers, hands, mail, views, forgiven, wsteps>>

Skies == {"clear", "rain", "thunder"}
Dims == {"overworld", "nether"}
Grounds == {"portal", "field", "outside"}   \* outside the border
Rules == {"doDaylightCycle", "doWeatherCycle"}
Full == 1
Here == DOMAIN roamers

Idle0 == [at |-> "wait", n |-> 0, sky |-> "clear", todo |-> <<>>, bound |-> FALSE, holds |-> {}]

WorldInit ==
    /\ world = [time |-> 0, daytime |-> 0, sky |-> "clear", timer |-> 1, rules |-> Rules,
                frozen |-> FALSE, narrow |-> FALSE]
    /\ pulse = Idle0
    /\ roamers = [p \in {} |-> 0] /\ hands = [p \in {} |-> 0]
    /\ mail = [p \in {} |-> 0] /\ views = [p \in {} |-> 0] /\ forgiven = [p \in {} |-> 0]
    /\ wsteps = 0

\* An entry whose lock the stuck loop holds can be reached by nobody.
Reached(p) == p \in Here /\ p \notin pulse.holds
Set(p, entry) == roamers' = [roamers EXCEPT ![p] = entry]
Step0 == wsteps < WorldSteps /\ wsteps' = wsteps + 1
Order0 == wsteps + 2 <= WorldSteps /\ wsteps' = wsteps + 2
Excuse(S, what) == [p \in DOMAIN forgiven |-> IF p \in S THEN forgiven[p] \cup {what} ELSE forgiven[p]]
Forgive(what) == [p \in DOMAIN forgiven |-> forgiven[p] \ {what}]

-----------------------------------------------------------------------------
(* The channel.  Every receiver gets every event; one that is behind loses   *)
(* its oldest.                                                               *)

Post(event) == [p \in DOMAIN mail |-> LET q == Append(mail[p], event)
                                       IN IF Len(q) > MailCap THEN Tail(q) ELSE q]
MeantFor(p, event) == event.who \in {p, "all"}
Missing(p) == IF Len(mail[p]) = MailCap /\ MeantFor(p, mail[p][1]) THEN {mail[p][1].what} ELSE {}
\* Sent, with what it pushes out of receivers.
Sent(event) ==
    /\ mail' = Post(event)
    /\ forgiven' = [p \in DOMAIN forgiven |-> forgiven[p] \cup Missing(p)]
SkyEvent(sky) == [what |-> "sky", now |-> sky, who |-> "all"]
DimEvent(p, dim) == [what |-> "dim", now |-> dim, who |-> p]
Waiting(p, what) == \E i \in DOMAIN mail[p] : mail[p][i].what = what /\ MeantFor(p, mail[p][i])

-----------------------------------------------------------------------------
(* The tick loop: time and weather *)

Loop(stage) == pulse' = [pulse EXCEPT !.at = stage]

\* A frozen loop asks again; a sprinting one only asks sooner.
ReadControl ==
    /\ pulse.at = "wait" /\ ~world.frozen
    /\ pulse' = [pulse EXCEPT !.at = "time", !.n = (@ + 1) % Second]
    /\ UNCHANGED <<world, roamers, hands, mail, views, forgiven, wsteps>>

\* daytime follows time, and forgets that somebody slept.
Later(w, ticks) ==
    IF "doDaylightCycle" \in w.rules
    THEN [w EXCEPT !.time = (@ + ticks) % Day, !.daytime = (w.time + ticks) % Day]
    ELSE w
AddTime ==
    /\ pulse.at = "time"
    /\ world' = Later(world, 1)
    /\ Loop(IF pulse.n = 0 THEN "sky" ELSE "wait")
    /\ UNCHANGED <<roamers, hands, mail, views, forgiven, wsteps>>

NextSky == [clear |-> "rain", rain |-> "thunder", thunder |-> "clear"]
CountedDown(w) == [w EXCEPT !.timer = IF @ = 0 THEN 0 ELSE @ - 1]
\* The timer counts rounds of the slow stages, and /weather leaves it alone.
TickWeather ==
    /\ pulse.at = "sky"
    /\ LET cycle == "doWeatherCycle" \in world.rules
           w == CountedDown(world)
       IN IF cycle /\ w.timer = 0
          THEN /\ \E t \in 1..LongestSky : world' = [w EXCEPT !.sky = NextSky[@], !.timer = t]
               /\ pulse' = [pulse EXCEPT !.at = "tellSky", !.sky = NextSky[world.sky]]
               /\ forgiven' = Forgive("sky")
          ELSE /\ world' = (IF cycle THEN w ELSE world)
               /\ pulse' = [pulse EXCEPT !.at = "strike", !.sky = world.sky]
               /\ UNCHANGED forgiven
    /\ UNCHANGED <<roamers, hands, mail, views, wsteps>>
\* Of what it wrote, whatever /weather has made of it since.
TellWeather ==
    /\ pulse.at = "tellSky" /\ Sent(SkyEvent(pulse.sky))
    /\ Loop("strike")
    /\ UNCHANGED <<world, roamers, hands, views, wsteps>>

Wounded(e, points) == [e EXCEPT !.hp = IF @ > points THEN @ - points ELSE 0]
\* Lightning near a player: damage, then an instant effect, given under the lock of the
\* player's entry that applying it asks for again.  It never comes.
Strike ==
    /\ pulse.at = "strike"
    /\ \/ Loop("harm") /\ UNCHANGED roamers
       \/ /\ pulse.sky = "thunder"
          /\ \E p \in Here :
                /\ Set(p, Wounded(roamers[p], 1))
                /\ pulse' = [pulse EXCEPT !.at = "hung", !.holds = {p}]
    /\ UNCHANGED <<world, hands, mail, views, forgiven, wsteps>>

\* The void, a fall, water or a block over the head.  Frost walker boots hold the chunk while
\* they ask for it again.
TickEnvironmentalDamage ==
    /\ pulse.at = "harm"
    /\ \/ \E S \in SUBSET Here :
             /\ roamers' = [p \in Here |-> IF p \in S THEN Wounded(roamers[p], 1) ELSE roamers[p]]
             /\ pulse' = [pulse EXCEPT !.at = "portals"]
       \/ Here \cap FrostWalkers # {} /\ Loop("hung") /\ UNCHANGED roamers
    /\ UNCHANGED <<world, hands, mail, views, forgiven, wsteps>>

-----------------------------------------------------------------------------
(* The tick loop: portals and the border, both with copies of the players *)

Across(dim) == IF dim = "nether" THEN "overworld" ELSE "nether"
InPortals == {p \in Here : roamers[p].spot = "portal"}
TickPortals ==
    /\ pulse.at = "portals"
    /\ pulse' = [pulse EXCEPT !.at = "switch",
                  !.todo = SetToSeq({<<p, Across(roamers[p].dim)>> : p \in InPortals})]
    /\ UNCHANGED <<world, roamers, hands, mail, views, forgiven, wsteps>>
\* set_dimension, of one who may have left, or has been taken across by its own task.  Its
\* place on the server stays in the portal until the client says that it moved.
SwitchEntry ==
    /\ pulse.at = "switch" /\ pulse.todo # <<>>
    /\ LET p == pulse.todo[1][1]
       IN roamers' = [q \in Here |-> IF q = p THEN [roamers[q] EXCEPT !.dim = pulse.todo[1][2]] ELSE roamers[q]]
    /\ Loop("tellDim")
    /\ UNCHANGED <<world, hands, mail, views, forgiven, wsteps>>
BroadcastRespawn ==
    /\ pulse.at = "tellDim"
    /\ Sent(DimEvent(pulse.todo[1][1], pulse.todo[1][2]))
    /\ pulse' = [pulse EXCEPT !.at = "switch", !.todo = Tail(@)]
    /\ UNCHANGED <<world, roamers, hands, views, wsteps>>
PortalsDone ==
    /\ pulse.at = "switch" /\ pulse.todo = <<>>
    /\ pulse' = [pulse EXCEPT !.at = "border", !.bound = world.narrow]
    /\ UNCHANGED <<world, roamers, hands, mail, views, forgiven, wsteps>>

Copies(S) == SetToSeq({<<p, roamers[p].spot, roamers[p].hp>> : p \in S})
CopyPlayers ==
    /\ pulse.at = "border"
    /\ pulse' = [pulse EXCEPT !.at = "push", !.todo = IF pulse.bound THEN Copies(Here) ELSE <<>>]
    /\ UNCHANGED <<world, roamers, hands, mail, views, forgiven, wsteps>>
\* Half a block towards the middle, and the health less the damage: both of the copy.
PushBack ==
    /\ pulse.at = "push"
    /\ IF pulse.todo = <<>> THEN Loop("wait") /\ UNCHANGED roamers
       ELSE /\ pulse' = [pulse EXCEPT !.todo = Tail(@)]
            /\ \E spot \in {"outside", "field"}, deep \in BOOLEAN :
                LET p == pulse.todo[1][1]
                    hp == pulse.todo[1][3]
                IN IF p \in Here /\ pulse.todo[1][2] = "outside"
                   THEN Set(p, [roamers[p] EXCEPT !.spot = spot,
                                !.hp = IF ~deep THEN @ ELSE IF hp > 1 THEN hp - 1 ELSE 0])
                   ELSE UNCHANGED roamers
    /\ UNCHANGED <<world, hands, mail, views, forgiven, wsteps>>

-----------------------------------------------------------------------------
(* A player's task *)

NewRoamer == [spot |-> "field", dim |-> "overworld", hp |-> Full, valid |-> "field", suspected |-> 0]
\* The word that the loop has taken p across is still to be sent.
Untold(p) == pulse.at = "tellDim" /\ pulse.todo[1][1] = p
\* What a new client cannot know, or will be told of the player's last visit or although
\* /weather has changed it.
Unheard(p) ==
    (IF world.sky = "clear" /\ pulse.sky = "clear" THEN {} ELSE {"sky"})
    \cup (IF Untold(p) THEN {"dim"} ELSE {})
\* The client is sent the border, the spawn and the dimension; of the weather it hears nothing.
JoinWorld(p) ==
    /\ p \notin Here /\ Step0
    /\ roamers' = [q \in Here \cup {p} |-> IF q = p THEN NewRoamer ELSE roamers[q]]
    /\ hands' = [q \in Here \cup {p} |-> IF q = p THEN "idle" ELSE hands[q]]
    /\ mail' = [q \in Here \cup {p} |-> IF q = p THEN <<>> ELSE mail[q]]
    /\ views' = [q \in Here \cup {p} |-> IF q = p THEN [sky |-> "clear", dim |-> "overworld"] ELSE views[q]]
    /\ forgiven' = [q \in Here \cup {p} |-> IF q = p THEN Unheard(p) ELSE forgiven[q]]
    /\ UNCHANGED <<world, pulse>>
LeaveWorld(p) ==
    /\ Reached(p) /\ Step0
    /\ LET Without1(f) == [q \in Here \ {p} |-> f[q]]
       IN /\ roamers' = Without1(roamers) /\ hands' = Without1(hands) /\ mail' = Without1(mail)
          /\ views' = Without1(views) /\ forgiven' = Without1(forgiven)
    /\ UNCHANGED <<world, pulse>>

\* A move within the limit is taken, and one up or down beyond it is not; one aside beyond it
\* makes the player suspect until it is put back where it last was rightly, of which its client
\* is not told.
Validated(e, to, how) ==
    CASE how \in {"within", "withinCalm"} ->
            [e EXCEPT !.spot = to, !.valid = to, !.suspected = IF how = "withinCalm" /\ @ > 0 THEN @ - 1 ELSE @]
      [] how = "above" -> e
      [] how = "beyond" /\ e.suspected + 1 >= TrustLimit -> [e EXCEPT !.spot = e.valid, !.suspected = 0]
      [] OTHER -> [e EXCEPT !.suspected = @ + 1]
\* The portal is looked for where the client says it is, every so many rounds of its task.
Move(p) ==
    /\ Reached(p) /\ hands[p] = "idle" /\ Step0
    /\ \E to \in Grounds, how \in {"within", "withinCalm", "above", "beyond"}, asked \in BOOLEAN :
        /\ Set(p, Validated(roamers[p], to, how))
        /\ hands' = [hands EXCEPT ![p] = IF asked /\ to = "portal" THEN "atPortal" ELSE "idle"]
    /\ UNCHANGED <<world, pulse, mail, views, forgiven>>
\* The other kind of move is believed.
MoveAndLook(p) ==
    /\ Reached(p) /\ hands[p] = "idle" /\ Step0
    /\ \E to \in Grounds : Set(p, [roamers[p] EXCEPT !.spot = to])
    /\ UNCHANGED <<world, pulse, hands, mail, views, forgiven>>

PortalRead(p) ==
    /\ Reached(p) /\ hands[p] = "atPortal"
    /\ hands' = [hands EXCEPT ![p] = Across(roamers[p].dim)]
    /\ UNCHANGED <<world, pulse, roamers, mail, views, forgiven, wsteps>>
\* The loop has taken p across and its client does not know yet.
Underway(p) == Waiting(p, "dim") \/ Untold(p)
PortalSwitch(p) ==
    /\ Reached(p) /\ hands[p] \in Dims
    /\ Set(p, [roamers[p] EXCEPT !.dim = hands[p], !.spot = "field"])
    /\ views' = [views EXCEPT ![p].dim = hands[p]]
    /\ hands' = [hands EXCEPT ![p] = "idle"]
    /\ forgiven' = IF Underway(p) THEN Excuse({p}, "dim") ELSE [forgiven EXCEPT ![p] = @ \ {"dim"}]
    /\ UNCHANGED <<world, pulse, mail, wsteps>>

\* A death screen's respawn: sent with the dimension, and healed, but not moved.
BackIn_Home(e) == "overworld"   \* a plausible bug: the spawn is taken to be in the overworld
BackIn(e) == e.dim
ComeBack(p) ==
    /\ Reached(p) /\ hands[p] = "idle" /\ Step0
    /\ Set(p, [roamers[p] EXCEPT !.hp = Full])
    /\ views' = [views EXCEPT ![p].dim = BackIn(roamers[p])]
    /\ UNCHANGED <<world, pulse, hands, mail, forgiven>>

Handle0(view, p, event) ==
    IF ~MeantFor(p, event) THEN view
    ELSE IF event.what = "sky" THEN [view EXCEPT !.sky = event.now] ELSE [view EXCEPT !.dim = event.now]
HandleMail(p) ==
    /\ Reached(p) /\ hands[p] = "idle" /\ mail[p] # <<>>
    /\ views' = [views EXCEPT ![p] = Handle0(@, p, mail[p][1])]
    /\ mail' = [mail EXCEPT ![p] = Tail(@)]
    /\ UNCHANGED <<world, pulse, roamers, hands, forgiven, wsteps>>

\* One sleeper makes it day, until the loop next adds to the time.
Sleep(p) ==
    /\ Reached(p) /\ hands[p] = "idle" /\ Step0
    /\ world.daytime >= Night \/ world.sky = "thunder"
    /\ world' = [world EXCEPT !.daytime = 0]
    /\ Set(p, [roamers[p] EXCEPT !.hp = Full])
    /\ UNCHANGED <<pulse, hands, mail, views, forgiven>>

-----------------------------------------------------------------------------
(* Commands *)

Change(w) ==
    /\ Order0 /\ world' = w
    /\ UNCHANGED <<pulse, roamers, hands, mail, views>>
TimeSet == \E t \in 0..(Day - 1) : Change([world EXCEPT !.time = t, !.daytime = t]) /\ UNCHANGED forgiven
TimeAdd == \E t \in 1..(Day - 1) : Change(Later(world, t)) /\ UNCHANGED forgiven
\* Nobody is told.
Weather == \E sky \in Skies : Change([world EXCEPT !.sky = sky]) /\ forgiven' = Excuse(Here, "sky")
Tick0 == \E frozen \in BOOLEAN : Change([world EXCEPT !.frozen = frozen]) /\ UNCHANGED forgiven
Gamerule ==
    \E r \in Rules, on \in BOOLEAN :
        /\ Change([world EXCEPT !.rules = IF on THEN @ \cup {r} ELSE @ \ {r}])
        /\ UNCHANGED forgiven
\* With a time the border stays where it is.
Worldborder ==
    \E narrow, later \in BOOLEAN :
        /\ Change([world EXCEPT !.narrow = IF later THEN @ ELSE narrow])
        /\ UNCHANGED forgiven
\* Settings that nothing in the server reads again (the lock of the difficulty, the default game
\* mode, forced chunks, saving on or off, LAN, debugging), or nothing modelled here: the
\* difficulty, the spawn of the world, how often a sprinting loop asks.
Unread == Change(world) /\ UNCHANGED forgiven

WorldNext ==
    \/ ReadControl \/ AddTime \/ TickWeather \/ TellWeather \/ Strike \/ TickEnvironmentalDamage
    \/ TickPortals \/ SwitchEntry \/ BroadcastRespawn \/ PortalsDone \/ CopyPlayers \/ PushBack
    \/ TimeSet \/ TimeAdd \/ Weather \/ Tick0 \/ Gamerule \/ Worldborder \/ Unread
    \/ \E p \in Roamers :
        \/ JoinWorld(p) \/ LeaveWorld(p) \/ Move(p) \/ MoveAndLook(p) \/ PortalRead(p) \/ PortalSwitch(p)
        \/ ComeBack(p) \/ HandleMail(p) \/ Sleep(p)

WorldSpec == WorldInit /\ [][WorldNext]_world_vars

-----------------------------------------------------------------------------
(* Properties *)

\* Types, one domain for what the server and the tasks keep of players, and bounded mail.
WorldTypeOK ==
    /\ world \in [time: 0..(Day - 1), daytime: 0..(Day - 1), sky: Skies, timer: 0..LongestSky, rules: SUBSET Rules,
                  frozen: BOOLEAN, narrow: BOOLEAN]
    /\ Here \subseteq Roamers
    /\ roamers \in [Here -> [spot: Grounds, dim: Dims, hp: 0..Full, valid: Grounds, suspected: 0..(TrustLimit - 1)]]
    /\ hands \in [Here -> {"idle", "atPortal"} \cup Dims]
    /\ views \in [Here -> [sky: Skies, dim: Dims]]
    /\ forgiven \in [Here -> SUBSET {"sky", "dim"}]
    /\ DOMAIN mail = Here /\ \A p \in Here : Len(mail[p]) <= MailCap
    /\ pulse.holds \subseteq Here /\ wsteps \in 0..WorldSteps

\* A client shows the weather of the world once it has handled its mail, unless /weather
\* changed it since the loop last did, or the client joined later or lost the event; and it
\* shows the dimension its player has on the server, unless its own task took it through a
\* portal while the word that the loop had done so was on its way, or it had left and come back.
WorldTold ==
    \A p \in Here :
        /\ \/ pulse.at = "tellSky" \/ Waiting(p, "sky") \/ "sky" \in forgiven[p]
           \/ views[p].sky = world.sky
        /\ \/ Underway(p) \/ "dim" \in forgiven[p]
           \/ views[p].dim = roamers[p].dim

=============================================================================
