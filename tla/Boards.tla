------------------------------- MODULE Boards -------------------------------
(***************************************************************************)
(* Scoreboard and boss bars: two registries behind mutexes of their own,    *)
(* changed by commands, which the dispatcher runs one at a time, and shown  *)
(* to the clients by events: a broadcast channel that drops the oldest for  *)
(* a receiver that falls behind.  A client that joins is sent copies first  *)
(* and subscribes later, when its play loop starts.                         *)
(***************************************************************************)
EXTENDS Integers, FiniteSets, SequencesExt

CONSTANTS
    Viewers,      \* players' clients; scores are kept by their names
    Objs,         \* names of objectives
    BarIds,       \* ids of boss bars
    ChannelCap,   \* events a receiver can be behind (64)
    TopScore,     \* bound: the highest score
    MaxEdits      \* bound: changes of the boards

ASSUME BoardsAssumption == {ChannelCap, TopScore, MaxEdits} \subseteq Nat /\ ChannelCap > 0

VARIABLES
    board,     \* objective -> name -> score
    bars,      \* BossBarRegistry: id -> uuid and health
    clerk,     \* a change of a score whose lock was let go and whose event is not sent, or none
    stage,     \* stage[v]: away, being sent copies, or in its play loop
    wires,     \* wires[v]: the events v's play loop has not handled
    screens,   \* what the client shows: objectives with scores, and bars by uuid
    missed,    \* history: objectives and bars changed without an event that reaches v
    edits      \* bound, and the last uuid
boards_vars == <<board, bars, clerk, stage, wires, screens, missed, edits>>

Blank == [scores |-> <<>>, bars |-> <<>>]
NoEvent == [kind |-> "none", about |-> "none", name |-> "none", value |-> 0]
NilUuid == 0
BoardsInit ==
    /\ board = <<>> /\ bars = <<>> /\ clerk = NoEvent
    /\ stage = [v \in Viewers |-> "away"] /\ wires = [v \in Viewers |-> <<>>]
    /\ screens = [v \in Viewers |-> Blank] /\ missed = [v \in Viewers |-> {}]
    /\ edits = 0

Also(f, k, x) == [j \in DOMAIN f \cup {k} |-> IF j = k THEN x ELSE f[j]]
Less(f, k) == [j \in DOMAIN f \ {k} |-> f[j]]

-----------------------------------------------------------------------------
(* Events *)

\* player_state_tx.send: a receiver that is full loses its oldest event.
Lags(v) == Len(wires[v]) = ChannelCap
Broadcast(e) ==
    /\ wires' = [v \in Viewers |-> IF stage[v] # "play" THEN wires[v]
                                   ELSE Append(IF Lags(v) THEN Tail(wires[v]) ELSE wires[v], e)]
    /\ missed' = [v \in Viewers |->
                    CASE stage[v] = "away" -> missed[v]
                      [] stage[v] = "play" -> IF Lags(v) THEN missed[v] \cup {Head(wires[v]).about} ELSE missed[v]
                      [] OTHER -> missed[v] \cup {e.about}]
\* A change without an event, or before it.
Unsent(x) == missed' = [v \in Viewers |-> IF stage[v] = "away" THEN missed[v] ELSE missed[v] \cup {x}]

\* What the client makes of an event; a score of an objective it does not know is nothing to it.
Show(s, e) ==
    CASE e.kind = "objective" -> [s EXCEPT !.scores = Also(@, e.about, <<>>)]
      [] e.kind = "gone" -> [s EXCEPT !.scores = Less(@, e.about)]
      [] e.kind = "score" -> IF e.about \in DOMAIN s.scores
                             THEN [s EXCEPT !.scores[e.about] = Also(@, e.name, e.value)] ELSE s
      [] e.kind = "bar" -> [s EXCEPT !.bars = Also(@, e.name, e.value)]
      [] e.kind = "barHealth" -> IF e.name \in DOMAIN s.bars THEN [s EXCEPT !.bars[e.name] = e.value] ELSE s
      [] e.kind = "barGone" -> [s EXCEPT !.bars = Less(@, e.name)]
      [] OTHER -> s
Event(kind, about, name, value) == [kind |-> kind, about |-> about, name |-> name, value |-> value]

-----------------------------------------------------------------------------
(* /scoreboard and /trigger.  The dispatcher's mutex is held until the      *)
(* event is sent, so no second change comes between.                        *)

Edit == edits < MaxEdits /\ clerk = NoEvent /\ edits' = edits + 1
AddObjective(o) ==
    /\ Edit /\ o \notin DOMAIN board
    /\ board' = Also(board, o, <<>>)
    /\ Broadcast(Event("objective", o, "none", 0))
    /\ UNCHANGED <<bars, clerk, stage, screens>>
RemoveObjective(o) ==
    /\ Edit /\ o \in DOMAIN board
    /\ board' = Less(board, o)
    /\ Broadcast(Event("gone", o, "none", 0))
    /\ UNCHANGED <<bars, clerk, stage, screens>>

ScoreOf(o, n) == IF n \in DOMAIN board[o] THEN board[o][n] ELSE 0
\* Mutant of Announced: players add sends what was added, not the sum.
Announced_Delta(o, n, new, delta) == Event("score", o, n, delta)
\* players set and players add both send the score as it is now.
Announced(o, n, new, delta) == Event("score", o, n, new)
\* An unknown objective is an error.
ChangeScore(o, n, new, delta) ==
    /\ Edit /\ o \in DOMAIN board /\ new <= TopScore
    /\ board' = [board EXCEPT ![o] = Also(@, n, new)]
    /\ clerk' = Announced(o, n, new, delta)
    /\ UNCHANGED <<bars, stage, wires, screens, missed>>
SetScore(o, n, value) == ChangeScore(o, n, value, value)
AddScore(o, n, delta) == o \in DOMAIN board /\ ChangeScore(o, n, ScoreOf(o, n) + delta, delta)
TellScore ==
    /\ clerk # NoEvent
    /\ Broadcast(clerk) /\ clerk' = NoEvent
    /\ UNCHANGED <<board, bars, stage, screens, edits>>
\* /trigger changes the player's own score and tells nobody.
Trigger(p, o, add, value) ==
    /\ Edit /\ o \in DOMAIN board
    /\ LET new == IF add THEN ScoreOf(o, p) + value ELSE value
       IN new <= TopScore /\ board' = [board EXCEPT ![o] = Also(@, p, new)]
    /\ Unsent(o)
    /\ UNCHANGED <<bars, clerk, stage, wires, screens>>

-----------------------------------------------------------------------------
(* /bossbar, the registry locked throughout *)

\* add puts a new bar in the place of one with this id, and never says it existed.
AddBar(id) ==
    /\ Edit
    /\ bars' = Also(bars, id, [uuid |-> edits + 1, health |-> 1])
    /\ Broadcast(Event("bar", id, edits + 1, 1))
    /\ UNCHANGED <<board, clerk, stage, screens>>
\* remove sends the id in the place of the uuid: the clients read the nil uuid.
RemoveBar(id) ==
    /\ Edit
    /\ bars' = Less(bars, id)
    /\ Broadcast(Event("barGone", id, NilUuid, 0))
    /\ UNCHANGED <<board, clerk, stage, screens>>
\* set value, and set max, which sets the health as well.
SetBar(id, health) ==
    /\ Edit /\ id \in DOMAIN bars
    /\ bars' = [bars EXCEPT ![id].health = health]
    /\ Broadcast(Event("barHealth", id, bars[id].uuid, health))
    /\ UNCHANGED <<board, clerk, stage, screens>>

-----------------------------------------------------------------------------
(* A client joins, plays and leaves *)

\* The scoreboard is copied under its mutex and sent afterwards.
SendScores(v) ==
    /\ stage[v] = "away"
    /\ stage' = [stage EXCEPT ![v] = "scores"]
    /\ screens' = [screens EXCEPT ![v] = [Blank EXCEPT !.scores = board]]
    /\ missed' = [missed EXCEPT ![v] = {}]
    /\ UNCHANGED <<board, bars, clerk, wires, edits>>
\* Every bar is sent under the nil uuid, an id being no uuid: the last one stays.
SendBars(v) ==
    /\ stage[v] = "scores"
    /\ stage' = [stage EXCEPT ![v] = "bars"]
    /\ \E last \in IF bars = <<>> THEN {<<>>} ELSE {[u \in {NilUuid} |-> bars[id].health] : id \in DOMAIN bars} :
            screens' = [screens EXCEPT ![v].bars = last]
    /\ missed' = [missed EXCEPT ![v] = @ \cup DOMAIN bars]
    /\ UNCHANGED <<board, bars, clerk, wires, edits>>
Subscribe0(v) ==
    /\ stage[v] = "bars"
    /\ stage' = [stage EXCEPT ![v] = "play"]
    /\ UNCHANGED <<board, bars, clerk, wires, screens, missed, edits>>
\* handle_player_state_events: one event and one packet after the other.
Handle(v) ==
    /\ wires[v] # <<>>
    /\ screens' = [screens EXCEPT ![v] = Show(@, Head(wires[v]))]
    /\ wires' = [wires EXCEPT ![v] = Tail(@)]
    /\ UNCHANGED <<board, bars, clerk, stage, missed, edits>>
GoAway(v) ==
    /\ stage[v] # "away"
    /\ stage' = [stage EXCEPT ![v] = "away"] /\ wires' = [wires EXCEPT ![v] = <<>>]
    /\ screens' = [screens EXCEPT ![v] = Blank] /\ missed' = [missed EXCEPT ![v] = {}]
    /\ UNCHANGED <<board, bars, clerk, edits>>

BoardsNext ==
    \/ \E o \in Objs :
        \/ AddObjective(o) \/ RemoveObjective(o)
        \/ \E n \in Viewers, k \in 1..TopScore : SetScore(o, n, k) \/ AddScore(o, n, k)
        \/ \E p \in Viewers, add \in BOOLEAN, k \in 1..TopScore : stage[p] = "play" /\ Trigger(p, o, add, k)
    \/ TellScore
    \/ \E id \in BarIds : AddBar(id) \/ RemoveBar(id) \/ \E h \in 0..1 : SetBar(id, h)
    \/ \E v \in Viewers : SendScores(v) \/ SendBars(v) \/ Subscribe0(v) \/ Handle(v) \/ GoAway(v)
BoardsSpec == BoardsInit /\ [][BoardsNext]_boards_vars

-----------------------------------------------------------------------------
BoardsTypeOK ==
    /\ DOMAIN board \subseteq Objs /\ DOMAIN bars \subseteq BarIds
    /\ \A o \in DOMAIN board : \A n \in DOMAIN board[o] : n \in Viewers /\ board[o][n] \in 0..TopScore
    /\ \A v \in Viewers : Len(wires[v]) <= ChannelCap /\ missed[v] \subseteq Objs \cup BarIds
    /\ edits \in 0..MaxEdits

\* What the client of a play loop will show when it has handled what is on its way.
Coming(v) == wires[v] \o (IF clerk = NoEvent THEN <<>> ELSE <<clerk>>)
Shown(v) == FoldLeft(Show, screens[v], Coming(v))
\* A client in its play loop comes to show each objective exactly as it is on the scoreboard,
\* with every score, and each bar with its health, except those that were changed between its
\* copy and its subscription, by /trigger, or by an event it was too slow for.
BoardFollows ==
    \A v \in Viewers : stage[v] = "play" =>
        /\ \A o \in Objs \ missed[v] :
                /\ o \in DOMAIN board <=> o \in DOMAIN Shown(v).scores
                /\ o \in DOMAIN board => board[o] = Shown(v).scores[o]
        /\ \A id \in DOMAIN bars \ missed[v] :
                bars[id].uuid \in DOMAIN Shown(v).bars /\ Shown(v).bars[bars[id].uuid] = bars[id].health
=============================================================================
