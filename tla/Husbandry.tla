----------------------------- MODULE Husbandry ------------------------------
(***************************************************************************)
(* Fishing and gossip: what two managers keep for players, apart from the   *)
(* players' own entries.  FishingManager has the bobbers, a player's entry  *)
(* has the line; both are changed by the player's task, with packets sent   *)
(* in between, and a task may end at any of them.  A villager's gossip is   *)
(* fed by opening its window and decays in the tick loop.                   *)
(***************************************************************************)
EXTENDS Integers, FiniteSets

CONSTANTS
    Anglers,     \* players
    Bobbers,     \* bound: entity ids of bobbers
    LongestWait, \* ticks of the manager until a fish bites
    GossipAge,   \* twice decay_ticks, in decays
    TradeLimit   \* max_value of trade gossip; the rest has less

ASSUME HusbandryAssumption == {Bobbers, LongestWait, GossipAge, TradeLimit} \subseteq Nat \ {0}

VARIABLES
    line,      \* line[p]: the bobber of PlayerState.fishing, or 0
    angling,   \* angling[p]: what p's task is between two packets
    bobbers,   \* active_bobbers: bobber -> ticks to wait; 0 when a fish bites
    cast0,     \* next_entity_id, as far as it is for bobbers
    abandoned, \* history: bobbers whose player left
    catches,   \* history: what each bobber gave
    gossip     \* gossip[p]: the villager's entries about p: kind -> value and age
husbandry_vars == <<line, angling, bobbers, cast0, abandoned, catches, gossip>>

Ashore == [at |-> "shore", bobber |-> 0]
GossipKinds == {"trade", "minor positive"}

HusbandryInit ==
    /\ line = [p \in Anglers |-> 0] /\ angling = [p \in Anglers |-> Ashore]
    /\ bobbers = <<>> /\ cast0 = 0 /\ abandoned = {} /\ catches = [b \in 1..Bobbers |-> 0]
    /\ gossip = [p \in Anglers |-> <<>>]

-----------------------------------------------------------------------------
(* Fishing *)

\* cast: 20 ticks at least, less with Lure.
Cast(p, wait) ==
    /\ angling[p] = Ashore /\ line[p] = 0 /\ cast0 < Bobbers
    /\ cast0' = cast0 + 1
    /\ bobbers' = [b \in DOMAIN bobbers \cup {cast0 + 1} |-> IF b = cast0 + 1 THEN wait ELSE bobbers[b]]
    /\ angling' = [angling EXCEPT ![p] = [at |-> "cast", bobber |-> cast0 + 1]]
    /\ UNCHANGED <<line, abandoned, catches, gossip>>
SetLine(p) ==
    /\ angling[p].at = "cast"
    /\ line' = [line EXCEPT ![p] = angling[p].bobber] /\ angling' = [angling EXCEPT ![p] = Ashore]
    /\ UNCHANGED <<bobbers, cast0, abandoned, catches, gossip>>
\* Mutant of Caught: a bobber nothing has bitten at stays in the manager.
Caught_Keeps(b) == [left |-> IF bobbers[b] = 0 THEN [c \in DOMAIN bobbers \ {b} |-> bobbers[c]] ELSE bobbers,
                    loot |-> IF bobbers[b] = 0 THEN 1 ELSE 0]
\* reel_in: the bobber leaves the manager in any case, with loot if something bites.
Caught(b) == [left |-> [c \in DOMAIN bobbers \ {b} |-> bobbers[c]],
              loot |-> IF b \in DOMAIN bobbers /\ bobbers[b] = 0 THEN 1 ELSE 0]
ReelIn(p) ==
    /\ angling[p] = Ashore /\ line[p] # 0
    /\ bobbers' = Caught(line[p]).left
    /\ catches' = [catches EXCEPT ![line[p]] = @ + Caught(line[p]).loot]
    /\ angling' = [angling EXCEPT ![p] = [at |-> "reel", bobber |-> line[p]]]
    /\ UNCHANGED <<line, cast0, abandoned, gossip>>
ClearLine(p) ==
    /\ angling[p].at = "reel"
    /\ line' = [line EXCEPT ![p] = 0] /\ angling' = [angling EXCEPT ![p] = Ashore]
    /\ UNCHANGED <<bobbers, cast0, abandoned, catches, gossip>>
\* The task ends, at a packet or between two: the player's entry goes, nobody cancels.
Leave(p) ==
    /\ line[p] # 0 \/ angling[p] # Ashore
    /\ abandoned' = abandoned \cup ({line[p], angling[p].bobber} \cap DOMAIN bobbers)
    /\ line' = [line EXCEPT ![p] = 0] /\ angling' = [angling EXCEPT ![p] = Ashore]
    /\ UNCHANGED <<bobbers, cast0, catches, gossip>>
\* FishingManager::tick: something bites when the wait is over, and hangs on for ever.
Bite ==
    /\ \E b \in DOMAIN bobbers : bobbers[b] > 0
    /\ bobbers' = [b \in DOMAIN bobbers |-> IF bobbers[b] > 0 THEN bobbers[b] - 1 ELSE 0]
    /\ UNCHANGED <<line, angling, cast0, abandoned, catches, gossip>>

-----------------------------------------------------------------------------
(* Gossip *)

Least2(a, b) == IF a < b THEN a ELSE b
Known(p, kind) == IF kind \in DOMAIN gossip[p] THEN gossip[p][kind].value ELSE 0
Limit(kind) == IF kind = "trade" THEN TradeLimit ELSE Least2(TradeLimit, 3)
\* record_trade, when the window is opened: two kinds of gossip, both young again.
OpenTrade(p) ==
    /\ gossip' = [gossip EXCEPT ![p] = [k \in GossipKinds |->
                    [value |-> Least2(Known(p, k) + 1, Limit(k)), age |-> 0]]]
    /\ UNCHANGED <<line, angling, bobbers, cast0, abandoned, catches>>
\* GossipManager::tick forgets what is old, and everything up to two.
Decay ==
    LET keeps(p) == {k \in DOMAIN gossip[p] : gossip[p][k].age + 1 < GossipAge /\ gossip[p][k].value > 2}
    IN /\ gossip' = [p \in Anglers |-> [k \in keeps(p) |-> [gossip[p][k] EXCEPT !.age = @ + 1]]]
       /\ UNCHANGED <<line, angling, bobbers, cast0, abandoned, catches>>

HusbandryNext ==
    \/ \E p \in Anglers : \/ \E wait \in 1..LongestWait : Cast(p, wait)
                          \/ SetLine(p) \/ ReelIn(p) \/ ClearLine(p) \/ Leave(p) \/ OpenTrade(p)
    \/ Bite \/ Decay
HusbandrySpec == HusbandryInit /\ [][HusbandryNext]_husbandry_vars

-----------------------------------------------------------------------------
HusbandryTypeOK ==
    /\ line \in [Anglers -> 0..Bobbers] /\ DOMAIN bobbers \subseteq 1..Bobbers
    /\ \A b \in DOMAIN bobbers : bobbers[b] \in 0..LongestWait
    /\ \A p \in Anglers, k \in GossipKinds : Known(p, k) \in 0..Limit(k)

\* Each bobber in the manager is on one player's line, on its way to it, or was abandoned
\* by a player who left, for good (cancel has no caller); and no bobber is caught from twice.
Holds(p, b) == b \in {line[p], angling[p].bobber} /\ angling[p].at # "reel"
BobbersAccounted ==
    /\ \A b \in DOMAIN bobbers \ abandoned : Cardinality({p \in Anglers : Holds(p, b)}) = 1
    /\ \A p \in Anglers : line[p] # 0 /\ angling[p].at # "reel" => line[p] \in DOMAIN bobbers
    /\ \A b \in 1..Bobbers : catches[b] <= 1
=============================================================================
