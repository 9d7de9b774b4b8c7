------------------------------ MODULE Commands ------------------------------
(***************************************************************************)
(* The command dispatcher and the commands about players.  Tasks of players,*)
(* the remote console and the console share one dispatcher behind a mutex,  *)
(* which is held until the answer is there, so commands never overlap; but  *)
(* players go on living, leave and come while one walks through its targets.*)
(* Commands about the world are in World, scores and boss bars in Boards.   *)
(***************************************************************************)
EXTENDS Integers, FiniteSets, Sequences

CONSTANTS
    Subjects,   \* players
    Typed,      \* bound: kinds of command, with their selector and whether under /execute as
    Lives,      \* full health
    MaxTurns    \* bound: commands typed, and what happens meanwhile

ASSUME CommandsAssumption == Lives \in Nat \ {0} /\ MaxTurns \in Nat

VARIABLES
    folk,     \* PlayerManager.players as commands see it: player -> entry
    lists,    \* the ban list and the whitelist
    plots,    \* blocks of loaded chunks, set without a mark for the clients
    desk,     \* the mutex on the dispatcher: the command that runs, and how far it is
    remote,   \* the connection of the remote console
    said,     \* the last answer
    turns     \* bound
commands_vars == <<folk, lists, plots, desk, remote, said, turns>>

Callers == Subjects \cup {"rcon", "console"}
Spots == {"home", "far"}
Entry0 == [mode |-> "survival", hp |-> Lives, xp |-> 0, bag |-> 1, lore |-> FALSE, effect |-> FALSE,
           tag |-> FALSE, op |-> FALSE, spawn |-> "home", spot |-> "home"]
Desk0 == [by |-> "nobody", kind |-> "none", sel |-> "none", sources |-> <<>>, src |-> "none",
          left |-> <<>>, copy |-> <<>>, named |-> {}, reached |-> {}]
NoAnswer == [kind |-> "none", ok |-> TRUE, named |-> {}, reached |-> {}]
Plots == {"here", "there", "away"}   \* two columns of one shard, and one of a chunk that is not loaded

CommandsInit ==
    /\ folk = [p \in Subjects |-> Entry0]
    /\ lists = [banned |-> {}, white |-> {}, whiteOn |-> FALSE]
    /\ plots = [c \in Plots \ {"away"} |-> "air"]
    /\ desk = Desk0 /\ remote = "closed" /\ said = NoAnswer /\ turns = 0

-----------------------------------------------------------------------------
(* Selectors *)

\* A filter that cannot be parsed is no filter.
Fits(p, sel, from) ==
    CASE sel = "@a[gamemode]" -> folk[p].mode = "creative"
      [] sel = "@a[distance]" -> folk[p].spot = from
      [] OTHER -> TRUE
Selectors == {"@a", "@a[gamemode]", "@a[distance]", "@a[malformed]", "@p", "@r", "@s"} \cup Subjects

\* The source's place, or the middle of the world.
RefPlace(src) == IF src \in DOMAIN folk THEN folk[src].spot ELSE "home"
Nearest(S, from) == {p \in S : folk[p].spot = from \/ \A q \in S : folk[q].spot # from}
\* Players a selector may find: itself even if it left, for @s.
Found(sel, src) ==
    CASE sel = "@s" -> {{src} \cap Subjects}
      [] sel \in Subjects -> {{sel} \cap DOMAIN folk}
      [] sel = "@r" -> IF folk = <<>> THEN {{}} ELSE {{p} : p \in DOMAIN folk}
      [] sel = "@p" -> IF folk = <<>> THEN {{}} ELSE {{p} : p \in Nearest(DOMAIN folk, RefPlace(src))}
      [] OTHER -> {{p \in DOMAIN folk : Fits(p, sel, RefPlace(src))}}
\* The map has no order: any list of them.
ListsOf(S) == {l \in [1..Cardinality(S) -> S] : \A i, j \in DOMAIN l : l[i] = l[j] => i = j}
Resolved(sel, src) == UNION {ListsOf(S) : S \in Found(sel, src)}

-----------------------------------------------------------------------------
(* What commands do to an entry *)

\* These stop with an error at the first target that is gone.
Stopping == {"gamemode", "kill", "xp add", "op", "deop", "tp"}
\* These go on, and their answer has only the targets that were there.
Counting == {"give", "effect give", "effect clear", "clear", "tag add", "tag remove", "title", "playsound", "transfer"}
\* These answer for every target, or for what they copied before, whatever became of it.
Assuming == {"xp set", "spawnpoint", "damage", "item", "spreadplayers", "stopsound", "ride", "enchant",
             "effect clear one", "spectate"}
Kinds0 == Stopping \cup Counting \cup Assuming
\* One player, found by name; the source itself, for tp and spectate.
Single == {"op", "deop", "tp"}
OfSource == {"tp", "spectate"}

Gamemode(e, m) == [e EXCEPT !.mode = m]
Tp(e, place) == [e EXCEPT !.spot = place]
GiveTo(e) == [e EXCEPT !.bag = IF @ < 2 THEN @ + 1 ELSE @]
KillOf(e) == [e EXCEPT !.hp = 0]
Spawnpoint(e) == [e EXCEPT !.spawn = "far"]
XpAdd1(e) == [e EXCEPT !.xp = IF @ < 1 THEN @ + 1 ELSE @]
XpSet1(e) == [e EXCEPT !.xp = 1]
EffectGive(e) == [e EXCEPT !.effect = TRUE]
EffectClear(e) == [e EXCEPT !.effect = FALSE]
\* The copy's list of effects is changed, not the player's.
EffectClearOne(e) == e
ClearBag(e) == [e EXCEPT !.bag = 0, !.lore = FALSE]
\* The held item may have gone since it was looked at.
EnchantHeld(e) == [e EXCEPT !.lore = e.bag > 0]
DamageTo(e, copy) == [e EXCEPT !.hp = IF copy.hp > 0 THEN copy.hp - 1 ELSE 0]
\* The item goes to any slot, not to the one named.
ItemReplace(e) == GiveTo(e)
Spread(e) == Tp(e, "far")
Tagged(e, on) == [e EXCEPT !.tag = on]
SetOp(e, on) == [e EXCEPT !.op = on]
\* The rider is put where the other was; nothing remembers that it rides.
Ride(e, copy) == Tp(e, copy.spot)
Spectate(e, copy) == Gamemode(Tp(e, copy.spot), "spectator")
\* title, playsound, transfer and stopsound send an event and change no entry.

Changed(kind, e, copy) ==
    CASE kind = "gamemode" -> Gamemode(e, "creative")
      [] kind = "kill" -> KillOf(e)
      [] kind = "xp add" -> XpAdd1(e)
      [] kind = "xp set" -> XpSet1(e)
      [] kind = "op" -> SetOp(e, TRUE)
      [] kind = "deop" -> SetOp(e, FALSE)
      [] kind = "tp" -> Tp(e, copy.spot)
      [] kind = "give" -> GiveTo(e)
      [] kind = "item" -> ItemReplace(e)
      [] kind = "effect give" -> EffectGive(e)
      [] kind = "effect clear" -> EffectClear(e)
      [] kind = "effect clear one" -> EffectClearOne(e)
      [] kind = "clear" -> ClearBag(e)
      [] kind = "tag add" -> Tagged(e, TRUE)
      [] kind = "tag remove" -> Tagged(e, FALSE)
      [] kind = "spawnpoint" -> Spawnpoint(e)
      [] kind = "damage" -> DamageTo(e, copy)
      [] kind = "spreadplayers" -> Spread(e)
      [] kind = "ride" -> Ride(e, copy)
      [] kind = "enchant" -> EnchantHeld(e)
      [] kind = "spectate" -> Spectate(e, copy)
      [] OTHER -> e
\* add_tag and remove_tag tell whether the set changed.
Takes(kind, e) ==
    CASE kind = "tag add" -> ~e.tag [] kind = "tag remove" -> e.tag [] OTHER -> TRUE
\* Read first, and used after the entry was let go: of the target, or of another player.
Copying == {"damage", "enchant", "ride", "tp", "spectate"}
Unnamed == {"enchant", "tp"}   \* not in the answer when there was nothing to read
ReadOf(kind, t, src) == IF kind = "ride" /\ src \in DOMAIN folk THEN src ELSE t

-----------------------------------------------------------------------------
(* The dispatcher.  No command asks whether the caller is an operator.     *)

MayCall(q) == q \in DOMAIN folk \cup {"console"} \/ (q = "rcon" /\ remote = "open")
DeskFree == desk.by = "nobody"
Turn == turns < MaxTurns /\ turns' = turns + 1
\* The mutex is taken; /execute as runs the command once for each player found.
Dispatch(q, kind, sel, as) ==
    /\ Turn /\ DeskFree /\ MayCall(q)
    /\ kind \in Single => sel \in Subjects
    /\ \E sources \in IF as THEN Resolved("@a", q) ELSE {<<q>>} :
            /\ desk' = [Desk0 EXCEPT !.by = q, !.kind = kind, !.sel = sel, !.sources = sources]
            /\ said' = IF sources = <<>> THEN [NoAnswer EXCEPT !.kind = kind, !.ok = FALSE] ELSE NoAnswer
    /\ UNCHANGED <<folk, lists, plots, remote>>

\* An error of one run of /execute as is put beside the answers of the others.
Answer(ok) ==
    /\ said' = [kind |-> desk.kind, ok |-> ok, named |-> IF ok THEN desk.named ELSE {}, reached |-> desk.reached]
    /\ desk' = [Desk0 EXCEPT !.by = desk.by, !.kind = desk.kind, !.sel = desk.sel, !.sources = desk.sources]
BeginRun ==
    /\ ~DeskFree /\ desk.src = "none" /\ desk.sources # <<>>
    /\ LET src == Head(desk.sources)
       IN \E l \in Resolved(desk.sel, src) :
            IF l = <<>> \/ (desk.kind \in OfSource /\ src \notin Subjects)
            THEN /\ said' = [NoAnswer EXCEPT !.kind = desk.kind, !.ok = FALSE]
                 /\ desk' = [desk EXCEPT !.sources = Tail(@)]
            ELSE /\ desk' = [desk EXCEPT !.sources = Tail(@), !.src = src,
                                !.left = IF desk.kind \in OfSource THEN <<Head(l)>> ELSE l]
                 /\ said' = said
    /\ UNCHANGED <<folk, lists, plots, remote, turns>>
\* Whom the entry of the list is about: for tp and spectate it is the source that moves.
TargetOf == IF desk.kind \in OfSource THEN desk.src ELSE Head(desk.left)
ReadTarget ==
    /\ desk.left # <<>> /\ desk.kind \in Copying /\ desk.copy = <<>>
    /\ LET t == Head(desk.left)
           r == IF desk.kind = "spectate" /\ t \notin DOMAIN folk THEN desk.src ELSE ReadOf(desk.kind, t, desk.src)
       IN desk' = IF r \in DOMAIN folk /\ (desk.kind = "enchant" => folk[r].bag > 0)
                  THEN [desk EXCEPT !.copy = <<folk[r]>>]
                  ELSE [desk EXCEPT !.left = Tail(@), !.named = IF desk.kind \in Unnamed THEN @ ELSE @ \cup {t}]
    /\ UNCHANGED <<folk, lists, plots, remote, said, turns>>
\* Mutant of Missed: the error is ignored, as the assuming commands do.
Missed_Ignored(t) == desk' = [desk EXCEPT !.left = Tail(@), !.copy = <<>>, !.named = @ \cup {t}] /\ said' = said
\* A target that is gone: those before it keep what they were given.
Missed(t) ==
    IF desk.kind \in Stopping THEN Answer(FALSE)
    ELSE /\ desk' = [desk EXCEPT !.left = Tail(@), !.copy = <<>>,
                         !.named = IF desk.kind \in Assuming THEN @ \cup {t} ELSE @]
         /\ said' = said
ChangeTarget ==
    /\ desk.left # <<>> /\ (desk.kind \in Copying => desk.copy # <<>>)
    /\ LET t == TargetOf
       IN IF t \in DOMAIN folk
          THEN /\ folk' = [folk EXCEPT ![t] = Changed(desk.kind, @, Head(desk.copy))]
               /\ desk' = [desk EXCEPT !.left = Tail(@), !.copy = <<>>,
                              !.named = IF Takes(desk.kind, folk[t]) THEN @ \cup {t} ELSE @,
                              !.reached = IF Takes(desk.kind, folk[t]) THEN @ \cup {t} ELSE @]
               /\ said' = said
          ELSE Missed(t) /\ folk' = folk
    /\ UNCHANGED <<lists, plots, remote, turns>>
EndRun ==
    /\ desk.src # "none" /\ desk.left = <<>>
    /\ Answer(TRUE)
    /\ UNCHANGED <<folk, lists, plots, remote, turns>>
Unlock ==
    /\ ~DeskFree /\ desk.src = "none" /\ desk.sources = <<>> /\ desk.kind # "stuck"
    /\ desk' = Desk0
    /\ UNCHANGED <<folk, lists, plots, remote, said, turns>>

-----------------------------------------------------------------------------
(* Commands of one step *)

Says(kind, ok) == said' = [NoAnswer EXCEPT !.kind = kind, !.ok = ok]
\* ban-ip bans the player of that name, and pardon-ip lifts any ban.
BanIp(q, p) ==
    /\ Turn /\ DeskFree /\ MayCall(q) /\ lists' = [lists EXCEPT !.banned = @ \cup {p}] /\ Says("ban-ip", TRUE)
    /\ UNCHANGED <<folk, plots, desk, remote>>
PardonIp(q, p) ==
    /\ Turn /\ DeskFree /\ MayCall(q) /\ Says("pardon-ip", p \in lists.banned)
    /\ lists' = [lists EXCEPT !.banned = @ \ {p}]
    /\ UNCHANGED <<folk, plots, desk, remote>>
Whitelist(q, action, p) ==
    /\ Turn /\ DeskFree /\ MayCall(q) /\ Says("whitelist", TRUE)
    /\ lists' = CASE action = "add" -> [lists EXCEPT !.white = @ \cup {p}]
                  [] action = "remove" -> [lists EXCEPT !.white = @ \ {p}]
                  [] OTHER -> [lists EXCEPT !.whiteOn = (action = "on")]
    /\ UNCHANGED <<folk, plots, desk, remote>>
\* Only players' tasks hand over the chunk store and the trigger of saving.
HasStore(q) == q \in Subjects
\* setblock and fill: the columns of loaded chunks, each under its guard.
Fill(q, C) ==
    /\ Turn /\ DeskFree /\ MayCall(q) /\ Says("fill", HasStore(q))
    /\ plots' = [c \in DOMAIN plots |-> IF c \in C /\ HasStore(q) THEN "stone" ELSE plots[c]]
    /\ UNCHANGED <<folk, lists, desk, remote>>
\* clone keeps the guard of the column it reads while it asks for the one it writes:
\* in one shard the task waits for itself, with the mutex.
Clone(q, c, d) ==
    /\ Turn /\ DeskFree /\ MayCall(q)
    /\ IF HasStore(q) /\ {c, d} \subseteq DOMAIN plots
       THEN desk' = [Desk0 EXCEPT !.by = q, !.kind = "stuck"] /\ said' = said
       ELSE desk' = desk /\ Says("clone", HasStore(q))
    /\ UNCHANGED <<folk, lists, plots, remote>>
\* Commands that answer and change nothing.
Reports == {"list", "banlist", "help", "status", "seed", "advancement", "schedule", "function", "datapack", "setidletimeout"}
DisplayOnly == {"locate", "attribute", "recipe", "data", "fillbiome", "summon"}
NoManager == {"team"}
Report(q, kind) ==
    /\ Turn /\ DeskFree /\ MayCall(q) /\ Says(kind, kind \notin NoManager)
    /\ UNCHANGED <<folk, lists, plots, desk, remote>>
SaveAll(q) ==
    /\ Turn /\ DeskFree /\ MayCall(q) /\ Says("save-all", HasStore(q))
    /\ UNCHANGED <<folk, lists, plots, desk, remote>>

-----------------------------------------------------------------------------
(* The remote console, and players meanwhile *)

\* The first packet must be the login with the password; another one ends the connection.
Authenticate(right) ==
    /\ Turn /\ remote = "closed" /\ remote' = IF right THEN "open" ELSE "closed"
    /\ UNCHANGED <<folk, lists, plots, desk, said>>
HangUp ==
    /\ remote = "open" /\ desk.by # "rcon" /\ remote' = "closed"
    /\ UNCHANGED <<folk, lists, plots, desk, said, turns>>
\* A player's task runs its own command: it can leave when that is answered.
Depart(p) ==
    /\ Turn /\ p \in DOMAIN folk /\ desk.by # p
    /\ folk' = [q \in DOMAIN folk \ {p} |-> folk[q]]
    /\ UNCHANGED <<lists, plots, desk, remote, said>>
ComeIn(p) ==
    /\ Turn /\ p \notin DOMAIN folk /\ p \notin lists.banned /\ (lists.whiteOn => p \in lists.white)
    /\ folk' = [q \in DOMAIN folk \cup {p} |-> IF q = p THEN Entry0 ELSE folk[q]]
    /\ UNCHANGED <<lists, plots, desk, remote, said>>
\* The tick loop, or another player.
HurtMeanwhile(p) ==
    /\ Turn /\ p \in DOMAIN folk /\ folk[p].hp > 0
    /\ folk' = [folk EXCEPT ![p].hp = @ - 1]
    /\ UNCHANGED <<lists, plots, desk, remote, said>>

CommandsNext ==
    \/ \E q \in Callers :
        \/ \E c \in Typed : Dispatch(q, c[1], c[2], c[3])
        \/ \E p \in Subjects : BanIp(q, p) \/ PardonIp(q, p)
        \/ \E action \in {"add", "remove", "on", "off"}, p \in Subjects : Whitelist(q, action, p)
        \/ \E C \in SUBSET Plots : Fill(q, C)
        \/ \E c, d \in Plots : Clone(q, c, d)
        \/ \E kind \in Reports \cup DisplayOnly \cup NoManager : Report(q, kind)
        \/ SaveAll(q)
    \/ BeginRun \/ ReadTarget \/ ChangeTarget \/ EndRun \/ Unlock
    \/ \E right \in BOOLEAN : Authenticate(right)
    \/ HangUp
    \/ \E p \in Subjects : Depart(p) \/ ComeIn(p) \/ HurtMeanwhile(p)
CommandsSpec == CommandsInit /\ [][CommandsNext]_commands_vars

-----------------------------------------------------------------------------
CommandsTypeOK ==
    /\ DOMAIN folk \subseteq Subjects
    /\ \A p \in DOMAIN folk : folk[p].hp \in 0..Lives /\ folk[p].bag \in 0..2 /\ DOMAIN folk[p] = DOMAIN Entry0
    /\ lists \in [banned : SUBSET Subjects, white : SUBSET Subjects, whiteOn : BOOLEAN]
    /\ desk.by \in Callers \cup {"nobody"} /\ said.reached \subseteq Subjects /\ turns \in 0..MaxTurns

\* The answer of a command that stops at an error, or counts, names the players whose entry
\* took the change, whoever left while it ran: not one more, and if it is no error not one less.
AnswersTrue ==
    said.kind \in Stopping \cup Counting => said.named \subseteq said.reached /\ (said.ok => said.named = said.reached)
=============================================================================
