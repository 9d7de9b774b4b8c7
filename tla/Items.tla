-------------------------------- MODULE Items --------------------------------
(***************************************************************************)
(* Where items are and how they move: container windows and the contents   *)
(* kept per block (container.rs), clicks in a window, the cursor, closing   *)
(* and item pickup (play_loop.rs), hoppers, merging and attraction of       *)
(* dropped items (main.rs, the tick loop).                                  *)
(*                                                                         *)
(* There is one kind of item: a slot is a count, zero when it is empty, and *)
(* one slot stands for a player's inventory.  A click reads the slot and    *)
(* the cursor, and writes them later: the locks are taken for one access    *)
(* each, dropping awaits a packet in between, and the tick loop runs on     *)
(* another thread.  The windows of the special tables (enchanting, anvil,   *)
(* ...) are in Experience, the crafting grids in Crafting.                  *)
(***************************************************************************)
EXTENDS Integers, FiniteSets, Functions

CONSTANTS
    Players,
    Places,        \* positions of container blocks; villagers share one
    Hoppers,       \* pairs of places: above and below a hopper
    Size,          \* Size[q]: slots of the container at q
    MaxStack,      \* 64
    LastWindow,    \* the window id after which the counter starts at 1 again: 255
    Start,         \* what the containers hold when the server starts
    MaxDrops,      \* bound: items ever dropped
    MaxRequests,   \* bound: windows opened, clicks and returns of players, together
    MaxPasses      \* bound: passes of the attraction that give one item

ASSUME ItemsAssumption ==
    /\ IsFiniteSet(Players) /\ IsFiniteSet(Places)
    /\ Hoppers \subseteq {h \in Places \X Places : h[1] # h[2]}
    /\ Size \in [Places -> Nat \ {0}]
    /\ MaxStack \in Nat \ {0} /\ LastWindow \in Nat \ {0, 1}
    /\ DOMAIN Start = Places /\ \A q \in Places : Start[q] \in [1..Size[q] -> 0..MaxStack]
    /\ {MaxDrops, MaxRequests, MaxPasses} \subseteq Nat

VARIABLES
    containers,  \* ContainerManager.containers: window id -> owner, place and slots
    windows,     \* player_windows: player -> window id
    nextWindow,  \* next_window_id
    stored,      \* persistent: place -> slots, empty when there is no entry
    cursor,      \* cursor[p]: items on p's cursor
    pack,        \* pack[p]: items in p's inventory
    dropped,     \* dropped_items, as a set of entity ids
    click,       \* click[p]: the click p's task is handling, with what it read
    reach,       \* reach[p]: dropped items p's task found near p and has yet to take
    shown,       \* shown[p]: windows opened for p's client that it has not closed
    requests,    \* bound
    drops,       \* the last entity id of a dropped item
    given        \* history: given[d]: passes of the attraction that gave item d

window_vars == <<containers, windows, nextWindow, stored, shown>>
ground_vars == <<dropped, drops, reach, given>>
click_vars == <<click, requests>>
vars == <<window_vars, ground_vars, cursor, pack, click_vars>>

Stack == 0..MaxStack
Contents(place) == [1..Size[place] -> Stack]
AnyContents == UNION {Contents(q) : q \in Places}
\* Slot numbers of a window: one above the largest container stands for the rest.
WindowSlots == 1..(CHOOSE n \in {Size[q] : q \in Places} : \A q \in Places : n >= Size[q]) + 1
DropIds == 1..MaxDrops
Modes == {"left", "right", "shift", "hotbar", "dropOne", "dropStack", "spread", "collect"}
NoClick == [mode |-> "none"]

AtMost(n, most) == IF n < most THEN n ELSE most
Total(f) == FoldFunction(LAMBDA a, b : a + b, 0, f)
WindowsAt(place) == {w \in DOMAIN containers : containers[w].place = place}
Without(f, x) == [y \in DOMAIN f \ {x} |-> f[y]]
With(f, x, v) == [y \in DOMAIN f \cup {x} |-> IF y = x THEN v ELSE f[y]]

\* Inventory.add_item: what does not fit is returned, and every caller drops it.
Added(items, n) == AtMost(items + n, MaxStack)

\* Dropping puts ONE item on the ground, whatever the size of the stack.
DropOne ==
    /\ drops < MaxDrops
    /\ drops' = drops + 1
    /\ dropped' = dropped \cup {drops + 1}

Init ==
    /\ containers = [w \in {} |-> 0] /\ windows = [p \in {} |-> 0] /\ nextWindow = 1
    /\ stored = Start
    /\ cursor = [p \in Players |-> 0] /\ pack = [p \in Players |-> 0]
    /\ dropped = {} /\ drops = 0 /\ given = [d \in DropIds |-> 0]
    /\ click = [p \in Players |-> NoClick] /\ reach = [p \in Players |-> {}]
    /\ shown = [p \in Players |-> {}] /\ requests = 0

-----------------------------------------------------------------------------
(* Windows *)

\* A task handles one packet at a time.
Free(p) == click[p] = NoClick /\ reach[p] = {}

\* ContainerManager.open: a window that has the id already is overwritten.
Open(p, place) ==
    /\ Free(p) /\ requests < MaxRequests
    /\ nextWindow' = IF nextWindow = LastWindow THEN 1 ELSE nextWindow + 1
    /\ containers' = With(containers, nextWindow,
                          [owner |-> p, place |-> place, slots |-> stored[place]])
    /\ windows' = With(windows, p, nextWindow)
    /\ shown' = [shown EXCEPT ![p] = @ \cup {nextWindow}]
    /\ requests' = requests + 1
    /\ UNCHANGED <<stored, ground_vars, cursor, pack, click>>

\* Mutant of Close: closing removes every window of the place, those of other players too.
Close_AllAtPlace(p, w) ==
    /\ Free(p) /\ w \in shown[p]
    /\ cursor' = [cursor EXCEPT ![p] = 0]
    /\ IF cursor[p] > 0 THEN DropOne ELSE UNCHANGED <<dropped, drops>>
    /\ windows' = Without(windows, p)
    /\ containers' = IF w \in DOMAIN containers
                     THEN [v \in DOMAIN containers \ WindowsAt(containers[w].place) |-> containers[v]]
                     ELSE containers
    /\ stored' = IF w \in DOMAIN containers
                 THEN [stored EXCEPT ![containers[w].place] = containers[w].slots]
                 ELSE stored
    /\ shown' = [shown EXCEPT ![p] = @ \ {w}]
    /\ UNCHANGED <<nextWindow, requests, reach, given, pack, click_vars>>

\* ContainerClose: the cursor is dropped, and the window named by the client is closed.
Close(p, w) ==
    /\ Free(p) /\ w \in shown[p]
    /\ cursor' = [cursor EXCEPT ![p] = 0]
    /\ IF cursor[p] > 0 THEN DropOne ELSE UNCHANGED <<dropped, drops>>
    /\ windows' = Without(windows, p)
    /\ containers' = Without(containers, w)
    /\ stored' = IF w \in DOMAIN containers
                 THEN [stored EXCEPT ![containers[w].place] = containers[w].slots]
                 ELSE stored
    /\ shown' = [shown EXCEPT ![p] = @ \ {w}]
    /\ UNCHANGED <<nextWindow, requests, reach, given, pack, click_vars>>

\* p leaves and comes back: nothing closes its window, its cursor is gone.
Rejoin(p) ==
    /\ Free(p) /\ (shown[p] # {} \/ cursor[p] > 0) /\ requests < MaxRequests
    /\ cursor' = [cursor EXCEPT ![p] = 0]
    /\ shown' = [shown EXCEPT ![p] = {}]
    /\ requests' = requests + 1
    /\ UNCHANGED <<containers, windows, nextWindow, stored, ground_vars, pack, click>>

-----------------------------------------------------------------------------
(* Clicks: ContainerClick, the default window *)

SlotsOf(w) == IF w \in DOMAIN containers THEN containers[w].slots ELSE [s \in {} |-> 0]
Count(slots, s) == IF s \in DOMAIN slots THEN slots[s] ELSE 0

\* Mutant of Idles: a full stack accepts one more.
Idles_FullStack(mode, n, c) ==
    \/ mode = "right" /\ c = 0 /\ n = 0
    \/ mode \in {"shift", "dropOne", "dropStack"} /\ n = 0
    \/ mode = "spread" /\ (c = 0 \/ n > 0)
    \/ mode = "collect" /\ c = 0

\* Cursor full of what is clicked, or nothing to take: the click changes nothing.
Idles(mode, n, c) ==
    \/ mode = "right" /\ (c > 0 => n = MaxStack) /\ (c = 0 => n = 0)
    \/ mode \in {"shift", "dropOne", "dropStack"} /\ n = 0
    \/ mode = "spread" /\ (c = 0 \/ n > 0)
    \/ mode = "collect" /\ c = 0

\* The click is accepted for the player's current window only; a slot above the
\* container's, where the client shows the inventory, reads as empty.
ClickRead(p, w, s, mode) ==
    /\ Free(p) /\ w \in shown[p] /\ requests < MaxRequests
    /\ p \in DOMAIN windows /\ windows[p] = w
    /\ ~Idles(mode, Count(SlotsOf(w), s), cursor[p])
    /\ click' = [click EXCEPT ![p] = [mode |-> mode, window |-> w, slot |-> s, slots |-> SlotsOf(w)]]
    /\ requests' = requests + 1
    /\ UNCHANGED <<window_vars, ground_vars, cursor, pack>>

\* Mutant of Result: what spreading leaves on the cursor is lost.
Result_LosesRest(mode, n, c, k) ==
    CASE mode = "left" -> [slot |-> c, hand |-> n, pack |-> k]
      [] mode = "right" /\ c > 0 -> [slot |-> n + 1, hand |-> c - 1, pack |-> k]
      [] mode = "right" /\ c = 0 -> [slot |-> n - (n + 1) \div 2, hand |-> (n + 1) \div 2, pack |-> k]
      [] mode = "shift" -> [slot |-> 0, hand |-> c, pack |-> Added(k, n)]
      [] mode = "hotbar" -> [slot |-> k, hand |-> c, pack |-> n]
      [] mode = "dropOne" -> [slot |-> n - 1, hand |-> c, pack |-> k]
      [] mode = "dropStack" -> [slot |-> 0, hand |-> c, pack |-> k]
      [] mode = "spread" -> [slot |-> (c + 3) \div 4, hand |-> 0, pack |-> k]

\* What a click leaves in the slot, on the cursor and in the inventory, when it read
\* n items in the slot, c on the cursor and k in the inventory.
Result(mode, n, c, k) ==
    CASE mode = "left" -> [slot |-> c, hand |-> n, pack |-> k]
      [] mode = "right" /\ c > 0 -> [slot |-> n + 1, hand |-> c - 1, pack |-> k]
      [] mode = "right" /\ c = 0 -> [slot |-> n - (n + 1) \div 2, hand |-> (n + 1) \div 2, pack |-> k]
      [] mode = "shift" -> [slot |-> 0, hand |-> c, pack |-> Added(k, n)]
      [] mode = "hotbar" -> [slot |-> k, hand |-> c, pack |-> n]
      [] mode = "dropOne" -> [slot |-> n - 1, hand |-> c, pack |-> k]
      [] mode = "dropStack" -> [slot |-> 0, hand |-> c, pack |-> k]
      [] mode = "spread" -> [slot |-> (c + 3) \div 4, hand |-> c - (c + 3) \div 4, pack |-> k]

\* Mode 6: what is taken from slot s while the slots before it fill the cursor.
Collected(slots, c, s) ==
    LET before == Total([t \in {u \in DOMAIN slots : u < s} |-> slots[t]])
        room == MaxStack - c - before
    IN IF room <= 0 THEN 0 ELSE AtMost(slots[s], room)

\* set_slot: nothing happens when the window or the slot is not there.
SetSlots(w, slots) ==
    containers' = IF w \in DOMAIN containers
                  THEN [containers EXCEPT ![w].slots =
                          [s \in DOMAIN @ |-> IF s \in DOMAIN slots THEN slots[s] ELSE @[s]]]
                  ELSE containers

ClickWrite(p) ==
    LET e == click[p]
        r == Result(e.mode, Count(e.slots, e.slot), cursor[p], pack[p])
    IN /\ e # NoClick /\ e.mode # "collect"
       /\ SetSlots(e.window, [s \in {e.slot} |-> r.slot])
       /\ cursor' = [cursor EXCEPT ![p] = r.hand]
       /\ pack' = [pack EXCEPT ![p] = r.pack]
       /\ IF e.mode \in {"dropOne", "dropStack"} THEN DropOne ELSE UNCHANGED <<dropped, drops>>
       /\ click' = [click EXCEPT ![p] = NoClick]
       /\ UNCHANGED <<windows, nextWindow, stored, shown, requests, reach, given>>

CollectWrite(p) ==
    LET e == click[p]
        took == [s \in DOMAIN e.slots |-> Collected(e.slots, cursor[p], s)]
    IN /\ e.mode = "collect"
       /\ SetSlots(e.window, [s \in {t \in DOMAIN took : took[t] > 0} |-> e.slots[s] - took[s]])
       /\ cursor' = [cursor EXCEPT ![p] = @ + Total(took)]
       /\ click' = [click EXCEPT ![p] = NoClick]
       /\ UNCHANGED <<windows, nextWindow, stored, shown, requests, ground_vars, pack>>

-----------------------------------------------------------------------------
(* Hoppers and dropped items *)

\* A hopper moves ONE item of the first stack and empties the slot it came from.  It
\* looks at 27 slots of either window, and a slot that is not there reads as free.
Hopper(above, below) ==
    \E src \in WindowsAt(above), dst \in WindowsAt(below) :
      \E s, d \in WindowSlots :
        LET from == containers[src].slots
            to == containers[dst].slots
        IN /\ Count(from, s) > 0 /\ \A t \in 1..s - 1 : from[t] = 0
           /\ Count(to, d) < MaxStack /\ \A t \in 1..d - 1 : Count(to, t) = MaxStack
           /\ containers' = [containers EXCEPT
                 ![src].slots[s] = 0,
                 ![dst].slots = [t \in DOMAIN @ |-> IF t = d THEN @[t] + 1 ELSE @[t]]]
           /\ UNCHANGED <<windows, nextWindow, stored, shown, ground_vars,
                          cursor, pack, click_vars>>

\* A player who moves lists the items around it ...
FindNear(p) ==
    \E near \in SUBSET dropped :
        /\ Free(p) /\ near # {}
        /\ reach' = [reach EXCEPT ![p] = near]
        /\ UNCHANGED <<window_vars, dropped, drops, given, cursor, pack, click_vars>>

\* Mutant of PickUp: a picked up item is not taken off the ground.
PickUp_Leaves(p) ==
    \E d \in reach[p] :
        /\ pack' = [pack EXCEPT ![p] = Added(@, 1)]
        /\ reach' = [reach EXCEPT ![p] = @ \ {d}]
        /\ UNCHANGED <<window_vars, dropped, drops, given, cursor, click_vars>>

\* ... and takes them one after the other, whether or not they are still there.
PickUp(p) ==
    \E d \in reach[p] :
        /\ pack' = [pack EXCEPT ![p] = Added(@, 1)]
        /\ dropped' = dropped \ {d}
        /\ reach' = [reach EXCEPT ![p] = @ \ {d}]
        /\ UNCHANGED <<window_vars, drops, given, cursor, click_vars>>

\* Attraction gives an item to each player within half a block, and leaves it there.
Attract ==
    \E near \in SUBSET (Players \X dropped) :
        LET got(p) == Cardinality({n \in near : n[1] = p})
            gave == {n[2] : n \in near}
        IN /\ near # {} /\ \A d \in gave : given[d] < MaxPasses
           /\ pack' = [p \in Players |-> Added(pack[p], got(p))]
           /\ given' = [d \in DropIds |-> IF d \in gave THEN given[d] + 1 ELSE given[d]]
           /\ UNCHANGED <<window_vars, dropped, drops, reach, cursor, click_vars>>

\* Items that lie close together become one item.
Merge ==
    \E rest \in SUBSET dropped :
        /\ rest # {} /\ rest # dropped
        /\ dropped' = rest
        /\ UNCHANGED <<window_vars, drops, reach, given, cursor, pack, click_vars>>

Next ==
    \/ \E p \in Players :
        \/ \E q \in Places : Open(p, q)
        \/ \E w \in shown[p] : Close(p, w)
        \/ Rejoin(p)
        \/ \E w \in shown[p], s \in WindowSlots, mode \in Modes : ClickRead(p, w, s, mode)
        \/ ClickWrite(p) \/ CollectWrite(p)
        \/ FindNear(p) \/ PickUp(p)
    \/ \E h \in Hoppers : Hopper(h[1], h[2])
    \/ Attract \/ Merge

Spec == Init /\ [][Next]_vars

-----------------------------------------------------------------------------
(* Properties *)

\* Every item there is: with players, on the ground, in the windows, and kept for the
\* places that have no window.
ItemCount ==
    LET inWindows == [w \in DOMAIN containers |-> Total(containers[w].slots)]
        kept == [q \in {r \in Places : WindowsAt(r) = {}} |-> Total(stored[q])]
    IN Total(pack) + Total(cursor) + Cardinality(dropped) + Total(inWindows) + Total(kept)

TypeOK ==
    /\ \A w \in DOMAIN containers :
         /\ w \in 1..LastWindow
         /\ containers[w] \in [owner : Players, place : Places, slots : AnyContents]
         /\ containers[w].slots \in Contents(containers[w].place)
    /\ DOMAIN windows \subseteq Players /\ \A p \in DOMAIN windows : windows[p] \in 1..LastWindow
    /\ nextWindow \in 1..LastWindow
    /\ DOMAIN stored = Places /\ \A q \in Places : stored[q] \in Contents(q)
    /\ cursor \in [Players -> Stack] /\ pack \in [Players -> Stack]
    /\ dropped \in SUBSET DropIds /\ drops \in 0..MaxDrops /\ given \in [DropIds -> 0..MaxPasses]
    /\ \A p \in Players : click[p] # NoClick =>
         /\ click[p].mode \in Modes /\ click[p].slot \in WindowSlots
         /\ click[p].slots \in AnyContents \cup [{} -> Stack]
    /\ reach \in [Players -> SUBSET DropIds]
    /\ shown \in [Players -> SUBSET (1..LastWindow)]
    /\ requests \in 0..MaxRequests

Opens == nextWindow' # nextWindow
Finishes(p) == click[p] # NoClick /\ click'[p] = NoClick
\* What the click read is what it is about to overwrite.
Fresh(p) == SlotsOf(click[p].window) = click[p].slots

\* Items come from nowhere in five cases only: a window is opened where there is one
\* already (ContainerManager.open copies the stored slots), an id is used again while its
\* window is there, a click writes over a slot that changed since it was read, an item is
\* taken that another player has taken, or attraction leaves behind what it gave.  In
\* particular no click, hopper, close, merge or return of a player makes items by itself.
GainsExplained ==
    [][ItemCount' > ItemCount =>
        \/ Opens /\ WindowsAt(containers'[nextWindow].place) # {}
        \/ Opens /\ nextWindow \in DOMAIN containers
        \/ \E p \in Players : Finishes(p) /\ ~Fresh(p)
        \/ \E p \in Players, d \in DropIds : d \in reach[p] \ reach'[p] /\ d \notin dropped
        \/ given' # given]_vars

\* A click in a slot of the window that nobody has changed since the click read it neither
\* makes nor loses an item (ContainerClick, modes 0, 2, 5, 6, dropping one item, and
\* shift-clicks that fit the inventory).
ClicksConserve ==
    [][\A p \in Players :
        /\ Finishes(p) /\ Fresh(p) /\ click[p].window \in DOMAIN containers
        /\ click[p].slot \in DOMAIN click[p].slots /\ click[p].mode # "dropStack"
        /\ click[p].mode = "shift" => pack[p] + click[p].slots[click[p].slot] <= MaxStack
        => ItemCount' = ItemCount]_vars

Owns(p) ==
    /\ p \in DOMAIN windows /\ windows[p] \in DOMAIN containers
    /\ containers[windows[p]].owner = p

\* The window a player looks at stays the one it opened, whatever others open and close,
\* until it closes a window, unless its id is used again or another client still has it.
KeepsWindow ==
    [][\A p \in Players :
        Owns(p) /\ ~Owns(p)' =>
            \/ \E w \in shown[p] : w \notin shown'[p]
            \/ Opens /\ nextWindow = windows[p]
            \/ \E q \in Players \ {p} : windows[p] \in shown[q]]_vars
=============================================================================
