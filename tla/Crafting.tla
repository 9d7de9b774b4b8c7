------------------------------- MODULE Crafting -------------------------------
(***************************************************************************)
(* Crafting by Place Recipe (play_loop.rs, recipe.rs): the 2x2 grid is the   *)
(* slots 1 to 4 of a player's own inventory, the 3x3 grid the slots 1 to 9   *)
(* of the window with id 1, whoever has opened it.  The index of the recipe  *)
(* in the packet only has to exist: the grid decides what is made.           *)
(*                                                                         *)
(* The grid is read, the inputs are taken slot by slot, and the result is    *)
(* put into the inventory, each under a lock of its own: other players use   *)
(* the same window, its owner closes it, and the death check empties the     *)
(* inventory in between.  The cells of a grid are read in one step here,     *)
(* and taken in one, but for a close in the midst of it.                     *)
(***************************************************************************)
EXTENDS Integers, FiniteSets, Functions, SequencesExt

CONSTANTS
    Crafters,    \* players
    Goods,       \* kinds of items
    Recipes,     \* RecipeRegistry.recipes
    CraftStack,  \* 64
    LastSlot,    \* of the inventory: 35
    LaidBags,    \* what may lie in the inventories, and in window 1, at first:
    LaidTables,  \* not more than clicks can lay there
    MaxCrafts    \* bound: packets

BagSlots == 0..LastSlot
TableSlots == 0..9
Pile == [good : Goods, n : 0..CraftStack]
\* Ingredients row by row, each a list of kinds that will do.  Some recipes list more than
\* their width and height cover: the rest is never asked for.
Recipe == [shapeless : BOOLEAN, w : 1..9, h : 1..3, needs : Seq(Seq(Goods)), gives : Goods, count : Nat \ {0}]
ASSUME CraftingAssumption ==
    /\ IsFiniteSet(Crafters) /\ IsFiniteSet(Goods) /\ CraftStack \in Nat \ {0} /\ LastSlot \in Nat \ 0..3 /\ MaxCrafts \in Nat
    /\ Recipes \in Seq(Recipe) /\ \A i \in DOMAIN Recipes : Len(Recipes[i].needs) >= Recipes[i].w * Recipes[i].h
    /\ LaidBags \subseteq [Crafters -> [BagSlots -> Pile]] /\ LaidTables \subseteq [TableSlots -> Pile]

VARIABLES
    carries,        \* carries[p]: Inventory.items; an empty slot has no items of any kind
    laid,       \* the slots of window 1, or of its place once it is closed
    isOpen,     \* there is a window with id 1
    crafting,   \* crafting[p]: the packet p's task is handling
    crafts      \* bound
crafting_vars == <<carries, laid, isOpen, crafting, crafts>>

NotCrafting == [at |-> "idle"]
Emptied(slots) == [s \in DOMAIN slots |-> [slots[s] EXCEPT !.n = 0]]

CraftingInit ==
    /\ carries \in LaidBags /\ laid \in LaidTables /\ isOpen = TRUE
    /\ crafting = [p \in Crafters |-> NotCrafting] /\ crafts = 0

-----------------------------------------------------------------------------
(* Which recipe a grid of wide x wide cells, numbered row by row, is laid for *)

Accepts(need, pile) == pile.n > 0 /\ \E k \in DOMAIN need : need[k] = pile.good
Occupied(grid) == {c \in DOMAIN grid : grid[c].n > 0}
\* check_shapeless: the first free cell that will do, for one ingredient after the other.
Shapeless(r, grid) ==
    LET Use(used, need) ==
            LET free == {c \in DOMAIN grid \ used : Accepts(need, grid[c])}
            IN IF -1 \in used \/ free = {} THEN {-1} ELSE used \cup {CHOOSE c \in free : \A d \in free : c <= d}
    IN FoldLeft(Use, {}, r.needs) = Occupied(grid)

\* Mutant of FitsAt: what lies outside of the recipe is not looked at.
FitsAt_Loose(r, grid, wide, ox, oy) ==
    \A x \in 0..(r.w - 1), y \in 0..(r.h - 1) :
        Accepts(r.needs[y * r.w + x + 1], grid[(oy + y) * wide + ox + x])
\* check_recipe_at, check_recipe_at_3x3: an ingredient in each cell of the recipe, nothing outside.
FitsAt(r, grid, wide, ox, oy) ==
    \A c \in DOMAIN grid :
        LET x == (c % wide) - ox
            y == (c \div wide) - oy
        IN IF x \in 0..(r.w - 1) /\ y \in 0..(r.h - 1) THEN Accepts(r.needs[y * r.w + x + 1], grid[c])
           ELSE grid[c].n = 0
LaidFor(r, grid, wide) ==
    \/ r.shapeless /\ Shapeless(r, grid)
    \/ ~r.shapeless /\ \E ox \in 0..(wide - r.w), oy \in 0..(wide - r.h) : FitsAt(r, grid, wide, ox, oy)
\* find_match, find_match_3x3: the first that fits, or 0.
FindMatch(grid, wide) ==
    LET fit == {i \in DOMAIN Recipes : LaidFor(Recipes[i], grid, wide)}
    IN IF fit = {} THEN 0 ELSE CHOOSE i \in fit : \A j \in fit : i <= j

GridOf(p) == [c \in 0..3 |-> carries[p][c + 1]]
TableGrid == [c \in 0..8 |-> laid[c + 1]]

-----------------------------------------------------------------------------
(* The packet *)

ReadsGrid(p, big) ==
    LET found == IF big THEN (IF isOpen THEN FindMatch(TableGrid, 3) ELSE 0) ELSE FindMatch(GridOf(p), 2)
    IN /\ crafting[p] = NotCrafting /\ crafts < MaxCrafts /\ crafts' = crafts + 1 /\ found # 0
       /\ \E all \in {FALSE, ~big} : crafting' = [crafting EXCEPT ![p] = [at |-> "takes", big |-> big, of |-> found, all |-> all]]
       /\ UNCHANGED <<carries, laid, isOpen>>

\* Both loops go over the list of cells as if it were the rows, and over what will do for a
\* cell as if it were the columns.
Inputs(r) == {input \in (1..Len(r.needs)) \X (1..Cardinality(Goods)) : input[2] \in DOMAIN r.needs[input[1]]}
SlotFor(r, input) == 1 + (input[1] - 1) * r.w + input[2] - 1
\* 2x2: one item of exactly that kind, if it is in that slot.
TakesFromBag(p, r) ==
    LET Hits(s) == {input \in Inputs(r) : SlotFor(r, input) = s /\ s <= 4 /\ r.needs[input[1]][input[2]] = carries[p][s].good}
        Rest(s) == carries[p][s].n - Cardinality(Hits(s))
    IN carries' = [carries EXCEPT ![p] = [s \in BagSlots |-> [@[s] EXCEPT !.n = IF Rest(s) > 0 THEN Rest(s) ELSE 0]]]
\* 3x3: the whole slot, one after the other while the window is there.
TakesFromTable(r) ==
    LET InTurn(i, j) == i[1] < j[1] \/ (i[1] = j[1] /\ i[2] <= j[2])
        Taken(inputs) == laid' = [s \in TableSlots |-> IF \E i \in inputs : SlotFor(r, i) = s THEN [laid[s] EXCEPT !.n = 0] ELSE laid[s]]
    IN \/ Taken(IF isOpen THEN Inputs(r) ELSE {}) /\ UNCHANGED isOpen
       \/ /\ isOpen /\ isOpen' = FALSE
          /\ \E last \in Inputs(r) : Taken({i \in Inputs(r) : InTurn(i, last)})
TakesInputs(p) ==
    LET r == Recipes[crafting[p].of]
    IN /\ crafting[p].at = "takes" /\ crafting' = [crafting EXCEPT ![p].at = "gives"]
       /\ IF crafting[p].big THEN TakesFromTable(r) /\ UNCHANGED carries ELSE TakesFromBag(p, r) /\ UNCHANGED <<laid, isOpen>>
       /\ UNCHANGED crafts

\* Inventory.add_item: onto stacks of the kind, then into empty slots, those of the grid
\* among them; what does not fit is gone.
PutInto(acc, s, good) ==
    LET space == CraftStack - acc.slots[s].n
        add == IF acc.left < space THEN acc.left ELSE space
    IN IF add = 0 THEN acc
       ELSE [slots |-> [acc.slots EXCEPT ![s] = [good |-> good, n |-> @.n + add]], left |-> acc.left - add]
InOrder(wanted, acc, good) ==
    FoldLeft(LAMBDA a, s : IF s \in wanted THEN PutInto(a, s, good) ELSE a, acc, [k \in 1..(LastSlot + 1) |-> k - 1])
Stored(slots, good, count) ==
    LET merged == InOrder({s \in BagSlots : slots[s].n > 0 /\ slots[s].good = good}, [slots |-> slots, left |-> count], good)
    IN InOrder({s \in BagSlots : slots[s].n = 0}, merged, good).slots
\* With "make all" the result of the 2x2 grid is doubled, for one set of inputs.
Made(p) ==
    LET r == Recipes[crafting[p].of]
    IN IF crafting[p].all /\ r.count > 1 THEN 2 * r.count ELSE r.count
GivesResult(p) ==
    /\ crafting[p].at = "gives" /\ crafting' = [crafting EXCEPT ![p] = NotCrafting]
    /\ carries' = [carries EXCEPT ![p] = Stored(@, Recipes[crafting[p].of].gives, Made(p))]
    /\ UNCHANGED <<laid, isOpen, crafts>>

\* The owner closes window 1: what lies in it is kept for its place.
CloseTable == isOpen /\ isOpen' = FALSE /\ UNCHANGED <<carries, laid, crafting, crafts>>
\* The death check empties the inventory.
LoseBag(p) ==
    /\ \E s \in BagSlots : carries[p][s].n > 0
    /\ carries' = [carries EXCEPT ![p] = Emptied(@)]
    /\ UNCHANGED <<laid, isOpen, crafting, crafts>>

CraftingNext ==
    \/ CloseTable
    \/ \E p \in Crafters : TakesInputs(p) \/ GivesResult(p) \/ LoseBag(p) \/ \E big \in BOOLEAN : ReadsGrid(p, big)
CraftingSpec == CraftingInit /\ [][CraftingNext]_crafting_vars

CraftingTypeOK ==
    /\ \A p \in Crafters : carries[p] \in [BagSlots -> Pile] /\ crafting[p].at \in {"idle", "takes", "gives"}
    /\ laid \in [TableSlots -> Pile] /\ isOpen \in BOOLEAN

\* What is made is what has been laid: a shaped recipe fills a rectangle somewhere in the
\* grid, a shapeless one has an item of its own for each ingredient, and nothing else lies
\* there; of shaped recipes none is missed.
Covers(r, grid, wide) ==
    LET xs == {c % wide : c \in Occupied(grid)}
        ys == {c \div wide : c \in Occupied(grid)}
        left == CHOOSE x \in xs : \A v \in xs : x <= v
        top == CHOOSE y \in ys : \A v \in ys : y <= v
        at == [k \in 1..(r.w * r.h) |-> (top + ((k - 1) \div r.w)) * wide + left + ((k - 1) % r.w)]
    IN IF r.shapeless
       THEN \E own \in [1..Len(r.needs) -> Occupied(grid)] :
            IsInjective(own) /\ {own[k] : k \in DOMAIN own} = Occupied(grid) /\ \A k \in DOMAIN own : Accepts(r.needs[k], grid[own[k]])
       ELSE /\ Occupied(grid) # {} /\ left + r.w <= wide /\ top + r.h <= wide
            /\ Occupied(grid) = {at[k] : k \in DOMAIN at} /\ \A k \in DOMAIN at : Accepts(r.needs[k], grid[at[k]])
MatchIsLaid(grid, wide) ==
    LET found == FindMatch(grid, wide)
        shaped == {i \in DOMAIN Recipes : ~Recipes[i].shapeless /\ Covers(Recipes[i], grid, wide)}
    IN IF found = 0 THEN shaped = {} ELSE Covers(Recipes[found], grid, wide) /\ \A i \in shaped : found <= i
CraftsWhatIsLaid == MatchIsLaid(TableGrid, 3) /\ \A p \in Crafters : MatchIsLaid(GridOf(p), 2)
=============================================================================
