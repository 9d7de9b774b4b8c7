--------------------------- MODULE MCGameplayProofs ---------------------------
(***************************************************************************)
(* Proofs about what MCGameplay puts together.  First what was left of its  *)
(* parts: the types of vitals, minds, fishing and gossip, and commands, and *)
(* crafting, which finds what is laid.  Then the parts beside each other.   *)
(* The theorems about the other parts are in GameplayProofs and             *)
(* ItemsBoardsProofs.                                                      *)
(***************************************************************************)
EXTENDS MCGameplay, GameplayProofs, ItemsBoardsProofs

-----------------------------------------------------------------------------
(* Crafting: a rectangle of cells in a grid                                *)

Grids(wide) == [0..(wide * wide - 1) -> Pile]
IsRecipe(r) == r \in Recipe /\ Len(r.needs) >= r.w * r.h

(* A least number is the one that is chosen.                               *)
LeastOf(xs) == CHOOSE x \in xs : \A v \in xs : x <= v

LEMMA LeastThere ==
    ASSUME NEW xs \in SUBSET Nat, xs # {}
    PROVE  LeastOf(xs) \in xs /\ \A v \in xs : LeastOf(xs) <= v
<1>1. PICK x \in xs : \A v \in xs : ~(v < x)
  BY NoneBad
<1>2. \A v \in xs : x <= v
  BY <1>1
<1> QED BY <1>2 DEF LeastOf

LEMMA LeastIs ==
    ASSUME NEW xs \in SUBSET Nat, NEW x \in xs, \A v \in xs : x <= v
    PROVE  LeastOf(xs) = x
<1>1. LeastOf(xs) \in xs /\ LeastOf(xs) <= x /\ x <= LeastOf(xs)
  BY LeastThere
<1>2. LeastOf(xs) \in Nat /\ x \in Nat
  BY <1>1
<1> QED BY <1>1, <1>2

(* The cells that a rectangle covers, row by row, and the place of a cell in it. *)
CellAt(w, wide, ox, oy, k) == (oy + ((k - 1) \div w)) * wide + ox + ((k - 1) % w)
Inside(w, h, wide, ox, oy, c) == (c % wide) - ox \in 0..(w - 1) /\ (c \div wide) - oy \in 0..(h - 1)
PlaceOf(w, wide, ox, oy, c) == ((c \div wide) - oy) * w + ((c % wide) - ox) + 1
Rectangle(w, h, wide, ox, oy) ==
    /\ \A k \in 1..(w * h) :
          /\ CellAt(w, wide, ox, oy, k) \in 0..(wide * wide - 1)
          /\ Inside(w, h, wide, ox, oy, CellAt(w, wide, ox, oy, k))
          /\ PlaceOf(w, wide, ox, oy, CellAt(w, wide, ox, oy, k)) = k
    /\ \A c \in 0..(wide * wide - 1) : Inside(w, h, wide, ox, oy, c) =>
          /\ PlaceOf(w, wide, ox, oy, c) \in 1..(w * h)
          /\ CellAt(w, wide, ox, oy, PlaceOf(w, wide, ox, oy, c)) = c
Corner(w, h, wide, ox, oy) ==
    /\ oy * wide + ox \in 0..(wide * wide - 1)
    /\ (oy * wide + ox) % wide = ox /\ (oy * wide + ox) \div wide = oy
    /\ Inside(w, h, wide, ox, oy, oy * wide + ox)
    /\ \A c \in 0..(wide * wide - 1) :
          /\ c % wide \in Nat /\ c \div wide \in Nat
          /\ Inside(w, h, wide, ox, oy, c) => ox <= c % wide /\ oy <= c \div wide

LEMMA Rectangles ==
    ASSUME NEW wide \in {2, 3}, NEW w \in 1..wide, NEW h \in 1..wide, NEW ox \in 0..(wide - w), NEW oy \in 0..(wide - h)
    PROVE  Rectangle(w, h, wide, ox, oy) /\ Corner(w, h, wide, ox, oy)
<1> USE DEF Rectangle, Corner, CellAt, Inside, PlaceOf
<1>1. CASE wide = 2
  <2>1. CASE w = 1
    BY <1>1, <2>1
  <2>2. CASE w = 2
    BY <1>1, <2>2
  <2> QED BY <1>1, <2>1, <2>2
<1>2. CASE wide = 3
  <2>1. CASE w = 1
    BY <1>2, <2>1
  <2>2. CASE w = 2
    BY <1>2, <2>2
  <2>3. CASE w = 3
    BY <1>2, <2>3
  <2>4. w = 1 \/ w = 2 \/ w = 3
    BY <1>2
  <2> QED BY <2>1, <2>2, <2>3, <2>4, Zenon
<1> QED BY <1>1, <1>2

-----------------------------------------------------------------------------
(* Crafting: a shaped recipe fits at an offset if and only if it covers what lies in the grid *)

Occupies(grid, wide, ox, oy, r) == Occupied(grid) = {c \in DOMAIN grid : Inside(r.w, r.h, wide, ox, oy, c)}
Columns(grid, wide) == {c % wide : c \in Occupied(grid)}
Lines(grid, wide) == {c \div wide : c \in Occupied(grid)}
(* FitsAt and the second half of Covers, in these words.                   *)
Shaped0(r, grid, wide, ox, oy) ==
    \A c \in DOMAIN grid :
        IF Inside(r.w, r.h, wide, ox, oy, c) THEN Accepts(r.needs[PlaceOf(r.w, wide, ox, oy, c)], grid[c]) ELSE grid[c].n = 0
LiesAt(r, grid, wide, ox, oy) ==
    /\ Occupied(grid) # {} /\ ox + r.w <= wide /\ oy + r.h <= wide
    /\ Occupied(grid) = {CellAt(r.w, wide, ox, oy, k) : k \in 1..(r.w * r.h)}
    /\ \A k \in 1..(r.w * r.h) : Accepts(r.needs[k], grid[CellAt(r.w, wide, ox, oy, k)])

LEMMA FitsInWords ==
    ASSUME NEW r, NEW grid, NEW wide, NEW ox, NEW oy
    PROVE  FitsAt(r, grid, wide, ox, oy) <=> Shaped0(r, grid, wide, ox, oy)
  BY DEF FitsAt, Shaped0, Inside, PlaceOf

LEMMA CoversInWords ==
    ASSUME NEW r, NEW grid, NEW wide, ~r.shapeless
    PROVE  Covers(r, grid, wide) <=> LiesAt(r, grid, wide, LeastOf(Columns(grid, wide)), LeastOf(Lines(grid, wide)))
<1>1. PICK left : left = LeastOf(Columns(grid, wide))
  OBVIOUS
<1>2. PICK top : top = LeastOf(Lines(grid, wide))
  OBVIOUS
<1>3. PICK at : at = [k \in 1..(r.w * r.h) |-> CellAt(r.w, wide, left, top, k)]
  OBVIOUS
<1>4. Covers(r, grid, wide) <=>
        /\ Occupied(grid) # {} /\ left + r.w <= wide /\ top + r.h <= wide
        /\ Occupied(grid) = {at[k] : k \in DOMAIN at} /\ \A k \in DOMAIN at : Accepts(r.needs[k], grid[at[k]])
  BY <1>1, <1>2, <1>3 DEF Covers, LeastOf, Columns, Lines, CellAt
<1>5. DOMAIN at = 1..(r.w * r.h) /\ \A k \in 1..(r.w * r.h) : at[k] = CellAt(r.w, wide, left, top, k)
  BY <1>3
<1>6. {at[k] : k \in DOMAIN at} = {CellAt(r.w, wide, left, top, k) : k \in 1..(r.w * r.h)}
  BY <1>5
<1> QED BY <1>1, <1>2, <1>4, <1>5, <1>6 DEF LiesAt

LEMMA FieldsOf ==
    ASSUME NEW r \in Recipe
    PROVE  r.shapeless \in BOOLEAN /\ r.w \in 1..9 /\ r.h \in 1..3 /\ r.needs \in Seq(Seq(Goods)) /\ r.gives \in Goods /\ r.count \in Nat \ {0}
  BY DEF Recipe

LEMMA GridFields ==
    ASSUME NEW wide \in {2, 3}, NEW grid \in Grids(wide)
    PROVE  /\ DOMAIN grid = 0..(wide * wide - 1) /\ Occupied(grid) \subseteq 0..(wide * wide - 1)
           /\ \A c \in DOMAIN grid : grid[c].n \in Nat /\ (c \in Occupied(grid) <=> grid[c].n # 0)
<1>1. CraftStack \in Nat
  BY CraftingAssumption
<1>2. \A c \in DOMAIN grid : grid[c] \in Pile
  BY DEF Grids
<1>3. \A c \in DOMAIN grid : grid[c].n \in Nat
  BY <1>1, <1>2 DEF Pile
<1> QED BY <1>3 DEF Grids, Occupied

LEMMA FitCovers ==
    ASSUME NEW wide \in {2, 3}, NEW grid \in Grids(wide), NEW r \in Recipe, ~r.shapeless,
           NEW ox \in 0..(wide - r.w), NEW oy \in 0..(wide - r.h), FitsAt(r, grid, wide, ox, oy)
    PROVE  Covers(r, grid, wide)
<1>1. PICK w \in 1..wide : w = r.w
  BY FieldsOf
<1>2. PICK h \in 1..wide : h = r.h
  BY FieldsOf
<1>3. ox \in 0..(wide - w) /\ oy \in 0..(wide - h)
  BY <1>1, <1>2
<1>4. Rectangle(w, h, wide, ox, oy) /\ Corner(w, h, wide, ox, oy)
  BY <1>3, Rectangles
<1>5. Shaped0(r, grid, wide, ox, oy)
  BY FitsInWords
<1>6. \A c \in DOMAIN grid : c \in Occupied(grid) <=> Inside(w, h, wide, ox, oy, c)
  BY <1>1, <1>2, <1>5, GridFields DEF Shaped0, Accepts
<1>7. LeastOf(Columns(grid, wide)) = ox
  <2>1. Columns(grid, wide) \in SUBSET Nat /\ \A v \in Columns(grid, wide) : ox <= v
    BY <1>4, <1>6, GridFields DEF Corner, Columns
  <2>2. ox \in Columns(grid, wide)
    BY <1>4, <1>6, GridFields DEF Corner, Columns
  <2> QED BY <2>1, <2>2, LeastIs
<1>8. LeastOf(Lines(grid, wide)) = oy
  <2>1. Lines(grid, wide) \in SUBSET Nat /\ \A v \in Lines(grid, wide) : oy <= v
    BY <1>4, <1>6, GridFields DEF Corner, Lines
  <2>2. oy \in Lines(grid, wide)
    BY <1>4, <1>6, GridFields DEF Corner, Lines
  <2> QED BY <2>1, <2>2, LeastIs
<1>9. Occupied(grid) # {} /\ ox + w <= wide /\ oy + h <= wide
  BY <1>3, <1>4, <1>6, GridFields DEF Corner
<1>10. Occupied(grid) = {CellAt(w, wide, ox, oy, k) : k \in 1..(w * h)}
  <2>1. \A k \in 1..(w * h) : CellAt(w, wide, ox, oy, k) \in Occupied(grid)
    BY <1>4, <1>6, GridFields DEF Rectangle
  <2>2. ASSUME NEW c \in Occupied(grid) PROVE \E k \in 1..(w * h) : c = CellAt(w, wide, ox, oy, k)
    BY <1>4, <1>6, <2>2, GridFields DEF Rectangle
  <2> QED BY <2>1, <2>2
<1>11. ASSUME NEW k \in 1..(w * h) PROVE Accepts(r.needs[k], grid[CellAt(w, wide, ox, oy, k)])
  <2>1. PICK c : c = CellAt(w, wide, ox, oy, k)
    OBVIOUS
  <2>2. c \in DOMAIN grid /\ Inside(w, h, wide, ox, oy, c) /\ PlaceOf(w, wide, ox, oy, c) = k
    BY <1>4, <2>1, GridFields DEF Rectangle
  <2>3. Accepts(r.needs[PlaceOf(w, wide, ox, oy, c)], grid[c])
    BY <1>1, <1>2, <1>5, <2>2 DEF Shaped0
  <2> QED BY <2>1, <2>2, <2>3
<1>12. LiesAt(r, grid, wide, ox, oy)
  BY <1>1, <1>2, <1>9, <1>10, <1>11 DEF LiesAt
<1> QED BY <1>7, <1>8, <1>12, CoversInWords

LEMMA CoversFits ==
    ASSUME NEW wide \in {2, 3}, NEW grid \in Grids(wide), NEW r \in Recipe, ~r.shapeless, Covers(r, grid, wide)
    PROVE  \E ox \in 0..(wide - r.w), oy \in 0..(wide - r.h) : FitsAt(r, grid, wide, ox, oy)
<1>1. PICK ox : ox = LeastOf(Columns(grid, wide))
  OBVIOUS
<1>2. PICK oy : oy = LeastOf(Lines(grid, wide))
  OBVIOUS
<1>3. LiesAt(r, grid, wide, ox, oy)
  BY <1>1, <1>2, CoversInWords
<1>4. ox \in Nat /\ oy \in Nat
  <2>1. PICK c \in Occupied(grid) : TRUE
    BY <1>3 DEF LiesAt
  <2>2. \A d \in Occupied(grid) : d % wide \in Nat /\ d \div wide \in Nat
    BY GridFields
  <2>3. Columns(grid, wide) \in SUBSET Nat /\ Columns(grid, wide) # {} /\ Lines(grid, wide) \in SUBSET Nat /\ Lines(grid, wide) # {}
    BY <2>1, <2>2 DEF Columns, Lines
  <2> QED BY <1>1, <1>2, <2>3, LeastThere
<1>5. PICK w \in 1..wide : w = r.w
  BY <1>3, <1>4, FieldsOf DEF LiesAt
<1>6. PICK h \in 1..wide : h = r.h
  BY <1>3, <1>4, FieldsOf DEF LiesAt
<1>7. ox \in 0..(wide - w) /\ oy \in 0..(wide - h)
  BY <1>3, <1>4, <1>5, <1>6 DEF LiesAt
<1>8. Rectangle(w, h, wide, ox, oy)
  BY <1>7, Rectangles
<1>9. Occupied(grid) = {CellAt(w, wide, ox, oy, k) : k \in 1..(w * h)}
  BY <1>3, <1>5, <1>6 DEF LiesAt
<1>10. ASSUME NEW c \in DOMAIN grid, Inside(w, h, wide, ox, oy, c)
       PROVE  Accepts(r.needs[PlaceOf(w, wide, ox, oy, c)], grid[c])
  <2>1. PICK k \in 1..(w * h) : k = PlaceOf(w, wide, ox, oy, c) /\ CellAt(w, wide, ox, oy, k) = c
    BY <1>8, <1>10, GridFields DEF Rectangle
  <2> QED BY <1>3, <1>5, <1>6, <2>1 DEF LiesAt
<1>11. ASSUME NEW c \in DOMAIN grid, ~Inside(w, h, wide, ox, oy, c)
       PROVE  grid[c].n = 0
  <2>1. c \notin Occupied(grid)
    BY <1>8, <1>9, <1>11 DEF Rectangle
  <2> QED BY <2>1, GridFields
<1>12. Shaped0(r, grid, wide, ox, oy)
  BY <1>5, <1>6, <1>10, <1>11 DEF Shaped0
<1>13. FitsAt(r, grid, wide, ox, oy)
  BY <1>12, FitsInWords
<1> QED BY <1>5, <1>6, <1>7, <1>13

-----------------------------------------------------------------------------
(* Crafting: the ingredients of a shapeless recipe, one after the other    *)

Cells(wide) == 0..(wide * wide - 1)
UsedCells(wide) == SUBSET (Cells(wide) \cup {-1})
UseOf(grid, used, need) ==
    LET free == {c \in DOMAIN grid \ used : Accepts(need, grid[c])}
    IN IF -1 \in used \/ free = {} THEN {-1} ELSE used \cup {LeastOf(free)}
UsesEquation(it, grid, needs) ==
    it = [t \in SUBSET (DOMAIN needs) |-> IF t = {} THEN {} ELSE UseOf(grid, it[t \ {LastOf(t)}], needs[LastOf(t)])]

LEMMA ShapelessIsFold ==
    ASSUME NEW r, NEW grid
    PROVE  Shapeless(r, grid) <=> (CHOOSE it : UsesEquation(it, grid, r.needs))[DOMAIN r.needs] = Occupied(grid)
  BY DEF Shapeless, FoldLeft, MapThenFoldSet, UsesEquation, UseOf, LeastOf, LastOf, Max

LEMMA UseIs ==
    ASSUME NEW wide \in {2, 3}, NEW grid \in Grids(wide), NEW used \in UsedCells(wide), NEW need
    PROVE  /\ UseOf(grid, used, need) \in UsedCells(wide)
           /\ -1 \notin UseOf(grid, used, need) =>
                /\ -1 \notin used
                /\ \E c \in Cells(wide) \ used : Accepts(need, grid[c]) /\ UseOf(grid, used, need) = used \cup {c}
<1>1. PICK free : free = {c \in DOMAIN grid \ used : Accepts(need, grid[c])}
  OBVIOUS
<1>2. UseOf(grid, used, need) = IF -1 \in used \/ free = {} THEN {-1} ELSE used \cup {LeastOf(free)}
  BY <1>1 DEF UseOf
<1>3. free \in SUBSET Nat /\ free \subseteq Cells(wide)
  BY <1>1, GridFields DEF Cells
<1>4. free # {} => LeastOf(free) \in free
  BY <1>3, LeastThere
<1>5. CASE -1 \in used \/ free = {}
  BY <1>2, <1>5 DEF UsedCells
<1>6. CASE ~(-1 \in used \/ free = {})
  <2>1. LeastOf(free) \in Cells(wide) \ used /\ Accepts(need, grid[LeastOf(free)])
    BY <1>1, <1>3, <1>4, <1>6
  <2>2. UseOf(grid, used, need) = used \cup {LeastOf(free)}
    BY <1>2, <1>6
  <2> QED BY <1>6, <2>1, <2>2 DEF UsedCells
<1> QED BY <1>5, <1>6

Using(grid, wide, needs) == [k \in Nat |-> [used \in UsedCells(wide) |-> IF k \in 1..Len(needs) THEN UseOf(grid, used, needs[k]) ELSE used]]

(* The cells in use after each ingredient.                                 *)
LEMMA UsesRun ==
    ASSUME NEW wide \in {2, 3}, NEW grid \in Grids(wide), NEW r \in Recipe
    PROVE  \E f \in [0..Len(r.needs) -> UsedCells(wide)] :
              /\ f[0] = {} /\ \A k \in 1..Len(r.needs) : f[k] = UseOf(grid, f[k - 1], r.needs[k])
              /\ Shapeless(r, grid) <=> f[Len(r.needs)] = Occupied(grid)
<1>1. PICK needs : needs = r.needs
  OBVIOUS
<1>2. PICK n \in Nat : n = Len(needs) /\ DOMAIN needs = 1..n
  BY <1>1, FieldsOf
<1>3. PICK V : V = UsedCells(wide)
  OBVIOUS
<1>4. {} \in V
  BY <1>3 DEF UsedCells
<1>5. \A used \in V : \A need : UseOf(grid, used, need) \in V
  BY <1>3, UseIs
<1>6. PICK H : H = Using(grid, wide, needs)
  OBVIOUS
<1>7. H \in [Nat -> [V -> V]] /\ \A k \in 1..n, used \in V : H[k][used] = UseOf(grid, used, needs[k])
  BY <1>2, <1>3, <1>5, <1>6 DEF Using
<1>8. PICK f \in [0..n -> V] : Runs(f, H, {}, n)
  BY <1>2, <1>4, <1>7, PartExists
<1>9. f[0] = {} /\ \A k \in 1..n : f[k] = UseOf(grid, f[k - 1], needs[k])
  <2>1. \A k \in 1..n : k - 1 \in 0..n
    BY <1>2
  <2> QED BY <1>7, <1>8, <2>1 DEF Runs
<1>10. PICK G : G = [k \in 1..n |-> H[k]]
  OBVIOUS
<1>11. G \in [1..n -> [V -> V]] /\ \A k \in 1..n, used \in V : G[k][used] = UseOf(grid, used, needs[k])
  BY <1>7, <1>10
<1>12. Runs(f, G, {}, n)
  BY <1>8, <1>10 DEF Runs
<1>13. PICK it \in [SUBSET (1..n) -> V] : Folds(it, G, Lasts(n), {}, SUBSET (1..n))
  BY <1>2, <1>4, <1>11, LeftFoldExists
<1>14. \A t \in (SUBSET (1..n)) \ {{}} : Lasts(n)[t] = LastOf(t) /\ LastOf(t) \in t
  BY <1>2, LastThere DEF Lasts
<1>15. UsesEquation(it, grid, needs)
  <2>1. it[{}] = {}
    BY <1>13 DEF Folds, FoldStep
  <2>2. ASSUME NEW t \in SUBSET (1..n), t # {} PROVE it[t] = UseOf(grid, it[t \ {LastOf(t)}], needs[LastOf(t)])
    <3>1. it[t] = G[LastOf(t)][it[t \ {LastOf(t)}]]
      BY <1>13, <1>14, <2>2 DEF Folds, FoldStep
    <3>2. LastOf(t) \in 1..n /\ it[t \ {LastOf(t)}] \in V
      BY <1>13, <1>14, <2>2
    <3> QED BY <1>11, <3>1, <3>2
  <2> QED BY <1>2, <1>13, <2>1, <2>2 DEF UsesEquation
<1>16. PICK other : UsesEquation(other, grid, needs) /\ (Shapeless(r, grid) <=> other[1..n] = Occupied(grid))
  BY <1>1, <1>2, <1>15, ShapelessIsFold
<1>17. KeepsFold(other, G, Lasts(n), {}, 1..n, V)
  <2>1. other[{}] = {}
    BY <1>16 DEF UsesEquation
  <2>2. ASSUME NEW t \in (SUBSET (1..n)) \ {{}}, other[t \ {Lasts(n)[t]}] \in V
        PROVE  other[t] = G[Lasts(n)[t]][other[t \ {Lasts(n)[t]}]]
    <3>1. other[t] = UseOf(grid, other[t \ {LastOf(t)}], needs[LastOf(t)])
      BY <1>2, <1>16 DEF UsesEquation
    <3>2. LastOf(t) \in 1..n /\ Lasts(n)[t] = LastOf(t)
      BY <1>14
    <3> QED BY <1>11, <2>2, <3>1, <3>2
  <2> QED BY <2>1, <2>2 DEF KeepsFold
<1>18. Alongside(other, f, G, {}, n, V)
  BY <1>4, <1>8, <1>11, <1>12, <1>17 DEF Alongside
<1>19. other[1..n] = f[n]
  BY <1>2, <1>18, LeftFold
<1>20. Shapeless(r, grid) <=> f[n] = Occupied(grid)
  BY <1>16, <1>19
<1> QED BY <1>1, <1>2, <1>3, <1>8, <1>9, <1>20

LEMMA ShapelessCovers ==
    ASSUME NEW wide \in {2, 3}, NEW grid \in Grids(wide), NEW r \in Recipe, r.shapeless, Shapeless(r, grid)
    PROVE  Covers(r, grid, wide)
<1>1. PICK n \in Nat : n = Len(r.needs) /\ DOMAIN r.needs = 1..n
  BY FieldsOf
<1>2. PICK f \in [0..n -> UsedCells(wide)] :
         f[0] = {} /\ (\A k \in 1..n : f[k] = UseOf(grid, f[k - 1], r.needs[k])) /\ f[n] = Occupied(grid)
  <2>1. \E f \in [0..Len(r.needs) -> UsedCells(wide)] :
           /\ f[0] = {} /\ \A k \in 1..Len(r.needs) : f[k] = UseOf(grid, f[k - 1], r.needs[k])
           /\ Shapeless(r, grid) <=> f[Len(r.needs)] = Occupied(grid)
    BY UsesRun, ZenonT(30)
  <2> QED BY <1>1, <2>1
<1>3. \A k \in 1..n : k - 1 \in 0..n /\ k \in 0..n /\ f[k - 1] \in UsedCells(wide)
  BY <1>2
<1>4. \A k \in 1..n : -1 \notin f[k] =>
         -1 \notin f[k - 1] /\ \E c \in Cells(wide) \ f[k - 1] : Accepts(r.needs[k], grid[c]) /\ f[k] = f[k - 1] \cup {c}
  BY <1>2, <1>3, UseIs
<1>5. \A k \in 0..n : -1 \notin f[k]
  <2> DEFINE Bad == {m \in Nat : m <= n /\ -1 \in f[n - m]}
  <2>1. ASSUME NEW m \in Bad PROVE \E l \in Bad : l < m
    <3>1. m # 0
      BY <1>2, GridFields
    <3>2. m - 1 \in Nat /\ n - m + 1 \in 1..n /\ (n - m + 1) - 1 = n - m /\ n - (m - 1) = n - m + 1
      BY <3>1
    <3>3. -1 \in f[n - m + 1]
      BY <1>4, <3>2
    <3>4. -1 \in f[n - (m - 1)] /\ m - 1 <= n
      BY <3>2, <3>3
    <3> QED BY <3>2, <3>4
  <2>2. Bad \in SUBSET Nat
    OBVIOUS
  <2>3. Bad = {}
    <3> HIDE DEF Bad
    <3> QED BY <2>1, <2>2, NoneBad
  <2>4. ASSUME NEW k \in 0..n PROVE -1 \notin f[k]
    <3>1. n - k \in Nat /\ n - k <= n /\ n - (n - k) = k
      OBVIOUS
    <3> QED BY <2>3, <3>1
  <2> QED BY <2>4
<1>6. PICK own : own = [k \in 1..n |-> CHOOSE c \in Cells(wide) \ f[k - 1] : Accepts(r.needs[k], grid[c]) /\ f[k] = f[k - 1] \cup {c}]
  OBVIOUS
<1>7. \A k \in 1..n : own[k] \in Cells(wide) \ f[k - 1] /\ Accepts(r.needs[k], grid[own[k]]) /\ f[k] = f[k - 1] \cup {own[k]}
  BY <1>3, <1>4, <1>5, <1>6
<1>8. \A k \in 0..n : f[k] = {own[j] : j \in 1..k}
  <2> DEFINE Bad == {k \in 0..n : f[k] # {own[j] : j \in 1..k}}
  <2>1. ASSUME NEW k \in Bad PROVE \E l \in Bad : l < k
    <3>1. k # 0
      BY <1>2
    <3>2. k \in 1..n /\ k - 1 \in 0..n /\ k - 1 < k
      BY <3>1
    <3>3. {own[j] : j \in 1..k} = {own[j] : j \in 1..(k - 1)} \cup {own[k]}
      BY <3>2
    <3>4. f[k] = f[k - 1] \cup {own[k]}
      BY <1>7, <3>2
    <3> QED BY <3>2, <3>3, <3>4
  <2>2. Bad \in SUBSET Nat
    OBVIOUS
  <2>3. Bad = {}
    <3> HIDE DEF Bad
    <3> QED BY <2>1, <2>2, NoneBad
  <2> QED BY <2>3
<1>9. {own[k] : k \in 1..n} = Occupied(grid)
  BY <1>2, <1>8
<1>10. \A j, k \in 1..n : own[j] = own[k] => j = k
  <2>1. ASSUME NEW j \in 1..n, NEW k \in 1..n, j < k PROVE own[j] # own[k]
    <3>1. j \in 1..(k - 1) /\ k - 1 \in 0..n
      BY <2>1
    <3>2. own[j] \in f[k - 1]
      BY <1>8, <3>1
    <3> QED BY <1>7, <3>2
  <2>2. ASSUME NEW j \in 1..n, NEW k \in 1..n, own[j] = own[k] PROVE j = k
    <3>1. ~(j < k) /\ ~(k < j)
      BY <2>1, <2>2
    <3> QED BY <3>1
  <2> QED BY <2>2
<1>11. own \in [1..n -> Occupied(grid)] /\ DOMAIN own = 1..n
  <2>1. \A k \in 1..n : own[k] \in Occupied(grid)
    BY <1>9
  <2> QED BY <1>6, <2>1
<1>12. IsInjective(own)
  BY <1>10, <1>11 DEF IsInjective
<1> QED BY <1>1, <1>7, <1>9, <1>11, <1>12 DEF Covers

-----------------------------------------------------------------------------
(* Crafting: the first recipe that fits                                    *)

LEMMA MatchesAreLaid ==
    ASSUME NEW wide \in {2, 3}, NEW grid \in Grids(wide)
    PROVE  MatchIsLaid(grid, wide)
<1>1. PICK fit : fit = {i \in DOMAIN Recipes : LaidFor(Recipes[i], grid, wide)}
  OBVIOUS
<1>2. \A i \in DOMAIN Recipes : Recipes[i] \in Recipe /\ i \in Nat \ {0}
  BY CraftingAssumption
<1>3. fit \in SUBSET Nat /\ 0 \notin fit
  BY <1>1, <1>2
<1>4. \A i \in fit : Covers(Recipes[i], grid, wide)
  <2>1. ASSUME NEW i \in fit, Recipes[i].shapeless PROVE Covers(Recipes[i], grid, wide)
    BY <1>1, <1>2, <2>1, ShapelessCovers DEF LaidFor
  <2>2. ASSUME NEW i \in fit, ~Recipes[i].shapeless PROVE Covers(Recipes[i], grid, wide)
    <3>1. PICK r \in Recipe : r = Recipes[i]
      BY <1>1, <1>2
    <3>2. PICK ox \in 0..(wide - r.w), oy \in 0..(wide - r.h) : FitsAt(r, grid, wide, ox, oy)
      BY <1>1, <2>2, <3>1 DEF LaidFor
    <3> QED BY <2>2, <3>1, <3>2, FitCovers
  <2> QED BY <2>1, <2>2
<1>5. \A i \in DOMAIN Recipes : ~Recipes[i].shapeless /\ Covers(Recipes[i], grid, wide) => i \in fit
  <2>1. ASSUME NEW i \in DOMAIN Recipes, ~Recipes[i].shapeless, Covers(Recipes[i], grid, wide) PROVE i \in fit
    <3>1. \E ox \in 0..(wide - Recipes[i].w), oy \in 0..(wide - Recipes[i].h) : FitsAt(Recipes[i], grid, wide, ox, oy)
      BY <1>2, <2>1, CoversFits
    <3> QED BY <1>1, <2>1, <3>1 DEF LaidFor
  <2> QED BY <2>1
<1>6. FindMatch(grid, wide) = IF fit = {} THEN 0 ELSE LeastOf(fit)
  BY <1>1 DEF FindMatch, LeastOf
<1>7. CASE fit = {}
  BY <1>5, <1>6, <1>7 DEF MatchIsLaid
<1>8. CASE fit # {}
  <2>1. LeastOf(fit) \in fit /\ \A i \in fit : LeastOf(fit) <= i
    BY <1>3, <1>8, LeastThere
  <2>2. FindMatch(grid, wide) # 0 /\ FindMatch(grid, wide) = LeastOf(fit)
    BY <1>3, <1>6, <1>8, <2>1
  <2> QED BY <1>4, <1>5, <2>1, <2>2 DEF MatchIsLaid
<1> QED BY <1>7, <1>8

-----------------------------------------------------------------------------
(* Crafting: what is put into an inventory leaves piles in its slots       *)

BagType == [BagSlots -> Pile]
Putting == [slots : BagType, left : Nat]

LEMMA PutIs ==
    ASSUME NEW acc \in Putting, NEW s \in BagSlots, NEW good \in Goods
    PROVE  PutInto(acc, s, good) \in Putting
<1>1. CraftStack \in Nat
  BY CraftingAssumption
<1>2. acc.slots \in BagType /\ acc.left \in Nat /\ acc.slots[s] \in Pile
  BY DEF Putting, BagType
<1>3. acc.slots[s].n \in 0..CraftStack
  BY <1>2 DEF Pile
<1>4. PICK space \in 0..CraftStack : space = CraftStack - acc.slots[s].n
  BY <1>1, <1>3
<1>5. PICK add \in 0..space : add = (IF acc.left < space THEN acc.left ELSE space) /\ add <= acc.left
  BY <1>2, <1>4
<1>6. acc.slots[s].n + add \in 0..CraftStack /\ acc.left - add \in Nat
  BY <1>1, <1>2, <1>3, <1>4, <1>5
<1>7. PutInto(acc, s, good) =
        IF add = 0 THEN acc
        ELSE [slots |-> [acc.slots EXCEPT ![s] = [good |-> good, n |-> acc.slots[s].n + add]], left |-> acc.left - add]
  BY <1>4, <1>5 DEF PutInto
<1>8. [acc.slots EXCEPT ![s] = [good |-> good, n |-> acc.slots[s].n + add]] \in BagType
  BY <1>2, <1>6 DEF BagType, Pile
<1> QED BY <1>6, <1>7, <1>8 DEF Putting

Order == [k \in 1..(LastSlot + 1) |-> k - 1]
PutIf(acc, s, wanted, good) == IF s \in wanted THEN PutInto(acc, s, good) ELSE acc
OrderEquation(it, acc, wanted, good) ==
    it = [t \in SUBSET (DOMAIN Order) |-> IF t = {} THEN acc ELSE PutIf(it[t \ {LastOf(t)}], Order[LastOf(t)], wanted, good)]

LEMMA InOrderIsFold ==
    ASSUME NEW acc, NEW wanted, NEW good
    PROVE  InOrder(wanted, acc, good) = (CHOOSE it : OrderEquation(it, acc, wanted, good))[DOMAIN Order]
  BY DEF InOrder, FoldLeft, MapThenFoldSet, OrderEquation, PutIf, Order, LastOf, Max

PutsIn(wanted, good) == [k \in Nat |-> [acc \in Putting |-> IF k \in 1..(LastSlot + 1) THEN PutIf(acc, k - 1, wanted, good) ELSE acc]]

LEMMA InOrderIs ==
    ASSUME NEW acc \in Putting, NEW wanted, NEW good \in Goods
    PROVE  InOrder(wanted, acc, good) \in Putting
<1>1. PICK n \in Nat : n = LastSlot + 1
  BY CraftingAssumption
<1>2. DOMAIN Order = 1..n /\ \A k \in 1..n : Order[k] = k - 1 /\ k - 1 \in BagSlots
  BY <1>1, CraftingAssumption DEF Order, BagSlots
<1>3. \A a \in Putting, k \in 1..n : PutIf(a, k - 1, wanted, good) \in Putting
  BY <1>2, PutIs DEF PutIf
<1>4. PICK H : H = PutsIn(wanted, good)
  OBVIOUS
<1>5. H \in [Nat -> [Putting -> Putting]] /\ \A k \in 1..n, a \in Putting : H[k][a] = PutIf(a, Order[k], wanted, good)
  BY <1>1, <1>2, <1>3, <1>4 DEF PutsIn
<1>6. PICK f \in [0..n -> Putting] : Runs(f, H, acc, n)
  BY <1>1, <1>5, PartExists
<1>7. PICK G : G = [k \in 1..n |-> H[k]]
  OBVIOUS
<1>8. G \in [1..n -> [Putting -> Putting]] /\ \A k \in 1..n, a \in Putting : G[k][a] = PutIf(a, Order[k], wanted, good)
  BY <1>5, <1>7
<1>9. Runs(f, G, acc, n)
  BY <1>6, <1>7 DEF Runs
<1>10. PICK it \in [SUBSET (1..n) -> Putting] : Folds(it, G, Lasts(n), acc, SUBSET (1..n))
  BY <1>1, <1>8, LeftFoldExists
<1>11. \A t \in (SUBSET (1..n)) \ {{}} : Lasts(n)[t] = LastOf(t) /\ LastOf(t) \in t
  BY <1>1, LastThere DEF Lasts
<1>12. OrderEquation(it, acc, wanted, good)
  <2>1. it[{}] = acc
    BY <1>10 DEF Folds, FoldStep
  <2>2. ASSUME NEW t \in SUBSET (1..n), t # {}
        PROVE  it[t] = PutIf(it[t \ {LastOf(t)}], Order[LastOf(t)], wanted, good)
    <3>1. it[t] = G[LastOf(t)][it[t \ {LastOf(t)}]]
      BY <1>10, <1>11, <2>2 DEF Folds, FoldStep
    <3>2. LastOf(t) \in 1..n /\ it[t \ {LastOf(t)}] \in Putting
      BY <1>10, <1>11, <2>2
    <3> QED BY <1>8, <3>1, <3>2
  <2> QED BY <1>2, <1>10, <2>1, <2>2 DEF OrderEquation
<1>13. PICK other : OrderEquation(other, acc, wanted, good) /\ InOrder(wanted, acc, good) = other[1..n]
  BY <1>2, <1>12, InOrderIsFold
<1>14. KeepsFold(other, G, Lasts(n), acc, 1..n, Putting)
  <2>1. other[{}] = acc
    BY <1>13 DEF OrderEquation
  <2>2. ASSUME NEW t \in (SUBSET (1..n)) \ {{}}, other[t \ {Lasts(n)[t]}] \in Putting
        PROVE  other[t] = G[Lasts(n)[t]][other[t \ {Lasts(n)[t]}]]
    <3>1. other[t] = PutIf(other[t \ {LastOf(t)}], Order[LastOf(t)], wanted, good)
      BY <1>2, <1>13 DEF OrderEquation
    <3>2. LastOf(t) \in 1..n /\ Lasts(n)[t] = LastOf(t)
      BY <1>11
    <3> QED BY <1>8, <2>2, <3>1, <3>2
  <2> QED BY <2>1, <2>2 DEF KeepsFold
<1>15. Alongside(other, f, G, acc, n, Putting)
  BY <1>6, <1>8, <1>9, <1>14 DEF Alongside
<1>16. other[1..n] = f[n]
  BY <1>1, <1>15, LeftFold
<1> QED BY <1>1, <1>6, <1>13, <1>16

LEMMA StoredIs ==
    ASSUME NEW slots \in BagType, NEW good \in Goods, NEW count \in Nat
    PROVE  Stored(slots, good, count) \in BagType
<1>1. [slots |-> slots, left |-> count] \in Putting
  BY DEF Putting
<1>2. PICK merged \in Putting :
        merged = InOrder({s \in BagSlots : slots[s].n > 0 /\ slots[s].good = good}, [slots |-> slots, left |-> count], good)
  BY <1>1, InOrderIs
<1>3. PICK result \in Putting : result = InOrder({s \in BagSlots : slots[s].n = 0}, merged, good)
  BY <1>2, InOrderIs
<1>4. Stored(slots, good, count) = result.slots
  BY <1>2, <1>3 DEF Stored
<1> QED BY <1>4 DEF Putting

-----------------------------------------------------------------------------
(* Crafting: the types                                                     *)

Packet == [at : {"idle"}] \cup [at : {"takes", "gives"}, big : BOOLEAN, of : DOMAIN Recipes, all : BOOLEAN]
CraftingInv ==
    /\ carries \in [Crafters -> BagType] /\ laid \in [TableSlots -> Pile]
    /\ crafting \in [Crafters -> Packet] /\ isOpen \in BOOLEAN

LEMMA CraftingInvInit == CraftingInit => CraftingInv
<1> SUFFICES ASSUME CraftingInit PROVE CraftingInv
  OBVIOUS
<1>1. carries \in [Crafters -> BagType] /\ laid \in [TableSlots -> Pile] /\ isOpen \in BOOLEAN
  BY CraftingAssumption DEF CraftingInit, BagType
<1>2. crafting \in [Crafters -> Packet]
  BY DEF CraftingInit, NotCrafting, Packet
<1> QED BY <1>1, <1>2 DEF CraftingInv

LEMMA MatchNumber ==
    ASSUME NEW grid, NEW wide
    PROVE  FindMatch(grid, wide) \in DOMAIN Recipes \cup {0}
<1>1. PICK fit : fit = {i \in DOMAIN Recipes : LaidFor(Recipes[i], grid, wide)}
  OBVIOUS
<1>2. fit \in SUBSET Nat
  BY <1>1, CraftingAssumption
<1>3. fit # {} => LeastOf(fit) \in fit
  BY <1>2, LeastThere
<1>4. FindMatch(grid, wide) = IF fit = {} THEN 0 ELSE LeastOf(fit)
  BY <1>1 DEF FindMatch, LeastOf
<1> QED BY <1>1, <1>3, <1>4

LEMMA EmptiedPile ==
    ASSUME NEW pile \in Pile, NEW n \in 0..CraftStack
    PROVE  [pile EXCEPT !.n = n] \in Pile
  BY DEF Pile

LEMMA InputsFinite ==
    ASSUME NEW r \in Recipe
    PROVE  IsFiniteSet(Inputs(r))
<1>1. Len(r.needs) \in Nat /\ Cardinality(Goods) \in Nat
  BY FieldsOf, CraftingAssumption, FS_CardinalityType
<1>2. IsFiniteSet(1..Len(r.needs)) /\ IsFiniteSet(1..Cardinality(Goods))
  BY <1>1, FS_Interval
<1>3. IsFiniteSet((1..Len(r.needs)) \X (1..Cardinality(Goods)))
  BY <1>2, FS_Product
<1>4. Inputs(r) \subseteq (1..Len(r.needs)) \X (1..Cardinality(Goods))
  BY DEF Inputs
<1> QED BY <1>3, <1>4, FS_Subset

LEMMA TakenFromBag ==
    ASSUME NEW p \in Crafters, NEW r \in Recipe, CraftingInv, TakesFromBag(p, r)
    PROVE  carries' \in [Crafters -> BagType]
<1>1. CraftStack \in Nat
  BY CraftingAssumption
<1>2. \A s \in BagSlots : carries[p][s] \in Pile
  BY DEF CraftingInv, BagType
<1>3. PICK rest : rest = [s \in BagSlots |->
         carries[p][s].n - Cardinality({input \in Inputs(r) : SlotFor(r, input) = s /\ s <= 4 /\ r.needs[input[1]][input[2]] = carries[p][s].good})]
  OBVIOUS
<1>4. carries' = [carries EXCEPT ![p] = [s \in BagSlots |-> [carries[p][s] EXCEPT !.n = IF rest[s] > 0 THEN rest[s] ELSE 0]]]
  BY <1>3 DEF TakesFromBag, CraftingInv
<1>5. ASSUME NEW s \in BagSlots PROVE (IF rest[s] > 0 THEN rest[s] ELSE 0) \in 0..CraftStack
  <2>1. PICK struck : struck = {input \in Inputs(r) : SlotFor(r, input) = s /\ s <= 4 /\ r.needs[input[1]][input[2]] = carries[p][s].good}
    OBVIOUS
  <2>2. IsFiniteSet(struck)
    BY <2>1, InputsFinite, FS_Subset
  <2>3. Cardinality(struck) \in Nat /\ carries[p][s].n \in 0..CraftStack
    BY <1>2, <2>2, FS_CardinalityType DEF Pile
  <2>4. rest[s] = carries[p][s].n - Cardinality(struck)
    BY <1>3, <2>1
  <2> QED BY <1>1, <2>3, <2>4
<1> QED BY <1>2, <1>4, <1>5, EmptiedPile DEF CraftingInv, BagType

LEMMA TakenFromTable ==
    ASSUME NEW r, CraftingInv, TakesFromTable(r)
    PROVE  laid' \in [TableSlots -> Pile] /\ isOpen' \in BOOLEAN
<1>1. laid \in [TableSlots -> Pile] /\ isOpen \in BOOLEAN
  BY DEF CraftingInv
<1>2. 0 \in 0..CraftStack
  BY CraftingAssumption
<1>3. ASSUME NEW inputs,
             laid' = [s \in TableSlots |-> IF \E i \in inputs : SlotFor(r, i) = s THEN [laid[s] EXCEPT !.n = 0] ELSE laid[s]]
      PROVE  laid' \in [TableSlots -> Pile]
  BY <1>1, <1>2, <1>3, EmptiedPile
<1>4. laid' \in [TableSlots -> Pile]
  <2>1. CASE laid' = [s \in TableSlots |-> IF \E i \in (IF isOpen THEN Inputs(r) ELSE {}) : SlotFor(r, i) = s
                                         THEN [laid[s] EXCEPT !.n = 0] ELSE laid[s]]
    <3>1. PICK inputs : inputs = IF isOpen THEN Inputs(r) ELSE {}
      OBVIOUS
    <3>2. laid' = [s \in TableSlots |-> IF \E i \in inputs : SlotFor(r, i) = s THEN [laid[s] EXCEPT !.n = 0] ELSE laid[s]]
      BY <2>1, <3>1
    <3> QED BY <1>3, <3>2
  <2>2. CASE \E last \in Inputs(r) :
                laid' = [s \in TableSlots |-> IF \E i \in {j \in Inputs(r) : j[1] < last[1] \/ (j[1] = last[1] /\ j[2] <= last[2])} : SlotFor(r, i) = s
                                            THEN [laid[s] EXCEPT !.n = 0] ELSE laid[s]]
    BY <1>3, <2>2
  <2> QED BY <2>1, <2>2 DEF TakesFromTable
<1>5. isOpen' \in BOOLEAN
  BY <1>1 DEF TakesFromTable
<1> QED BY <1>4, <1>5

LEMMA MadeIs ==
    ASSUME NEW p \in Crafters, CraftingInv, crafting[p].at # "idle"
    PROVE  /\ Recipes[crafting[p].of] \in Recipe /\ Made(p) \in Nat
           /\ crafting[p] \in [at : {"takes", "gives"}, big : BOOLEAN, of : DOMAIN Recipes, all : BOOLEAN]
<1>1. crafting[p] \in [at : {"takes", "gives"}, big : BOOLEAN, of : DOMAIN Recipes, all : BOOLEAN]
  BY DEF CraftingInv, Packet
<1>2. Recipes[crafting[p].of] \in Recipe
  BY <1>1, CraftingAssumption
<1>3. Recipes[crafting[p].of].count \in Nat
  BY <1>2, FieldsOf
<1>4. Made(p) = IF crafting[p].all /\ Recipes[crafting[p].of].count > 1 THEN 2 * Recipes[crafting[p].of].count
                ELSE Recipes[crafting[p].of].count
  BY DEF Made
<1> QED BY <1>1, <1>2, <1>3, <1>4

LEMMA CraftingInvStep ==
    ASSUME CraftingInv, [CraftingNext]_crafting_vars
    PROVE  CraftingInv'
<1> USE DEF CraftingInv
<1>1. ASSUME NEW p \in Crafters, NEW big \in BOOLEAN, ReadsGrid(p, big) PROVE CraftingInv'
  <2>1. PICK found : /\ found = IF big THEN (IF isOpen THEN FindMatch(TableGrid, 3) ELSE 0) ELSE FindMatch(GridOf(p), 2)
                     /\ found # 0
                     /\ \E all \in {FALSE, ~big} : crafting' = [crafting EXCEPT ![p] = [at |-> "takes", big |-> big, of |-> found, all |-> all]]
    BY <1>1 DEF ReadsGrid
  <2>2. found \in DOMAIN Recipes
    BY <2>1, MatchNumber
  <2>3. crafting' \in [Crafters -> Packet]
    <3>1. PICK all \in BOOLEAN : crafting' = [crafting EXCEPT ![p] = [at |-> "takes", big |-> big, of |-> found, all |-> all]]
      BY <2>1
    <3>2. [at |-> "takes", big |-> big, of |-> found, all |-> all] \in Packet
      BY <1>1, <2>2 DEF Packet
    <3> QED BY <3>1, <3>2
  <2> QED BY <1>1, <2>3 DEF ReadsGrid
<1>2. ASSUME NEW p \in Crafters, TakesInputs(p) PROVE CraftingInv'
  <2>1. crafting[p].at = "takes" /\ crafting' = [crafting EXCEPT ![p].at = "gives"]
    BY <1>2 DEF TakesInputs
  <2>2. PICK r \in Recipe : r = Recipes[crafting[p].of]
    BY <2>1, MadeIs
  <2>3. crafting' \in [Crafters -> Packet]
    <3>1. [crafting[p] EXCEPT !.at = "gives"] \in Packet
      BY <2>1, MadeIs DEF Packet
    <3> QED BY <2>1, <3>1
  <2>4. CASE crafting[p].big
    <3>1. TakesFromTable(r) /\ UNCHANGED carries
      BY <1>2, <2>2, <2>4 DEF TakesInputs
    <3> QED BY <2>3, <3>1, TakenFromTable
  <2>5. CASE ~crafting[p].big
    <3>1. TakesFromBag(p, r) /\ UNCHANGED <<laid, isOpen>>
      BY <1>2, <2>2, <2>5 DEF TakesInputs
    <3> QED BY <2>3, <3>1, TakenFromBag
  <2> QED BY <2>4, <2>5
<1>3. ASSUME NEW p \in Crafters, GivesResult(p) PROVE CraftingInv'
  <2>1. crafting[p].at = "gives" /\ crafting' = [crafting EXCEPT ![p] = NotCrafting] /\ UNCHANGED <<laid, isOpen>>
    BY <1>3 DEF GivesResult
  <2>2. Recipes[crafting[p].of].gives \in Goods /\ Made(p) \in Nat
    BY <2>1, MadeIs, FieldsOf
  <2>3. Stored(carries[p], Recipes[crafting[p].of].gives, Made(p)) \in BagType
    BY <2>2, StoredIs
  <2>4. carries' = [carries EXCEPT ![p] = Stored(carries[p], Recipes[crafting[p].of].gives, Made(p))]
    BY <1>3 DEF GivesResult
  <2>5. crafting' \in [Crafters -> Packet]
    BY <2>1 DEF NotCrafting, Packet
  <2> QED BY <2>1, <2>3, <2>4, <2>5
<1>4. ASSUME NEW p \in Crafters, LoseBag(p) PROVE CraftingInv'
  <2>1. 0 \in 0..CraftStack
    BY CraftingAssumption
  <2>2. Emptied(carries[p]) \in BagType
    BY <2>1, EmptiedPile DEF Emptied, BagType
  <2>3. carries' = [carries EXCEPT ![p] = Emptied(carries[p])] /\ UNCHANGED <<laid, isOpen, crafting>>
    BY <1>4 DEF LoseBag
  <2> QED BY <2>2, <2>3
<1>5. CASE CloseTable
  BY <1>5 DEF CloseTable
<1>6. CASE UNCHANGED crafting_vars
  BY <1>6 DEF crafting_vars
<1> QED BY <1>1, <1>2, <1>3, <1>4, <1>5, <1>6 DEF CraftingNext

LEMMA CraftingTypes ==
    ASSUME CraftingInv
    PROVE  CraftingTypeOK
<1>1. \A p \in Crafters : carries[p] \in [BagSlots -> Pile] /\ crafting[p].at \in {"idle", "takes", "gives"}
  BY DEF CraftingInv, BagType, Packet
<1> QED BY <1>1 DEF CraftingInv, CraftingTypeOK

LEMMA LaidIsFound ==
    ASSUME CraftingInv
    PROVE  CraftsWhatIsLaid
<1>1. TableGrid \in Grids(3)
  <2>1. \A c \in 0..8 : c + 1 \in TableSlots
    BY DEF TableSlots
  <2> QED BY <2>1 DEF TableGrid, Grids, CraftingInv
<1>2. \A p \in Crafters : GridOf(p) \in Grids(2)
  <2>1. \A c \in 0..3 : c + 1 \in BagSlots
    BY CraftingAssumption DEF BagSlots
  <2> QED BY <2>1 DEF GridOf, Grids, CraftingInv, BagType
<1> QED BY <1>1, <1>2, MatchesAreLaid DEF CraftsWhatIsLaid

(* Type correctness of crafting: the inventories and window 1 hold piles of *)
(* known goods, none above a stack, whatever is taken and stored.          *)
THEOREM CraftingTypeCorrect == CraftingSpec => []CraftingTypeOK
<1> QED BY CraftingInvInit, CraftingInvStep, CraftingTypes, PTL DEF CraftingSpec

(* Crafting makes what is laid: in every grid a player can come to have,   *)
(* the recipe that find_match and find_match_3x3 return is one that what   *)
(* lies there covers, at whatever offset or in whatever order, and no      *)
(* shaped recipe before it was missed.                                     *)
THEOREM RecipesAreLaid == CraftingSpec => []CraftsWhatIsLaid
<1> QED BY CraftingInvInit, CraftingInvStep, LaidIsFound, PTL DEF CraftingSpec

-----------------------------------------------------------------------------
(* Vitals                                                                  *)

LEMMA VitalsTypes == VitalsTypeOK /\ [VitalsNext]_vitals_vars => VitalsTypeOK'
<1> SUFFICES ASSUME VitalsTypeOK, [VitalsNext]_vitals_vars PROVE VitalsTypeOK'
  OBVIOUS
<1> USE VitalsAssumption DEF VitalsTypeOK
<1>0. \A e : EffectLevel(e) \in 0..MaxLevels
  BY DEF EffectLevel
<1>1. CASE Eat
  <2>1. PICK nutrition \in 1..2, extra \in 0..3 : AddFood(nutrition, extra)
    BY <1>1 DEF Eat
  <2>2. MaxFood \in Nat /\ nutrition \in Nat /\ extra \in Nat /\ food \in Nat /\ saturation \in Nat
    OBVIOUS
  <2>3. food' \in 0..MaxFood
    BY <2>1, <2>2 DEF AddFood, AtMostOf
  <2>4. food' \in Nat
    BY <2>3
  <2>5. saturation' = AtMostOf(saturation + extra, food')
    BY <2>1 DEF AddFood
  <2>6. saturation' \in Nat
    BY <2>2, <2>4, <2>5 DEF AtMostOf
  <2> QED BY <1>1, <2>3, <2>6 DEF Eat
<1>2. CASE DieAndRespawn
  BY <1>2 DEF DieAndRespawn, AtMostOf
<1>3. CASE TickHunger
  <2>1. PICK more \in Exertions : HungerWithoutCost(exhaustion + more) \/ HungerWithCost(exhaustion + more)
    BY <1>3 DEF TickHunger
  <2>2. PICK spent \in Nat : spent = exhaustion + more /\ spent - ExhaustAt < ExhaustAt
    OBVIOUS
  <2>3. CASE HungerWithoutCost(spent)
    BY <1>3, <2>2, <2>3 DEF TickHunger, HungerWithoutCost, CostsAPoint
  <2>4. CASE HungerWithCost(spent)
    <3>1. saturation' \in Nat /\ food' \in 0..MaxFood
      BY <2>4 DEF HungerWithCost, AtLeastOf
    <3>2. spent - ExhaustAt \in 0..(ExhaustAt - 1) /\ 0 \in 0..(ExhaustAt - 1)
      BY <2>2, <2>4 DEF HungerWithCost, CostsAPoint
    <3>3. exhaustion' \in 0..(ExhaustAt - 1)
      BY <2>4, <3>2 DEF HungerWithCost
    <3>4. hearts' \in 0..FullHearts
      BY <2>4 DEF HungerWithCost, AtLeastOf
    <3>5. hung' \in BOOLEAN
      BY <2>4 DEF HungerWithCost
    <3> QED BY <1>3, <3>1, <3>3, <3>4, <3>5 DEF TickHunger
  <2> QED BY <2>1, <2>2, <2>3, <2>4
<1>4. ASSUME NEW e \in Lasting, NEW l \in 1..MaxLevels, NEW t \in 1..LongEffect, AddEffect(e, l, t)
      PROVE  VitalsTypeOK'
  BY <1>4 DEF AddEffect, eating
<1>5. CASE AddInstant
  BY <1>5 DEF AddInstant, eating
<1>6. CASE ClearEffects
  BY <1>6 DEF ClearEffects, eating
<1>7. CASE TickEffects
  <2>1. UNCHANGED <<hearts, exhaustion>>
    BY <1>7 DEF TickEffects
  <2>2. PICK due \in BOOLEAN, rests \in BOOLEAN :
          IF EffectLevel("Resistance") > 0 /\ rests
          THEN hung' = TRUE /\ UNCHANGED <<golden, eating, effects>>
          ELSE LET refill == IF EffectLevel("Saturation") > 0 /\ golden = 0
                             THEN 4 * EffectLevel("Saturation") ELSE golden
                   ends == "Saturation" \in DOMAIN effects \ DOMAIN Counted
               IN /\ Saturates(due)
                  /\ golden' = IF EffectLevel("Luck") > 0 /\ ends THEN 0 ELSE refill
                  /\ effects' = Counted
                  /\ UNCHANGED hung
    BY <1>7 DEF TickEffects
  <2>3. CASE EffectLevel("Resistance") > 0 /\ rests
    BY <2>1, <2>2, <2>3 DEF eating
  <2>4. CASE ~(EffectLevel("Resistance") > 0 /\ rests)
    <3>1. Saturates(due) /\ effects' = Counted /\ UNCHANGED hung
      BY <2>2, <2>4
    <3>2. golden' = 0 \/ golden' = golden \/ golden' = 4 * EffectLevel("Saturation")
      BY <2>2, <2>4
    <3>3. golden' \in 0..4 * MaxLevels
      BY <1>0, <3>2
    <3>4. saturation' \in Nat /\ food' \in 0..MaxFood
      <4>1. PICK level \in Nat : level = EffectLevel("Glowing")
        BY <1>0
      <4> QED BY <3>1, <4>1 DEF Saturates, AtMostOf
    <3>5. ASSUME NEW e \in DOMAIN Counted
          PROVE  e \in DOMAIN effects /\ Counted[e] \in [level : 1..MaxLevels, ticks : 1..LongEffect]
      BY DEF Counted
    <3>6. DOMAIN effects' \subseteq Lasting /\ \A e \in DOMAIN effects' : effects'[e] \in [level : 1..MaxLevels, ticks : 1..LongEffect]
      BY <3>1, <3>5
    <3> QED BY <2>1, <3>1, <3>3, <3>4, <3>6
  <2> QED BY <2>3, <2>4
<1>8. CASE TickEffectDamage
  <2>1. PICK poison, wither \in Nat : poison = EffectLevel("Poison") /\ wither = EffectLevel("Wither")
    BY <1>0
  <2>2. PICK poisoned \in 0..FullHearts : poisoned = IF poison > 0 /\ hearts > 1 THEN AtLeastOf(hearts - poison, 1) ELSE hearts
    BY <2>1 DEF AtLeastOf
  <2>3. hearts' = AtLeastOf(poisoned - wither, 0)
    BY <1>8, <2>1, <2>2 DEF TickEffectDamage
  <2>4. hearts' \in 0..FullHearts
    BY <2>2, <2>3 DEF AtLeastOf
  <2> QED BY <1>8, <2>4 DEF TickEffectDamage, eating
<1>9. CASE Hurt
  BY <1>9 DEF Hurt, eating
<1>10. CASE UNCHANGED vitals_vars
  BY <1>10 DEF vitals_vars
<1> QED BY <1>1, <1>2, <1>3, <1>4, <1>5, <1>6, <1>7, <1>8, <1>9, <1>10 DEF VitalsNext

(* Type correctness of food, health and effects: health, food and golden   *)
(* hearts stay within their limits, and exhaustion below the cost of a     *)
(* point, as add_food, tick_hunger and the effects clamp them.             *)
THEOREM VitalsTypeCorrect == VitalsSpec => []VitalsTypeOK
<1>1. VitalsInit => VitalsTypeOK
  <2> SUFFICES ASSUME VitalsInit PROVE VitalsTypeOK
    OBVIOUS
  <2>1. hearts \in 0..FullHearts /\ food \in 0..MaxFood /\ saturation \in Nat /\ hung \in BOOLEAN
    <3>1. FullHearts \in 0..FullHearts /\ MaxFood \in 0..MaxFood
      BY VitalsAssumption
    <3>2. hung \in BOOLEAN
      BY DEF VitalsInit
    <3> QED BY <3>1, <3>2 DEF VitalsInit
  <2>2. MaxLevels \in Nat /\ ExhaustAt \in Nat \ {0}
    BY VitalsAssumption
  <2>3. golden \in 0..4 * MaxLevels /\ exhaustion \in 0..ExhaustAt - 1
    <3>1. 0 \in 0..4 * MaxLevels /\ 0 \in 0..ExhaustAt - 1
      BY <2>2
    <3> QED BY <3>1 DEF VitalsInit
  <2>4. DOMAIN effects = {}
    BY DEF VitalsInit
  <2> QED BY <2>1, <2>3, <2>4 DEF VitalsTypeOK
<1> QED BY <1>1, VitalsTypes, PTL DEF VitalsSpec


-----------------------------------------------------------------------------
(* Minds of mobs: with MindsInv, what is in the air                        *)

Flight == [kind : {"arrow", "trident"}, ticks : 0..FlightTicks, loyal : BOOLEAN]
FlightsOK ==
    /\ DOMAIN flights \subseteq 1..Flights /\ \A k \in DOMAIN flights : flights[k] \in Flight
    /\ returned \in Nat

LEMMA OneFlies ==
    ASSUME FlightsOK, NEW m, Airborne(m), UNCHANGED returned
    PROVE  FlightsOK'
<1>1. 0 \in 0..FlightTicks
  BY MindsAssumption
<1>2. CASE flights' = flights
  BY <1>2 DEF FlightsOK
<1>3. CASE DOMAIN flights # 1..Flights
           /\ flights' = LET n == CHOOSE k \in 1..Flights : k \notin DOMAIN flights
                         IN [k \in DOMAIN flights \cup {n} |-> IF k = n THEN Launched(m) ELSE flights[k]]
  <2>1. PICK n : n = CHOOSE k \in 1..Flights : k \notin DOMAIN flights
    OBVIOUS
  <2>2. n \in 1..Flights
    BY <1>3, <2>1 DEF FlightsOK
  <2>3. flights' = [k \in DOMAIN flights \cup {n} |-> IF k = n THEN Launched(m) ELSE flights[k]]
    BY <1>3, <2>1
  <2> QED BY <1>1, <2>2, <2>3 DEF FlightsOK, Launched, Flight
<1> QED BY <1>2, <1>3 DEF Airborne

LEMMA FlightsTypes == FlightsOK /\ [MindsNext]_minds_vars => FlightsOK'
<1> SUFFICES ASSUME FlightsOK, [MindsNext]_minds_vars PROVE FlightsOK'
  OBVIOUS
<1>1. ASSUME UNCHANGED <<flights, returned>> PROVE FlightsOK'
  BY <1>1 DEF FlightsOK
<1>2. ASSUME NEW i \in Minded, NEW sight \in Sights, Think(i, sight) PROVE FlightsOK'
  BY <1>2, OneFlies DEF Think
<1>3. ASSUME NEW i \in Minded, NEW sight \in Sights, Behave(i, sight) PROVE FlightsOK'
  BY <1>3, OneFlies DEF Behave
<1>4. CASE Fly
  <2>1. PICK fallen \in SUBSET DOMAIN flights :
          LET ended == fallen \cup {k \in DOMAIN flights : flights[k].ticks + 1 > FlightTicks}
              left == DOMAIN flights \ ended
          IN /\ flights' = [k \in left |-> [flights[k] EXCEPT !.ticks = @ + 1]]
             /\ returned' = IF \E k \in ended \cap left : flights[k].loyal THEN returned + 1 ELSE returned
    BY <1>4 DEF Fly
  <2>2. PICK left : left = DOMAIN flights \ (fallen \cup {k \in DOMAIN flights : flights[k].ticks + 1 > FlightTicks})
    OBVIOUS
  <2>3. flights' = [k \in left |-> [flights[k] EXCEPT !.ticks = @ + 1]]
    BY <2>1, <2>2
  <2>4. \A k \in left : k \in DOMAIN flights /\ flights[k] \in Flight /\ ~(flights[k].ticks + 1 > FlightTicks)
    BY <2>2 DEF FlightsOK
  <2>5. \A k \in left : flights[k].ticks + 1 \in 0..FlightTicks
    BY <2>4, MindsAssumption DEF Flight
  <2>6. \A k \in left : flights'[k] \in Flight
    BY <2>3, <2>4, <2>5 DEF Flight
  <2>7. returned' \in Nat
    BY <2>1 DEF FlightsOK
  <2> QED BY <2>3, <2>4, <2>6, <2>7 DEF FlightsOK
<1>5. ASSUME NEW kind \in {"arrow", "trident"}, NEW loyal \in BOOLEAN, Launch(kind, loyal) PROVE FlightsOK'
  BY <1>5, MindsAssumption DEF Launch, FlightsOK, Flight
<1>6. ASSUME BeginTick \/ NextPass \/ (UNCHANGED minds_vars) \/ \E i \in Minded : LookForPrey(i) \/ Sit(i)
      PROVE  UNCHANGED <<flights, returned>>
  BY <1>6 DEF BeginTick, NextPass, LookForPrey, Sit, minds_vars
<1> QED BY <1>1, <1>2, <1>3, <1>4, <1>5, <1>6 DEF MindsNext

(* Type correctness of minds: timers and cooldowns stay within their pause *)
(* and gap, whatever the two passes of tick_ai make of a mob's number, and *)
(* projectiles leave the map before they are older than their kind allows. *)
THEOREM MindsTypeCorrect == MindsSpec => []MindsTypeOK
<1>1. MindsInit => FlightsOK
  BY DEF MindsInit, FlightsOK
<1>2. MindsInv /\ FlightsOK => MindsTypeOK
  <2> SUFFICES ASSUME MindsInv, FlightsOK PROVE MindsTypeOK
    OBVIOUS
  <2>1. \A i \in Minded : mind[i] \in Minds
    BY DEF MindsInv, Spaced
  <2>2. \A k \in DOMAIN flights : flights[k].ticks \in 0..FlightTicks
    BY DEF FlightsOK, Flight
  <2> QED BY <2>1, <2>2 DEF FlightsOK, MindsTypeOK, Minds, Moods
<1> QED BY <1>1, <1>2, MindsStart, MindsKeep, FlightsTypes, PTL DEF MindsSpec

-----------------------------------------------------------------------------
(* Fishing and gossip: with FishInv, how long a fish takes and what a villager remembers *)

WaitsOK == \A b \in DOMAIN bobbers : bobbers[b] \in 0..LongestWait
GossipOK ==
    /\ DOMAIN gossip = Anglers
    /\ \A p \in Anglers : \A k \in GossipKinds \cap DOMAIN gossip[p] : gossip[p][k] \in [value : 0..Limit(k), age : Nat]

LEMMA LimitIs == \A k : Limit(k) \in Nat
  BY HusbandryAssumption DEF Limit, Least2

LEMMA KnownIs ==
    ASSUME GossipOK, NEW p \in Anglers, NEW k \in GossipKinds
    PROVE  Known(p, k) \in 0..Limit(k)
  BY LimitIs DEF GossipOK, Known

LEMMA WaitsTypes ==
    ASSUME WaitsOK, [HusbandryNext]_husbandry_vars
    PROVE  WaitsOK'
<1>1. LongestWait \in Nat
  BY HusbandryAssumption
<1>2. ASSUME NEW p \in Anglers, NEW wait \in 1..LongestWait, Cast(p, wait) PROVE WaitsOK'
  BY <1>1, <1>2 DEF Cast, WaitsOK
<1>3. ASSUME NEW p \in Anglers, ReelIn(p) PROVE WaitsOK'
  BY <1>3 DEF ReelIn, Caught, WaitsOK
<1>4. CASE Bite
  BY <1>1, <1>4 DEF Bite, WaitsOK
<1>5. ASSUME UNCHANGED bobbers PROVE WaitsOK'
  BY <1>5 DEF WaitsOK
<1>6. ASSUME \/ Decay \/ UNCHANGED husbandry_vars
             \/ \E p \in Anglers : SetLine(p) \/ ClearLine(p) \/ Leave(p) \/ OpenTrade(p)
      PROVE  UNCHANGED bobbers
  BY <1>6 DEF Decay, husbandry_vars, SetLine, ClearLine, Leave, OpenTrade
<1> QED BY <1>2, <1>3, <1>4, <1>5, <1>6 DEF HusbandryNext

LEMMA GossipTypes ==
    ASSUME GossipOK, [HusbandryNext]_husbandry_vars
    PROVE  GossipOK'
<1>1. ASSUME NEW p \in Anglers, OpenTrade(p) PROVE GossipOK'
  <2>1. gossip' = [gossip EXCEPT ![p] = [k \in GossipKinds |-> [value |-> Least2(Known(p, k) + 1, Limit(k)), age |-> 0]]]
    BY <1>1 DEF OpenTrade
  <2>2. ASSUME NEW k \in GossipKinds PROVE Least2(Known(p, k) + 1, Limit(k)) \in 0..Limit(k)
    BY KnownIs, LimitIs DEF Least2
  <2>3. DOMAIN gossip' = Anglers /\ \A q \in Anglers \ {p} : gossip'[q] = gossip[q]
    BY <2>1 DEF GossipOK
  <2>4. \A k \in GossipKinds : gossip'[p][k] \in [value : 0..Limit(k), age : Nat]
    BY <2>1, <2>2 DEF GossipOK
  <2> QED BY <2>3, <2>4 DEF GossipOK
<1>2. CASE Decay
  <2>1. PICK keeps : gossip' = [p \in Anglers |-> [k \in keeps[p] |-> [gossip[p][k] EXCEPT !.age = @ + 1]]]
                     /\ keeps = [p \in Anglers |-> {k \in DOMAIN gossip[p] : gossip[p][k].age + 1 < GossipAge /\ gossip[p][k].value > 2}]
    BY <1>2 DEF Decay
  <2>2. \A p \in Anglers : keeps[p] \subseteq DOMAIN gossip[p] /\ DOMAIN gossip'[p] = keeps[p]
    BY <2>1
  <2>3. \A p \in Anglers : \A k \in keeps[p] \cap GossipKinds : gossip'[p][k] \in [value : 0..Limit(k), age : Nat]
    BY <2>1, <2>2 DEF GossipOK
  <2> QED BY <2>1, <2>2, <2>3 DEF GossipOK
<1>3. ASSUME UNCHANGED gossip PROVE GossipOK'
  BY <1>3 DEF GossipOK
<1>4. ASSUME \/ Bite \/ UNCHANGED husbandry_vars
             \/ \E p \in Anglers : \/ \E wait \in 1..LongestWait : Cast(p, wait)
                                   \/ SetLine(p) \/ ReelIn(p) \/ ClearLine(p) \/ Leave(p)
      PROVE  UNCHANGED gossip
  BY <1>4 DEF Bite, husbandry_vars, Cast, SetLine, ReelIn, ClearLine, Leave
<1> QED BY <1>1, <1>2, <1>3, <1>4 DEF HusbandryNext

(* Type correctness of fishing and gossip: lines hold bobbers that were    *)
(* cast, waits only get shorter, and no gossip exceeds its limit, however  *)
(* often a window is opened (villager.rs, fishing.rs).                     *)
THEOREM HusbandryTypeCorrect == HusbandrySpec => []HusbandryTypeOK
<1>1. HusbandryInit => WaitsOK /\ GossipOK
  BY DEF HusbandryInit, WaitsOK, GossipOK
<1>2. FishInv /\ WaitsOK /\ GossipOK => HusbandryTypeOK
  <2> SUFFICES ASSUME FishInv, WaitsOK, GossipOK PROVE HusbandryTypeOK
    OBVIOUS
  <2>1. line \in [Anglers -> 0..Bobbers] /\ DOMAIN bobbers \subseteq 1..Bobbers
    BY HusbandryAssumption DEF FishInv, LinesOK
  <2> QED BY <2>1, KnownIs DEF WaitsOK, HusbandryTypeOK
<1> QED BY <1>1, <1>2, FishStarts, FishKeeps, WaitsTypes, GossipTypes, PTL DEF HusbandrySpec


-----------------------------------------------------------------------------
(* Commands: entries stay entries, whatever command is done to them        *)

PlayerEntry ==
    [mode : {"survival", "creative", "spectator"}, hp : 0..Lives, xp : 0..1, bag : 0..2, lore : BOOLEAN,
     effect : BOOLEAN, tag : BOOLEAN, op : BOOLEAN, spawn : Spots, spot : Spots]
FolkOK == DOMAIN folk \subseteq Subjects /\ \A p \in DOMAIN folk : folk[p] \in PlayerEntry
DeskOK ==
    /\ DOMAIN desk = {"by", "kind", "sel", "sources", "src", "left", "copy", "named", "reached"}
    /\ desk.by \in Callers \cup {"nobody"} /\ desk.reached \subseteq Subjects
    /\ desk.copy = <<>> \/ \E e \in PlayerEntry : desk.copy = <<e>>
ListsOK == lists \in [banned : SUBSET Subjects, white : SUBSET Subjects, whiteOn : BOOLEAN]
SaidOK == said.reached \subseteq Subjects
TurnsOK == turns \in 0..MaxTurns
CommandsInv == FolkOK /\ DeskOK /\ ListsOK /\ SaidOK /\ TurnsOK

LEMMA NewEntry == Entry0 \in PlayerEntry /\ DOMAIN Entry0 = {"mode", "hp", "xp", "bag", "lore", "effect", "tag", "op", "spawn", "spot"}
<1>1. Lives \in 0..Lives
  BY CommandsAssumption
<1> QED BY <1>1 DEF Entry0, PlayerEntry, Spots

LEMMA ChangesOf ==
    ASSUME NEW e \in PlayerEntry
    PROVE  /\ \A m \in {"survival", "creative", "spectator"} : Gamemode(e, m) \in PlayerEntry
           /\ \A place \in Spots : Tp(e, place) \in PlayerEntry
           /\ {KillOf(e), XpSet1(e), Spawnpoint(e), EffectGive(e), EffectClear(e), EffectClearOne(e), ClearBag(e)} \subseteq PlayerEntry
           /\ {GiveTo(e), ItemReplace(e), XpAdd1(e), EnchantHeld(e), Spread(e)} \subseteq PlayerEntry
           /\ \A on \in BOOLEAN : Tagged(e, on) \in PlayerEntry /\ SetOp(e, on) \in PlayerEntry
<1>1. \A m \in {"survival", "creative", "spectator"} : Gamemode(e, m) \in PlayerEntry
  BY DEF Gamemode, PlayerEntry
<1>2. \A place \in Spots : Tp(e, place) \in PlayerEntry
  BY DEF Tp, PlayerEntry
<1>3. KillOf(e) \in PlayerEntry
  BY CommandsAssumption DEF KillOf, PlayerEntry
<1>4. XpSet1(e) \in PlayerEntry
  BY DEF XpSet1, PlayerEntry
<1>5. Spawnpoint(e) \in PlayerEntry
  BY DEF Spawnpoint, PlayerEntry, Spots
<1>6. EffectGive(e) \in PlayerEntry /\ EffectClear(e) \in PlayerEntry /\ EffectClearOne(e) \in PlayerEntry
  BY DEF EffectGive, EffectClear, EffectClearOne, PlayerEntry
<1>7. ClearBag(e) \in PlayerEntry
  <2>1. 0 \in 0..2
    OBVIOUS
  <2> QED BY <2>1 DEF ClearBag, PlayerEntry
<1>8. GiveTo(e) \in PlayerEntry /\ ItemReplace(e) \in PlayerEntry
  <2>1. (IF e.bag < 2 THEN e.bag + 1 ELSE e.bag) \in 0..2
    BY DEF PlayerEntry
  <2> QED BY <2>1 DEF GiveTo, ItemReplace, PlayerEntry
<1>9. XpAdd1(e) \in PlayerEntry
  <2>1. (IF e.xp < 1 THEN e.xp + 1 ELSE e.xp) \in 0..1
    BY DEF PlayerEntry
  <2> QED BY <2>1 DEF XpAdd1, PlayerEntry
<1>10. EnchantHeld(e) \in PlayerEntry
  <2>1. (e.bag > 0) \in BOOLEAN
    OBVIOUS
  <2>2. \A b \in BOOLEAN : [e EXCEPT !.lore = b] \in PlayerEntry
    BY DEF PlayerEntry
  <2> QED BY <2>1, <2>2 DEF EnchantHeld
<1>11. Spread(e) \in PlayerEntry
  BY <1>2 DEF Spread, Spots
<1>12. \A on \in BOOLEAN : Tagged(e, on) \in PlayerEntry /\ SetOp(e, on) \in PlayerEntry
  BY DEF Tagged, SetOp, PlayerEntry
<1> QED BY <1>1, <1>2, <1>3, <1>4, <1>5, <1>6, <1>7, <1>8, <1>9, <1>10, <1>11, <1>12

LEMMA ChangedIs ==
    ASSUME NEW e \in PlayerEntry, NEW copy, NEW kind, kind \in Copying => copy \in PlayerEntry
    PROVE  Changed(kind, e, copy) \in PlayerEntry
<1>1. CASE kind = "tp"
  <2>1. copy.spot \in Spots
    BY <1>1 DEF Copying, PlayerEntry
  <2> QED BY <1>1, <2>1, ChangesOf DEF Changed
<1>2. CASE kind = "damage"
  <2>1. copy.hp \in 0..Lives
    BY <1>2 DEF Copying, PlayerEntry
  <2>2. (IF copy.hp > 0 THEN copy.hp - 1 ELSE 0) \in 0..Lives
    BY <2>1, CommandsAssumption
  <2> QED BY <1>2, <2>2 DEF Changed, DamageTo, PlayerEntry
<1>3. CASE kind = "ride"
  <2>1. copy.spot \in Spots
    BY <1>3 DEF Copying, PlayerEntry
  <2> QED BY <1>3, <2>1, ChangesOf DEF Changed, Ride
<1>4. CASE kind = "spectate"
  <2>1. copy.spot \in Spots
    BY <1>4 DEF Copying, PlayerEntry
  <2>2. Gamemode(Tp(e, copy.spot), "spectator") \in PlayerEntry
    BY <2>1, ChangesOf
  <2> QED BY <1>4, <2>2 DEF Changed, Spectate
<1>5. CASE kind \notin {"tp", "damage", "ride", "spectate"}
  BY <1>5, ChangesOf DEF Changed
<1> QED BY <1>1, <1>2, <1>3, <1>4, <1>5

(* What becomes of the desk.                                               *)
LEMMA AnswerTyped ==
    ASSUME DeskOK, NEW ok, Answer(ok)
    PROVE  DeskOK' /\ SaidOK'
<1>1. said'.reached = desk.reached
  BY DEF Answer
<1>2. DeskOK'
  BY DEF Answer, DeskOK, Desk0
<1> QED BY <1>1, <1>2 DEF SaidOK, DeskOK

LEMMA DispatchTyped ==
    ASSUME CommandsInv, NEW q \in Callers, NEW kind, NEW sel, NEW as, Dispatch(q, kind, sel, as)
    PROVE  CommandsInv'
<1>1. PICK sources :
         /\ desk' = [Desk0 EXCEPT !.by = q, !.kind = kind, !.sel = sel, !.sources = sources]
         /\ said' = [NoAnswer EXCEPT !.kind = kind, !.ok = FALSE] \/ said' = NoAnswer
  BY DEF Dispatch
<1>2. DeskOK'
  BY <1>1 DEF Desk0, DeskOK
<1>3. SaidOK'
  <2>1. said'.reached = {}
    <3>1. CASE said' = NoAnswer
      BY <3>1 DEF NoAnswer
    <3>2. CASE said' = [NoAnswer EXCEPT !.kind = kind, !.ok = FALSE]
      BY <3>2 DEF NoAnswer
    <3> QED BY <1>1, <3>1, <3>2
  <2> QED BY <2>1 DEF SaidOK
<1>4. TurnsOK'
  BY CommandsAssumption DEF Dispatch, Turn, TurnsOK, CommandsInv
<1> QED BY <1>2, <1>3, <1>4 DEF Dispatch, CommandsInv, FolkOK, ListsOK

LEMMA RunTyped ==
    ASSUME CommandsInv, BeginRun \/ EndRun \/ Unlock
    PROVE  CommandsInv'
<1>1. FolkOK' /\ ListsOK' /\ TurnsOK'
  BY DEF BeginRun, EndRun, Unlock, CommandsInv, FolkOK, ListsOK, TurnsOK
<1>2. CASE BeginRun
  <2>1. PICK rest, src, left :
          \/ /\ said' = [NoAnswer EXCEPT !.kind = desk.kind, !.ok = FALSE]
             /\ desk' = [desk EXCEPT !.sources = rest]
          \/ /\ said' = said /\ desk' = [desk EXCEPT !.sources = rest, !.src = src, !.left = left]
    BY <1>2 DEF BeginRun
  <2>2. DeskOK'
    BY <2>1 DEF DeskOK, CommandsInv
  <2>3. SaidOK'
    BY <2>1 DEF SaidOK, CommandsInv, NoAnswer
  <2> QED BY <1>1, <2>2, <2>3 DEF CommandsInv
<1>3. CASE EndRun
  BY <1>1, <1>3, AnswerTyped DEF EndRun, CommandsInv
<1>4. CASE Unlock
  <2>1. DeskOK'
    BY <1>4 DEF Unlock, Desk0, DeskOK
  <2> QED BY <1>1, <1>4, <2>1 DEF Unlock, CommandsInv, SaidOK
<1> QED BY <1>2, <1>3, <1>4

LEMMA ReadTyped ==
    ASSUME CommandsInv, ReadTarget
    PROVE  CommandsInv'
<1>1. PICK r, rest, named :
        \/ r \in DOMAIN folk /\ desk' = [desk EXCEPT !.copy = <<folk[r]>>]
        \/ desk' = [desk EXCEPT !.left = rest, !.named = named]
  <2>1. CASE \E r : r \in DOMAIN folk /\ desk' = [desk EXCEPT !.copy = <<folk[r]>>]
    BY <2>1
  <2>2. CASE \E t : desk' = [desk EXCEPT !.left = Tail(@), !.named = IF desk.kind \in Unnamed THEN @ ELSE @ \cup {t}]
    BY <2>2
  <2> QED BY <2>1, <2>2 DEF ReadTarget
<1>2. DeskOK'
  BY <1>1 DEF DeskOK, FolkOK, CommandsInv
<1> QED BY <1>2 DEF ReadTarget, CommandsInv, FolkOK, ListsOK, TurnsOK, SaidOK

LEMMA ChangeTyped ==
    ASSUME CommandsInv, ChangeTarget
    PROVE  CommandsInv'
<1>1. PICK t : t = TargetOf
  OBVIOUS
<1>2. ListsOK' /\ TurnsOK'
  BY DEF ChangeTarget, CommandsInv, ListsOK, TurnsOK
<1>3. CASE t \in DOMAIN folk
  <2>1. folk' = [folk EXCEPT ![t] = Changed(desk.kind, folk[t], Head(desk.copy))] /\ said' = said
    BY <1>1, <1>3 DEF ChangeTarget
  <2>2. PICK rest, named, reached : /\ desk' = [desk EXCEPT !.left = rest, !.copy = <<>>, !.named = named, !.reached = reached]
                                    /\ reached = desk.reached \/ reached = desk.reached \cup {t}
    BY <1>1, <1>3 DEF ChangeTarget
  <2>3. desk.kind \in Copying => Head(desk.copy) \in PlayerEntry
    BY DEF ChangeTarget, CommandsInv, DeskOK
  <2>4. Changed(desk.kind, folk[t], Head(desk.copy)) \in PlayerEntry
    BY <1>3, <2>3, ChangedIs DEF CommandsInv, FolkOK
  <2>5. FolkOK'
    BY <1>3, <2>1, <2>4 DEF CommandsInv, FolkOK
  <2>6. DeskOK'
    BY <1>3, <2>2 DEF CommandsInv, DeskOK, FolkOK
  <2> QED BY <1>2, <2>1, <2>5, <2>6 DEF CommandsInv, SaidOK
<1>4. CASE t \notin DOMAIN folk
  <2>1. Missed(t) /\ folk' = folk
    BY <1>1, <1>4 DEF ChangeTarget
  <2>2. DeskOK' /\ SaidOK'
    <3>1. CASE desk.kind \in Stopping
      BY <2>1, <3>1, AnswerTyped DEF Missed, CommandsInv
    <3>2. CASE desk.kind \notin Stopping
      <4>1. PICK rest, named : desk' = [desk EXCEPT !.left = rest, !.copy = <<>>, !.named = named] /\ said' = said
        BY <2>1, <3>2 DEF Missed
      <4> QED BY <4>1 DEF CommandsInv, DeskOK, SaidOK
    <3> QED BY <3>1, <3>2
  <2> QED BY <1>2, <2>1, <2>2 DEF CommandsInv, FolkOK
<1> QED BY <1>3, <1>4

(* Commands of one step.                                                   *)
LEMMA OneStepTyped ==
    ASSUME CommandsInv, NEW q \in Callers,
           \/ \E p \in Subjects : BanIp(q, p) \/ PardonIp(q, p)
           \/ \E action \in {"add", "remove", "on", "off"}, p \in Subjects : Whitelist(q, action, p)
           \/ \E C \in SUBSET Plots : Fill(q, C)
           \/ \E c, d \in Plots : Clone(q, c, d)
           \/ \E kind \in Reports \cup DisplayOnly \cup NoManager : Report(q, kind)
           \/ SaveAll(q)
    PROVE  CommandsInv'
<1>1. FolkOK' /\ TurnsOK'
  <2>1. Turn /\ folk' = folk
    BY DEF BanIp, PardonIp, Whitelist, Fill, Clone, Report, SaveAll
  <2> QED BY <2>1, CommandsAssumption DEF Turn, CommandsInv, FolkOK, TurnsOK
<1>2. ListsOK'
  <2>1. ASSUME UNCHANGED lists PROVE ListsOK'
    BY <2>1 DEF CommandsInv, ListsOK
  <2>2. ASSUME NEW p \in Subjects, BanIp(q, p) PROVE ListsOK'
    BY <2>2 DEF BanIp, CommandsInv, ListsOK
  <2>3. ASSUME NEW p \in Subjects, PardonIp(q, p) PROVE ListsOK'
    BY <2>3 DEF PardonIp, CommandsInv, ListsOK
  <2>4. ASSUME NEW action, NEW p \in Subjects, Whitelist(q, action, p) PROVE ListsOK'
    <3>1. CASE action = "add"
      BY <2>4, <3>1 DEF Whitelist, CommandsInv, ListsOK
    <3>2. CASE action = "remove"
      BY <2>4, <3>2 DEF Whitelist, CommandsInv, ListsOK
    <3>3. CASE action \notin {"add", "remove"}
      <4>1. lists' = [lists EXCEPT !.whiteOn = (action = "on")]
        BY <2>4, <3>3 DEF Whitelist
      <4>2. \A b \in BOOLEAN : [lists EXCEPT !.whiteOn = b] \in [banned : SUBSET Subjects, white : SUBSET Subjects, whiteOn : BOOLEAN]
        BY DEF CommandsInv, ListsOK
      <4>3. (action = "on") \in BOOLEAN
        OBVIOUS
      <4> QED BY <4>1, <4>2, <4>3 DEF ListsOK
    <3> QED BY <3>1, <3>2, <3>3
  <2>5. ASSUME \/ \E C \in SUBSET Plots : Fill(q, C)
               \/ \E c, d \in Plots : Clone(q, c, d)
               \/ \E kind \in Reports \cup DisplayOnly \cup NoManager : Report(q, kind)
               \/ SaveAll(q)
        PROVE  UNCHANGED lists
    BY <2>5 DEF Fill, Clone, Report, SaveAll
  <2> QED BY <2>1, <2>2, <2>3, <2>4, <2>5
<1>3. DeskOK'
  <2>1. desk' = desk \/ desk' = [Desk0 EXCEPT !.by = q, !.kind = "stuck"]
    BY DEF BanIp, PardonIp, Whitelist, Fill, Clone, Report, SaveAll
  <2>2. CASE desk' = desk
    BY <2>2 DEF CommandsInv, DeskOK
  <2>3. CASE desk' = [Desk0 EXCEPT !.by = q, !.kind = "stuck"]
    BY <2>3 DEF Desk0, DeskOK
  <2> QED BY <2>1, <2>2, <2>3
<1>4. SaidOK'
  <2>1. said' = said \/ \E kind, ok : said' = [NoAnswer EXCEPT !.kind = kind, !.ok = ok]
    BY DEF BanIp, PardonIp, Whitelist, Fill, Clone, Report, SaveAll, Says
  <2> QED BY <2>1 DEF NoAnswer, CommandsInv, SaidOK
<1> QED BY <1>1, <1>2, <1>3, <1>4 DEF CommandsInv

LEMMA MeanwhileTyped ==
    ASSUME CommandsInv,
           \/ \E right \in BOOLEAN : Authenticate(right)
           \/ HangUp
           \/ \E p \in Subjects : Depart(p) \/ ComeIn(p) \/ HurtMeanwhile(p)
           \/ UNCHANGED commands_vars
    PROVE  CommandsInv'
<1>1. ListsOK' /\ DeskOK' /\ SaidOK'
  BY DEF Authenticate, HangUp, Depart, ComeIn, HurtMeanwhile, commands_vars, CommandsInv, ListsOK, DeskOK, SaidOK
<1>2. TurnsOK'
  <2>1. Turn \/ UNCHANGED turns
    BY DEF Authenticate, HangUp, Depart, ComeIn, HurtMeanwhile, commands_vars
  <2> QED BY <2>1, CommandsAssumption DEF Turn, CommandsInv, TurnsOK
<1>3. FolkOK'
  <2>1. ASSUME UNCHANGED folk PROVE FolkOK'
    BY <2>1 DEF CommandsInv, FolkOK
  <2>2. ASSUME NEW p \in Subjects, Depart(p) PROVE FolkOK'
    BY <2>2 DEF Depart, CommandsInv, FolkOK
  <2>3. ASSUME NEW p \in Subjects, ComeIn(p) PROVE FolkOK'
    BY <2>3, NewEntry DEF ComeIn, CommandsInv, FolkOK
  <2>4. ASSUME NEW p \in Subjects, HurtMeanwhile(p) PROVE FolkOK'
    <3>1. p \in DOMAIN folk /\ folk[p] \in PlayerEntry /\ folk[p].hp > 0 /\ folk' = [folk EXCEPT ![p] = [folk[p] EXCEPT !.hp = folk[p].hp - 1]]
      BY <2>4 DEF HurtMeanwhile, CommandsInv, FolkOK
    <3>2. folk[p].hp - 1 \in 0..Lives
      BY <3>1, CommandsAssumption DEF PlayerEntry
    <3>3. [folk[p] EXCEPT !.hp = folk[p].hp - 1] \in PlayerEntry
      BY <3>1, <3>2 DEF PlayerEntry
    <3> QED BY <3>1, <3>3 DEF CommandsInv, FolkOK
  <2>5. ASSUME (\E right \in BOOLEAN : Authenticate(right)) \/ HangUp \/ UNCHANGED commands_vars PROVE UNCHANGED folk
    BY <2>5 DEF Authenticate, HangUp, commands_vars
  <2> QED BY <2>1, <2>2, <2>3, <2>4, <2>5
<1> QED BY <1>1, <1>2, <1>3 DEF CommandsInv

(* Type correctness of commands: a player's entry stays one, whichever of  *)
(* the commands writes to it and whatever was copied before, and answers   *)
(* are about players.                                                      *)
THEOREM CommandsTypeCorrect == CommandsSpec => []CommandsTypeOK
<1>1. CommandsInit => CommandsInv
  <2> SUFFICES ASSUME CommandsInit PROVE CommandsInv
    OBVIOUS
  <2>1. FolkOK
    BY NewEntry DEF CommandsInit, FolkOK
  <2>2. DeskOK /\ SaidOK
    BY DEF CommandsInit, DeskOK, SaidOK, Desk0, NoAnswer
  <2>3. ListsOK /\ TurnsOK
    BY CommandsAssumption DEF CommandsInit, ListsOK, TurnsOK
  <2> QED BY <2>1, <2>2, <2>3 DEF CommandsInv
<1>2. CommandsInv /\ [CommandsNext]_commands_vars => CommandsInv'
  <2> SUFFICES ASSUME CommandsInv, [CommandsNext]_commands_vars PROVE CommandsInv'
    OBVIOUS
  <2> QED BY DispatchTyped, RunTyped, ReadTyped, ChangeTyped, OneStepTyped, MeanwhileTyped DEF CommandsNext
<1>3. CommandsInv => CommandsTypeOK
  <2> SUFFICES ASSUME CommandsInv PROVE CommandsTypeOK
    OBVIOUS
  <2>1. \A p \in DOMAIN folk : folk[p].hp \in 0..Lives /\ folk[p].bag \in 0..2 /\ DOMAIN folk[p] = DOMAIN Entry0
    BY NewEntry DEF CommandsInv, FolkOK, PlayerEntry
  <2> QED BY <2>1 DEF CommandsInv, FolkOK, DeskOK, ListsOK, SaidOK, TurnsOK, CommandsTypeOK
<1> QED BY <1>1, <1>2, <1>3, PTL DEF CommandsSpec

-----------------------------------------------------------------------------
(* The parts beside each other                                             *)

LEMMA EachPartGoesItsWay ==
    AllSpec => /\ Spec /\ CombatSpec /\ VitalsSpec /\ ExperienceSpec /\ MobsSpec /\ MindsSpec /\ HusbandrySpec
               /\ CommandsSpec /\ BoardsSpec /\ WorldSpec /\ CraftingSpec
<1>1. AllInit => /\ Init /\ CombatInit /\ VitalsInit /\ ExperienceInit /\ MobsInit /\ MindsInit /\ HusbandryInit
                 /\ CommandsInit /\ BoardsInit /\ WorldInit /\ CraftingInit
  BY DEF AllInit
<1>2. ASSUME [AllNext]_Everything
      PROVE  /\ [Next]_vars /\ [CombatNext]_combat_vars /\ [VitalsNext]_vitals_vars /\ [ExperienceNext]_experience_vars
             /\ [MobsNext]_mobs_vars /\ [MindsNext]_minds_vars /\ [HusbandryNext]_husbandry_vars
             /\ [CommandsNext]_commands_vars /\ [BoardsNext]_boards_vars /\ [WorldNext]_world_vars
             /\ [CraftingNext]_crafting_vars
  BY <1>2 DEF AllNext, Everything, ItemsMoves, CombatMoves, VitalsMoves, ExperienceMoves, MobsMoves, MindsMoves,
              HusbandryMoves, CommandsMoves, BoardsMoves, WorldMoves, CraftingMoves
<1> QED BY <1>1, <1>2, PTL DEF AllSpec, Spec, CombatSpec, VitalsSpec, ExperienceSpec, MobsSpec, MindsSpec,
           HusbandrySpec, CommandsSpec, BoardsSpec, WorldSpec, CraftingSpec

(* What players, mobs and things do keeps its type in every behaviour of   *)
(* the eleven parts beside each other.                                     *)
THEOREM GameplayTypeCorrect == AllSpec => []GameplayTypeOK
<1>1. AllInit => part \in Parts
  BY DEF AllInit
<1>2. part \in Parts /\ [AllNext]_Everything => (part \in Parts)'
  BY DEF AllNext, Everything, ItemsMoves, CombatMoves, VitalsMoves, ExperienceMoves, MobsMoves, MindsMoves,
         HusbandryMoves, CommandsMoves, BoardsMoves, WorldMoves, CraftingMoves
<1>3. part \in Parts /\ TypeOK /\ CombatTypeOK /\ VitalsTypeOK /\ ExperienceTypeOK /\ MobsTypeOK /\ MindsTypeOK
         /\ HusbandryTypeOK /\ CommandsTypeOK /\ BoardsTypeOK /\ WorldTypeOK /\ CraftingTypeOK => GameplayTypeOK
  <2> SUFFICES ASSUME part \in Parts, TypeOK, CombatTypeOK, VitalsTypeOK, ExperienceTypeOK, MobsTypeOK, MindsTypeOK,
                      HusbandryTypeOK, CommandsTypeOK, BoardsTypeOK, WorldTypeOK, CraftingTypeOK
               PROVE  GameplayTypeOK
    OBVIOUS
  <2>1. CASE part = "items"
    BY <2>1 DEF GameplayTypeOK
  <2>2. CASE part = "combat"
    BY <2>2 DEF GameplayTypeOK
  <2>3. CASE part = "vitals"
    BY <2>3 DEF GameplayTypeOK
  <2>4. CASE part = "experience"
    BY <2>4 DEF GameplayTypeOK
  <2>5. CASE part = "mobs"
    BY <2>5 DEF GameplayTypeOK
  <2>6. CASE part = "minds"
    BY <2>6 DEF GameplayTypeOK
  <2>7. CASE part = "husbandry"
    BY <2>7 DEF GameplayTypeOK
  <2>8. CASE part = "commands"
    BY <2>8 DEF GameplayTypeOK
  <2>9. CASE part = "boards"
    BY <2>9 DEF GameplayTypeOK
  <2>10. CASE part = "world"
    BY <2>10 DEF GameplayTypeOK
  <2>11. CASE part = "crafting"
    BY <2>11 DEF GameplayTypeOK
  <2> QED BY <2>1, <2>2, <2>3, <2>4, <2>5, <2>6, <2>7, <2>8, <2>9, <2>10, <2>11 DEF Parts
<1>4. AllSpec => [](part \in Parts)
  BY <1>1, <1>2, PTL DEF AllSpec
<1> QED BY <1>3, <1>4, EachPartGoesItsWay, StacksStayStacks, CombatTypeCorrect, VitalsTypeCorrect, ExperienceTypeCorrect,
           MobsTypeCorrect, MindsTypeCorrect, HusbandryTypeCorrect, CommandsTypeCorrect, BoardsTypeCorrect,
           WorldTypeCorrect, CraftingTypeCorrect, PTL

(* Wherever the parts are, a recipe is found in a grid exactly where it is *)
(* laid (find_match, find_match_3x3).                                      *)
THEOREM LaidRecipesAreCrafted == AllSpec => []LaidIsCrafted
<1>1. CraftsWhatIsLaid => LaidIsCrafted
  BY DEF LaidIsCrafted
<1> QED BY <1>1, EachPartGoesItsWay, RecipesAreLaid, PTL

=============================================================================
