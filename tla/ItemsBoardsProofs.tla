--------------------------- MODULE ItemsBoardsProofs ---------------------------
(***************************************************************************)
(* Proofs about windows and items, for every set of players, containers    *)
(* and hoppers, and containers of every size: sums of counts, and what     *)
(* each step does to the number of items there are; and about scoreboard   *)
(* and boss bars: what a client shows is its events folded over a screen.  *)
(* Both rest on the folds of Descent.                                      *)
(***************************************************************************)
EXTENDS Items, Boards, Descent, FiniteSetTheorems, TLAPS

-----------------------------------------------------------------------------
(* Sums                                                                    *)

(* A finite table of counts.                                               *)
Counts(f) == IsFiniteSet(DOMAIN f) /\ f \in [DOMAIN f -> Nat]

Chosen(s) == CHOOSE x \in s : TRUE
Choice(S) == [s \in (SUBSET S) \ {{}} |-> Chosen(s)]
Adds(f) == [x \in DOMAIN f |-> [v \in Nat |-> f[x] + v]]
SumEquation(it, f) ==
    it = [s \in SUBSET (DOMAIN f) |->
            IF s = {} THEN 0 ELSE f[CHOOSE x \in s : TRUE] + it[s \ {CHOOSE x \in s : TRUE}]]

LEMMA TotalIsFold ==
    ASSUME NEW f
    PROVE  Total(f) = (CHOOSE it : SumEquation(it, f))[DOMAIN f]
  BY DEF Total, FoldFunction, FoldFunctionOnSet, MapThenFoldSet, SumEquation

LEMMA ChoiceChooses ==
    ASSUME NEW S
    PROVE  IsChoice(Choice(S), S)
  BY DEF IsChoice, Choice, Chosen

(* The sums over all parts of a table.                                     *)
LEMMA SumsExist ==
    ASSUME NEW f, Counts(f)
    PROVE  \E it \in [SUBSET (DOMAIN f) -> Nat] :
              /\ SumEquation(it, f) /\ Total(f) = it[DOMAIN f]
  <1>0. PICK D : D = DOMAIN f
    OBVIOUS
  <1>1. PICK ch : ch = Choice(D)
    OBVIOUS
  <1>2. IsChoice(ch, D) /\ \A s \in (SUBSET D) \ {{}} : ch[s] = Chosen(s) /\ Chosen(s) \in s
    BY <1>1, ChoiceChooses DEF Choice, Chosen
  <1>3. PICK F : F \in [D -> [Nat -> Nat]] /\ \A x \in D : \A v \in Nat : F[x][v] = f[x] + v
    <2>1. Adds(f) \in [D -> [Nat -> Nat]] /\ \A x \in D : \A v \in Nat : Adds(f)[x][v] = f[x] + v
      BY <1>0 DEF Adds, Counts
    <2> QED
      BY <2>1
  <1>4. IsFiniteSet(D) /\ 0 \in Nat
    BY <1>0 DEF Counts
  <1>5. PICK it \in [SUBSET D -> Nat] : Folds(it, F, ch, 0, SUBSET D)
    BY <1>2, <1>3, <1>4, FoldExists
  <1>6. \A s \in (SUBSET D) \ {{}} : it[s] = f[Chosen(s)] + it[s \ {Chosen(s)}]
    <2> SUFFICES ASSUME NEW s \in SUBSET D, s # {} PROVE it[s] = f[Chosen(s)] + it[s \ {Chosen(s)}]
      OBVIOUS
    <2>1. ch[s] = Chosen(s) /\ Chosen(s) \in D /\ s \ {Chosen(s)} \in SUBSET D
      BY <1>2
    <2>2. it[s] = F[ch[s]][it[s \ {ch[s]}]]
      BY <1>5 DEF Folds, FoldStep
    <2>3. it[s \ {Chosen(s)}] \in Nat
      BY <1>5, <2>1
    <2> QED
      BY <1>3, <2>1, <2>2, <2>3
  <1>7. SumEquation(it, f)
    <2>1. it[{}] = 0
      BY <1>5 DEF Folds, FoldStep
    <2> QED
      BY <1>0, <1>5, <1>6, <2>1 DEF SumEquation, Chosen
  <1>8. PICK other : SumEquation(other, f) /\ Total(f) = other[D]
    BY <1>0, <1>7, TotalIsFold
  <1>9. /\ other[{}] = 0 /\ DOMAIN other = SUBSET D
        /\ \A s \in (SUBSET D) \ {{}} : other[s] = f[Chosen(s)] + other[s \ {Chosen(s)}]
    BY <1>0, <1>8 DEF SumEquation, Chosen
  <1>10. \A s \in (SUBSET D) \ {{}} : other[s \ {ch[s]}] \in Nat => other[s] = F[ch[s]][other[s \ {ch[s]}]]
    <2> SUFFICES ASSUME NEW s \in SUBSET D, s # {}, other[s \ {Chosen(s)}] \in Nat
                 PROVE  other[s] = F[Chosen(s)][other[s \ {Chosen(s)}]]
      BY <1>2
    <2>1. Chosen(s) \in D
      BY <1>2
    <2> QED
      BY <1>3, <1>9, <2>1
  <1>11. \A s \in SUBSET D : other[s] = it[s]
    <2>1. KeepsFold(other, F, ch, 0, D, Nat)
      BY <1>9, <1>10 DEF KeepsFold
    <2> QED
      BY <1>2, <1>3, <1>4, <1>5, <2>1, FoldUnique
  <1>12. Total(f) = it[D]
    BY <1>8, <1>11
  <1> QED
    BY <1>0, <1>5, <1>7, <1>12

LEMMA TotalType ==
    ASSUME NEW f, Counts(f)
    PROVE  Total(f) \in Nat
  <1>1. PICK it \in [SUBSET (DOMAIN f) -> Nat] : Total(f) = it[DOMAIN f]
    BY SumsExist
  <1>2. DOMAIN f \in SUBSET (DOMAIN f)
    OBVIOUS
  <1> QED
    BY <1>1, <1>2

(* Sums over the same entries agree.                                       *)
LEMMA SumsAgree ==
    ASSUME NEW f, NEW g, Counts(f), NEW it, NEW other, SumEquation(it, f), SumEquation(other, g),
           NEW S \in SUBSET (DOMAIN f \cap DOMAIN g), \A x \in S : f[x] = g[x]
    PROVE  it[S] = other[S]
  <1> DEFINE Bad == {n \in Nat : \E s \in SUBSET S : Cardinality(s) = n /\ it[s] # other[s]}
  <1>0. IsFiniteSet(S)
    BY FS_Subset DEF Counts
  <1>1. ASSUME NEW n \in Bad PROVE \E m \in Bad : m < n
    <2>1. PICK s \in SUBSET S : Cardinality(s) = n /\ it[s] # other[s]
      OBVIOUS
    <2>2. s \in SUBSET (DOMAIN f) /\ s \in SUBSET (DOMAIN g)
      OBVIOUS
    <2>3. s # {}
      BY <2>1, <2>2 DEF SumEquation
    <2>4. PICK x : x = (CHOOSE y \in s : TRUE)
      OBVIOUS
    <2>5. x \in s
      BY <2>3, <2>4
    <2>6. it[s] = f[x] + it[s \ {x}] /\ other[s] = g[x] + other[s \ {x}]
      BY <2>2, <2>3, <2>4 DEF SumEquation
    <2>7. s \ {x} \in SUBSET S /\ Cardinality(s \ {x}) = n - 1 /\ n \in Nat \ {0}
      BY <1>0, <2>1, <2>5, Smaller
    <2>8. it[s \ {x}] # other[s \ {x}]
      BY <2>1, <2>5, <2>6
    <2> QED
      BY <2>7, <2>8
  <1>2. Bad = {}
    BY <1>1, NoneBad
  <1>3. Cardinality(S) \in Nat
    BY <1>0, FS_CardinalityType
  <1> QED
    BY <1>2, <1>3

LEMMA WithoutIs ==
    ASSUME NEW f, Counts(f), NEW x \in DOMAIN f
    PROVE  /\ DOMAIN Without(f, x) = DOMAIN f \ {x} /\ Counts(Without(f, x))
           /\ \A y \in DOMAIN f \ {x} : Without(f, x)[y] = f[y]
           /\ Cardinality(DOMAIN f) \in Nat \ {0}
           /\ Cardinality(DOMAIN Without(f, x)) = Cardinality(DOMAIN f) - 1
           /\ f[x] \in Nat
  <1>1. DOMAIN Without(f, x) = DOMAIN f \ {x} /\ \A y \in DOMAIN f \ {x} : Without(f, x)[y] = f[y]
    BY DEF Without
  <1>2. IsFiniteSet(DOMAIN f \ {x}) /\ IsFiniteSet(DOMAIN f)
    BY FS_Subset DEF Counts
  <1>3. Counts(Without(f, x))
    BY <1>1, <1>2 DEF Counts, Without
  <1>4. DOMAIN f \in SUBSET (DOMAIN f)
    OBVIOUS
  <1> QED
    BY <1>1, <1>2, <1>3, <1>4, Smaller DEF Counts

LEMMA TotalChosen ==
    ASSUME NEW f, Counts(f), NEW x \in DOMAIN f, x = Chosen(DOMAIN f)
    PROVE  Total(f) = f[x] + Total(Without(f, x))
  <1>1. PICK D, g : D = DOMAIN f /\ g = Without(f, x)
    OBVIOUS
  <1>2. Counts(g) /\ DOMAIN g = D \ {x} /\ \A y \in D \ {x} : g[y] = f[y]
    BY <1>1, WithoutIs
  <1>3. PICK it \in [SUBSET D -> Nat] : SumEquation(it, f) /\ Total(f) = it[D]
    BY <1>1, SumsExist
  <1>4. PICK other \in [SUBSET (D \ {x}) -> Nat] : SumEquation(other, g) /\ Total(g) = other[D \ {x}]
    BY <1>2, SumsExist
  <1>5. it[D \ {x}] = other[D \ {x}]
    <2>1. D \ {x} \in SUBSET (DOMAIN f \cap DOMAIN g)
      BY <1>1, <1>2
    <2> QED
      BY <1>2, <1>3, <1>4, <2>1, SumsAgree
  <1>6. it[D] = f[x] + it[D \ {x}]
    BY <1>1, <1>3 DEF SumEquation, Chosen
  <1> QED
    BY <1>1, <1>3, <1>4, <1>5, <1>6

(* A sum is one entry and the rest, whichever entry.                       *)
LEMMA TotalRest ==
    ASSUME NEW f, Counts(f), NEW x \in DOMAIN f
    PROVE  Total(f) = f[x] + Total(Without(f, x))
  <1> DEFINE Off(g, y) == Total(g) # g[y] + Total(Without(g, y))
             Bad == {n \in Nat : \E g : /\ Counts(g) /\ Cardinality(DOMAIN g) = n
                                       /\ \E y \in DOMAIN g : Off(g, y)}
  <1>1. ASSUME NEW n \in Bad PROVE \E m \in Bad : m < n
    <2>1. PICK g, y : Counts(g) /\ Cardinality(DOMAIN g) = n /\ y \in DOMAIN g /\ Off(g, y)
      OBVIOUS
    <2>2. PICK c : c = Chosen(DOMAIN g)
      OBVIOUS
    <2>3. c \in DOMAIN g
      BY <2>1, <2>2 DEF Chosen
    <2>4. Total(g) = g[c] + Total(Without(g, c))
      BY <2>1, <2>2, <2>3, TotalChosen
    <2>5. c # y
      BY <2>1, <2>4
    <2>6. PICK gc, gy : gc = Without(g, c) /\ gy = Without(g, y)
      OBVIOUS
    <2>7. /\ Counts(gc) /\ DOMAIN gc = DOMAIN g \ {c} /\ gc[y] = g[y] /\ Cardinality(DOMAIN gc) = n - 1
          /\ Counts(gy) /\ DOMAIN gy = DOMAIN g \ {y} /\ gy[c] = g[c] /\ Cardinality(DOMAIN gy) = n - 1
          /\ n \in Nat \ {0} /\ g[c] \in Nat /\ g[y] \in Nat
          /\ \A z \in DOMAIN g \ {c} : gc[z] = g[z]
          /\ \A z \in DOMAIN g \ {y} : gy[z] = g[z]
      BY <2>1, <2>3, <2>5, <2>6, WithoutIs
    <2>8. y \in DOMAIN gc /\ c \in DOMAIN gy
      BY <2>1, <2>3, <2>5, <2>7
    <2>9. Without(gc, y) = Without(gy, c)
      BY <2>7 DEF Without
    <2>10. Total(Without(gc, y)) \in Nat /\ Total(gc) \in Nat /\ Total(gy) \in Nat
      BY <2>7, <2>8, WithoutIs, TotalType
    <2>11. Off(gc, y) \/ Off(gy, c)
      <3> SUFFICES ASSUME ~Off(gc, y), ~Off(gy, c) PROVE FALSE
        OBVIOUS
      <3>1. Total(gc) = g[y] + Total(Without(gc, y)) /\ Total(gy) = g[c] + Total(Without(gc, y))
        BY <2>7, <2>9
      <3>2. Total(g) = g[y] + Total(gy)
        BY <2>4, <2>6, <2>7, <2>10, <3>1
      <3> QED
        BY <2>1, <2>6, <3>2
    <2> HIDE DEF Off
    <2> QED
      BY <2>7, <2>8, <2>11
  <1>2. Bad = {}
    <2> HIDE DEF Off
    <2>1. Bad \in SUBSET Nat
      OBVIOUS
    <2> HIDE DEF Bad
    <2> QED
      BY <1>1, <2>1, NoneBad
  <1>3. Cardinality(DOMAIN f) \in Nat
    BY WithoutIs
  <1> QED
    BY <1>2, <1>3

LEMMA TotalNone ==
    ASSUME NEW f, DOMAIN f = {}
    PROVE  Total(f) = 0
  <1>1. \A it : SumEquation(it, f) => it[{}] = 0
    BY DEF SumEquation
  <1>2. SumEquation([s \in {{}} |-> 0], f)
    BY DEF SumEquation
  <1> QED
    BY <1>1, <1>2, TotalIsFold

(* One entry changes.                                                      *)
LEMMA TotalChange ==
    ASSUME NEW f, NEW g, Counts(f), Counts(g), DOMAIN f = DOMAIN g, NEW x \in DOMAIN f,
           \A y \in DOMAIN f \ {x} : f[y] = g[y]
    PROVE  Total(g) = Total(f) - f[x] + g[x]
  <1>1. Without(f, x) = Without(g, x)
    BY DEF Without
  <1>2. /\ Total(f) = f[x] + Total(Without(f, x)) /\ Total(g) = g[x] + Total(Without(f, x))
        /\ f[x] \in Nat /\ g[x] \in Nat /\ Total(Without(f, x)) \in Nat
    BY <1>1, TotalRest, TotalType, WithoutIs
  <1> QED
    BY <1>2

(* One entry more.                                                         *)
LEMMA TotalMore ==
    ASSUME NEW f, NEW g, Counts(f), Counts(g), NEW x, x \notin DOMAIN f, DOMAIN g = DOMAIN f \cup {x},
           \A y \in DOMAIN f : f[y] = g[y]
    PROVE  Total(g) = Total(f) + g[x]
  <1>1. f = Without(g, x)
    BY DEF Without, Counts
  <1>2. Total(g) = g[x] + Total(f) /\ g[x] \in Nat /\ Total(f) \in Nat
    BY <1>1, TotalRest, TotalType, WithoutIs
  <1> QED
    BY <1>2

(* Two tables added.                                                       *)
LEMMA TotalAdd ==
    ASSUME NEW f, NEW g, NEW h, Counts(f), Counts(g), Counts(h), DOMAIN g = DOMAIN f, DOMAIN h = DOMAIN f,
           \A x \in DOMAIN f : h[x] = f[x] + g[x]
    PROVE  Total(h) = Total(f) + Total(g)
  <1> DEFINE Added3(a, b, c) ==
                 /\ Counts(a) /\ Counts(b) /\ Counts(c) /\ DOMAIN b = DOMAIN a /\ DOMAIN c = DOMAIN a
                 /\ \A x \in DOMAIN a : c[x] = a[x] + b[x]
             Bad == {n \in Nat : \E a, b, c : /\ Added3(a, b, c) /\ Cardinality(DOMAIN a) = n
                                             /\ Total(c) # Total(a) + Total(b)}
  <1>1. ASSUME NEW n \in Bad PROVE \E m \in Bad : m < n
    <2>1. PICK a, b, c : Added3(a, b, c) /\ Cardinality(DOMAIN a) = n /\ Total(c) # Total(a) + Total(b)
      OBVIOUS
    <2>2. DOMAIN a # {}
      <3> SUFFICES ASSUME DOMAIN a = {} PROVE FALSE
        OBVIOUS
      <3>1. DOMAIN b = {} /\ DOMAIN c = {}
        BY <2>1
      <3>2. Total(a) = 0
        BY TotalNone
      <3>3. Total(b) = 0
        BY <3>1, TotalNone
      <3>4. Total(c) = 0
        BY <3>1, TotalNone
      <3> QED
        BY <2>1, <3>2, <3>3, <3>4
    <2>3. PICK x \in DOMAIN a : TRUE
      BY <2>2
    <2>4. PICK ar, br, cr : ar = Without(a, x) /\ br = Without(b, x) /\ cr = Without(c, x)
      OBVIOUS
    <2>5. /\ Total(a) = a[x] + Total(ar) /\ Total(b) = b[x] + Total(br) /\ Total(c) = c[x] + Total(cr)
          /\ a[x] \in Nat /\ b[x] \in Nat /\ c[x] = a[x] + b[x]
      BY <2>1, <2>4, TotalRest, WithoutIs, ZenonT(60)
    <2>6. /\ Added3(ar, br, cr) /\ Cardinality(DOMAIN ar) = n - 1 /\ n \in Nat \ {0}
      <3>1. /\ Counts(ar) /\ DOMAIN ar = DOMAIN a \ {x} /\ \A y \in DOMAIN a \ {x} : ar[y] = a[y]
            /\ Cardinality(DOMAIN ar) = n - 1 /\ n \in Nat \ {0}
        BY <2>1, <2>4, WithoutIs, ZenonT(60)
      <3>2. Counts(br) /\ DOMAIN br = DOMAIN a \ {x} /\ \A y \in DOMAIN a \ {x} : br[y] = b[y]
        <4>1. Counts(b) /\ DOMAIN b = DOMAIN a /\ x \in DOMAIN b
          BY <2>1
        <4>2. Counts(br) /\ DOMAIN br = DOMAIN b \ {x} /\ \A y \in DOMAIN b \ {x} : br[y] = b[y]
          BY <2>4, <4>1, WithoutIs
        <4> QED
          BY <4>1, <4>2
      <3>3. Counts(cr) /\ DOMAIN cr = DOMAIN a \ {x} /\ \A y \in DOMAIN a \ {x} : cr[y] = c[y]
        <4>1. Counts(c) /\ DOMAIN c = DOMAIN a /\ x \in DOMAIN c
          BY <2>1
        <4>2. Counts(cr) /\ DOMAIN cr = DOMAIN c \ {x} /\ \A y \in DOMAIN c \ {x} : cr[y] = c[y]
          BY <2>4, <4>1, WithoutIs
        <4> QED
          BY <4>1, <4>2
      <3> QED
        BY <2>1, <3>1, <3>2, <3>3
    <2>7. Total(ar) \in Nat /\ Total(br) \in Nat /\ Total(cr) \in Nat
      BY <2>6, TotalType
    <2>8. Total(cr) # Total(ar) + Total(br)
      BY <2>1, <2>5, <2>7
    <2> HIDE DEF Added3
    <2> QED
      BY <2>6, <2>8
  <1>2. Bad = {}
    <2> HIDE DEF Added3
    <2>1. Bad \in SUBSET Nat
      OBVIOUS
    <2> HIDE DEF Bad
    <2> QED
      BY <1>1, <2>1, NoneBad
  <1>3. Cardinality(DOMAIN f) \in Nat
    BY FS_CardinalityType DEF Counts
  <1> QED
    BY <1>2, <1>3

-----------------------------------------------------------------------------
(* Windows and what they hold                                              *)

IsWindow(v) ==
    /\ v \in [owner : Players, place : Places, slots : AnyContents]
    /\ v.slots \in Contents(v.place)

LEMMA ContentsCount ==
    ASSUME ItemsAssumption, NEW q \in Places, NEW s \in Contents(q)
    PROVE  /\ Counts(s) /\ DOMAIN s = 1..Size[q] /\ Size[q] \in Nat \ {0} /\ s \in AnyContents
           /\ \A x \in DOMAIN s : s[x] \in 0..MaxStack
  <1>1. Size[q] \in Nat \ {0} /\ MaxStack \in Nat
    BY DEF ItemsAssumption
  <1>2. s \in [1..Size[q] -> 0..MaxStack] /\ DOMAIN s = 1..Size[q]
    BY DEF Contents, Stack
  <1>3. IsFiniteSet(1..Size[q])
    <2>1. \A n \in Nat : IsFiniteSet(1..n)
      BY FS_Interval
    <2> QED
      BY <1>1, <2>1
  <1>4. Counts(s)
    BY <1>1, <1>2, <1>3 DEF Counts
  <1>5. s \in AnyContents
    BY DEF AnyContents
  <1> QED
    BY <1>1, <1>2, <1>4, <1>5

LEMMA WindowIs ==
    ASSUME ItemsAssumption, NEW p \in Players, NEW q \in Places, NEW s \in Contents(q)
    PROVE  IsWindow([owner |-> p, place |-> q, slots |-> s])
  <1>1. s \in AnyContents
    BY DEF AnyContents
  <1> QED
    BY <1>1 DEF IsWindow

LEMMA WindowWith ==
    ASSUME ItemsAssumption, NEW v, IsWindow(v), NEW s \in Contents(v.place)
    PROVE  /\ IsWindow([v EXCEPT !.slots = s]) /\ [v EXCEPT !.slots = s].slots = s
           /\ [v EXCEPT !.slots = s].place = v.place /\ [v EXCEPT !.slots = s].owner = v.owner
  <1>1. s \in AnyContents
    BY DEF AnyContents, IsWindow
  <1> QED
    BY <1>1 DEF IsWindow

Shelves(c) == \A w \in DOMAIN c : w \in 1..LastWindow /\ IsWindow(c[w])

\* The sums of all windows, and of what is kept for places without one.
SumsOf(c) == [w \in DOMAIN c |-> Total(c[w].slots)]
Unopened(c) == {q \in Places : \A w \in DOMAIN c : c[w].place # q}
KeptOf(c, st) == [q \in Unopened(c) |-> Total(st[q])]
Stocked(st) == \A q \in Places : st[q] \in Contents(q)

LEMMA SumsCount ==
    ASSUME ItemsAssumption, NEW c, Shelves(c), NEW st, Stocked(st)
    PROVE  /\ Counts(SumsOf(c)) /\ Counts(KeptOf(c, st))
           /\ \A w \in DOMAIN c : Counts(c[w].slots) /\ c[w].place \in Places /\ Total(c[w].slots) \in Nat
           /\ \A q \in Places : Counts(st[q]) /\ Total(st[q]) \in Nat
  <1>1. \A w \in DOMAIN c : c[w].place \in Places /\ Counts(c[w].slots)
    BY ContentsCount DEF Shelves, IsWindow
  <1>2. \A q \in Places : Counts(st[q])
    BY ContentsCount DEF Stocked
  <1>3. \A w \in DOMAIN c : Total(c[w].slots) \in Nat
    BY <1>1, TotalType
  <1>4. \A q \in Places : Total(st[q]) \in Nat
    BY <1>2, TotalType
  <1>5. IsFiniteSet(DOMAIN c)
    <2>1. LastWindow \in Nat /\ IsFiniteSet(1..LastWindow)
      BY FS_Interval DEF ItemsAssumption
    <2> QED
      BY <2>1, FS_Subset DEF Shelves
  <1>6. IsFiniteSet(Unopened(c))
    <2>1. IsFiniteSet(Places) /\ Unopened(c) \in SUBSET Places
      BY DEF ItemsAssumption, Unopened
    <2> QED
      BY <2>1, FS_Subset
  <1>7. Counts(SumsOf(c))
    BY <1>3, <1>5 DEF Counts, SumsOf
  <1>8. Counts(KeptOf(c, st))
    <2>1. \A q \in Unopened(c) : Total(st[q]) \in Nat
      BY <1>4 DEF Unopened
    <2> QED
      BY <1>6, <2>1 DEF Counts, KeptOf
  <1> QED
    BY <1>1, <1>2, <1>3, <1>4, <1>7, <1>8

InAll(c, st) == Total(SumsOf(c)) + Total(KeptOf(c, st))

(* Which places have a window depends on the places of the windows only.   *)
LEMMA SameUnopened ==
    ASSUME NEW c, NEW d, DOMAIN c = DOMAIN d, \A w \in DOMAIN c : c[w].place = d[w].place
    PROVE  Unopened(c) = Unopened(d)
  BY DEF Unopened

(* One window holds something else.                                        *)
LEMMA OneShelfChanges ==
    ASSUME ItemsAssumption, NEW c, NEW d, NEW st, Shelves(c), Shelves(d), Stocked(st),
           DOMAIN c = DOMAIN d, NEW w \in DOMAIN c, c[w].place = d[w].place,
           \A v \in DOMAIN c \ {w} : c[v] = d[v]
    PROVE  InAll(d, st) = InAll(c, st) - Total(c[w].slots) + Total(d[w].slots)
  <1>1. KeptOf(c, st) = KeptOf(d, st)
    BY SameUnopened DEF KeptOf
  <1>2. PICK f, g : f = SumsOf(c) /\ g = SumsOf(d)
    OBVIOUS
  <1>3. /\ Counts(f) /\ Counts(g) /\ DOMAIN f = DOMAIN g /\ w \in DOMAIN f
        /\ \A v \in DOMAIN f \ {w} : f[v] = g[v]
    BY <1>2, SumsCount DEF SumsOf
  <1>4. Total(g) = Total(f) - f[w] + g[w]
    BY <1>3, TotalChange
  <1>5. f[w] = Total(c[w].slots) /\ g[w] = Total(d[w].slots) /\ f[w] \in Nat /\ g[w] \in Nat
    BY <1>2, SumsCount DEF SumsOf
  <1>6. Total(f) \in Nat /\ Total(KeptOf(c, st)) \in Nat
    BY <1>3, SumsCount, TotalType
  <1> QED
    BY <1>1, <1>2, <1>4, <1>5, <1>6 DEF InAll

(* A window is opened where there is none, under a number nobody has.      *)
LEMMA ShelfOpens ==
    ASSUME ItemsAssumption, NEW c, NEW d, NEW st, Shelves(c), Shelves(d), Stocked(st),
           NEW w, w \notin DOMAIN c, DOMAIN d = DOMAIN c \cup {w}, d[w].place \in Unopened(c),
           d[w].slots = st[d[w].place], \A v \in DOMAIN c : c[v] = d[v]
    PROVE  InAll(d, st) = InAll(c, st)
  <1>1. PICK f, g, k, l, q : f = SumsOf(c) /\ g = SumsOf(d) /\ k = KeptOf(c, st) /\ l = KeptOf(d, st) /\ q = d[w].place
    OBVIOUS
  <1>2. /\ Counts(f) /\ Counts(g) /\ Counts(k) /\ Counts(l)
        /\ DOMAIN f = DOMAIN c /\ DOMAIN g = DOMAIN d /\ \A v \in DOMAIN f : f[v] = g[v]
    BY <1>1, SumsCount DEF SumsOf
  <1>3. Total(g) = Total(f) + g[w]
    BY <1>2, TotalMore
  <1>4. q \notin DOMAIN l /\ DOMAIN k = DOMAIN l \cup {q} /\ \A r \in DOMAIN l : l[r] = k[r]
    BY <1>1 DEF KeptOf, Unopened
  <1>5. Total(k) = Total(l) + k[q]
    BY <1>2, <1>4, TotalMore
  <1>6. k[q] = Total(st[q]) /\ g[w] = Total(st[q]) /\ q \in Places
    BY <1>1 DEF KeptOf, SumsOf, Unopened
  <1>7. Total(f) \in Nat /\ Total(l) \in Nat /\ Total(st[q]) \in Nat
    BY <1>2, <1>6, SumsCount, TotalType
  <1> QED
    BY <1>1, <1>3, <1>5, <1>6, <1>7 DEF InAll

(* A window is closed and what it held is kept: the last one of its place  *)
(* takes nothing away, another one what it held.                           *)
LEMMA ShelfCloses ==
    ASSUME ItemsAssumption, NEW c, NEW d, NEW st, NEW su, Shelves(c), Shelves(d), Stocked(st), Stocked(su),
           NEW w \in DOMAIN c, DOMAIN d = DOMAIN c \ {w}, \A v \in DOMAIN d : c[v] = d[v],
           su[c[w].place] = c[w].slots, \A q \in Places \ {c[w].place} : su[q] = st[q]
    PROVE  InAll(d, su) <= InAll(c, st)
  <1>1. PICK f, g, k, l, q : f = SumsOf(c) /\ g = SumsOf(d) /\ k = KeptOf(c, st) /\ l = KeptOf(d, su) /\ q = c[w].place
    OBVIOUS
  <1>2. /\ Counts(f) /\ Counts(g) /\ Counts(k) /\ Counts(l)
        /\ DOMAIN f = DOMAIN c /\ DOMAIN g = DOMAIN d /\ \A v \in DOMAIN g : f[v] = g[v]
    BY <1>1, SumsCount DEF SumsOf
  <1>3. w \notin DOMAIN g /\ DOMAIN f = DOMAIN g \cup {w}
    BY <1>2
  <1>4. Total(f) = Total(g) + f[w]
    <2>1. \A v \in DOMAIN g : g[v] = f[v]
      BY <1>2
    <2> QED
      BY <1>2, <1>3, <2>1, TotalMore
  <1>5. f[w] = Total(c[w].slots) /\ f[w] \in Nat /\ q \in Places
    BY <1>1, SumsCount DEF SumsOf
  <1>6. Total(f) \in Nat /\ Total(g) \in Nat /\ Total(k) \in Nat /\ Total(l) \in Nat
    BY <1>2, TotalType
  <1>7. DOMAIN k = Unopened(c) /\ DOMAIN l = Unopened(d)
    BY <1>1 DEF KeptOf
  <1>8. Total(l) <= Total(k) + f[w]
    <2>1. CASE q \in Unopened(d)
      <3>1. Unopened(d) = Unopened(c) \cup {q} /\ q \notin Unopened(c)
        BY <1>1, <1>5, <2>1 DEF Unopened
      <3>2. \A r \in DOMAIN k : k[r] = l[r]
        BY <1>1, <1>7, <3>1 DEF KeptOf, Unopened
      <3>3. Total(l) = Total(k) + l[q]
        BY <1>2, <1>7, <3>1, <3>2, TotalMore
      <3>4. l[q] = Total(c[w].slots)
        BY <1>1, <2>1 DEF KeptOf
      <3> QED
        BY <1>5, <1>6, <3>3, <3>4
    <2>2. CASE q \notin Unopened(d)
      <3>1. Unopened(d) = Unopened(c)
        BY <1>1, <1>5, <2>2 DEF Unopened
      <3>2. \A r \in Unopened(d) : su[r] = st[r]
        BY <1>1, <2>2 DEF Unopened
      <3>3. k = l
        BY <1>1, <3>1, <3>2 DEF KeptOf
      <3> QED
        BY <1>5, <1>6, <3>3
    <2> QED
      BY <2>1, <2>2
  <1>9. Total(g) + Total(l) <= Total(f) + Total(k)
    BY <1>4, <1>5, <1>6, <1>8
  <1> QED
    BY <1>1, <1>9 DEF InAll

-----------------------------------------------------------------------------
(* The inductive invariant: the types, and what a click that was read and   *)
(* not yet written promises about what it read.  A click that puts an item  *)
(* down read a slot with room, and the cursor it will take from is its own  *)
(* task's, which does nothing else meanwhile; a click that takes read       *)
(* something to take.                                                      *)

IsClick(e, c) ==
    /\ e.mode \in Modes /\ e.slot \in WindowSlots
    /\ e.slots \in AnyContents \cup [{} -> Stack]
    /\ e.mode \in {"shift", "dropOne", "dropStack"} => Count(e.slots, e.slot) > 0
    /\ e.mode = "right" /\ c > 0 => Count(e.slots, e.slot) < MaxStack
    /\ e.mode = "spread" => Count(e.slots, e.slot) = 0

WindowsOK ==
    /\ Shelves(containers) /\ Stocked(stored) /\ DOMAIN stored = Places
    /\ DOMAIN windows \subseteq Players /\ \A p \in DOMAIN windows : windows[p] \in 1..LastWindow
    /\ nextWindow \in 1..LastWindow
    /\ shown \in [Players -> SUBSET (1..LastWindow)]
HeldOK == cursor \in [Players -> Stack] /\ pack \in [Players -> Stack]
GroundOK ==
    /\ drops \in 0..MaxDrops /\ dropped \subseteq 1..drops /\ given \in [DropIds -> 0..MaxPasses]
    /\ reach \in [Players -> SUBSET DropIds]
ClicksOK ==
    /\ DOMAIN click = Players /\ click = [p \in Players |-> click[p]]
    /\ \A p \in Players : click[p] # NoClick => IsClick(click[p], cursor[p])
    /\ requests \in 0..MaxRequests

ItemsInv == WindowsOK /\ HeldOK /\ GroundOK /\ ClicksOK

LEMMA ItemsInvType == ItemsAssumption /\ ItemsInv => TypeOK
  <1> SUFFICES ASSUME ItemsAssumption, ItemsInv PROVE TypeOK
    OBVIOUS
  <1> USE DEF ItemsInv
  <1>1. \A w \in DOMAIN containers :
         /\ w \in 1..LastWindow
         /\ containers[w] \in [owner : Players, place : Places, slots : AnyContents]
         /\ containers[w].slots \in Contents(containers[w].place)
    BY DEF WindowsOK, Shelves, IsWindow
  <1>2. /\ DOMAIN windows \subseteq Players /\ \A p \in DOMAIN windows : windows[p] \in 1..LastWindow
        /\ nextWindow \in 1..LastWindow /\ shown \in [Players -> SUBSET (1..LastWindow)]
        /\ DOMAIN stored = Places /\ \A q \in Places : stored[q] \in Contents(q)
    BY DEF WindowsOK, Stocked
  <1>3. /\ dropped \in SUBSET DropIds /\ drops \in 0..MaxDrops /\ given \in [DropIds -> 0..MaxPasses]
        /\ reach \in [Players -> SUBSET DropIds]
    BY DEF GroundOK, DropIds, ItemsAssumption
  <1>4. \A p \in Players : click[p] # NoClick =>
         /\ click[p].mode \in Modes /\ click[p].slot \in WindowSlots
         /\ click[p].slots \in AnyContents \cup [{} -> Stack]
    BY DEF ClicksOK, IsClick
  <1>5. requests \in 0..MaxRequests
    BY DEF ClicksOK
  <1> QED
    BY <1>1, <1>2, <1>3, <1>4, <1>5 DEF TypeOK, HeldOK

LEMMA ItemsInit == ItemsAssumption /\ Init => ItemsInv
  <1> SUFFICES ASSUME ItemsAssumption, Init PROVE ItemsInv
    OBVIOUS
  <1> USE DEF Init
  <1>1. WindowsOK
    <2>1. 1 \in 1..LastWindow
      BY DEF ItemsAssumption
    <2>2. Stocked(stored) /\ DOMAIN stored = Places
      BY DEF ItemsAssumption, Stocked, Contents, Stack
    <2>3. DOMAIN containers = {} /\ DOMAIN windows = {}
      OBVIOUS
    <2> QED
      BY <2>1, <2>2, <2>3 DEF WindowsOK, Shelves
  <1>2. HeldOK
    BY DEF HeldOK, Stack, ItemsAssumption
  <1>3. GroundOK
    BY DEF GroundOK, ItemsAssumption
  <1>4. ClicksOK
    BY DEF ClicksOK, ItemsAssumption
  <1> QED
    BY <1>1, <1>2, <1>3, <1>4 DEF ItemsInv

LEMMA AtMostIs ==
    ASSUME NEW n \in Nat, NEW most \in Nat
    PROVE  AtMost(n, most) \in 0..most /\ AtMost(n, most) <= n /\ (n <= most => AtMost(n, most) = n)
  BY DEF AtMost

LEMMA Shares ==
    ASSUME NEW n \in Nat
    PROVE  (n + 1) \div 2 \in 0..n /\ (n + 3) \div 4 \in 0..n
  <1>1. (n + 1) \div 2 \in Nat /\ (n + 3) \div 4 \in Nat
    OBVIOUS
  <1>2. (n + 1) \div 2 <= n
    OBVIOUS
  <1>3. (n + 3) \div 4 <= n
    OBVIOUS
  <1> QED
    BY <1>1, <1>2, <1>3

\* What an outcome r of a click that puts out items on the ground may be.
Leaves(r, out, n, c, k, all) ==
    /\ r.slot \in 0..MaxStack /\ r.hand \in 0..MaxStack /\ r.pack \in 0..MaxStack
    /\ r.slot + r.hand + r.pack + out <= n + c + k
    /\ all => r.slot + r.hand + r.pack + out = n + c + k
Out(mode) == IF mode \in {"dropOne", "dropStack"} THEN 1 ELSE 0
Keeps(mode, n, k) == mode # "dropStack" /\ (mode = "shift" => k + n <= MaxStack)

(* What a click leaves, in each place and together.                        *)
LEMMA ResultIs ==
    ASSUME ItemsAssumption, NEW mode \in Modes \ {"collect"},
           NEW n \in 0..MaxStack, NEW c \in 0..MaxStack, NEW k \in 0..MaxStack,
           mode \in {"shift", "dropOne", "dropStack"} => n > 0,
           mode = "right" /\ c > 0 => n < MaxStack, mode = "spread" => n = 0
    PROVE  Leaves(Result(mode, n, c, k), Out(mode), n, c, k, Keeps(mode, n, k))
  <1>0. MaxStack \in Nat \ {0} /\ n \in Nat /\ c \in Nat /\ k \in Nat /\ n <= MaxStack /\ c <= MaxStack /\ k <= MaxStack
    BY DEF ItemsAssumption
  <1>1. CASE mode = "left"
    <2>1. Result(mode, n, c, k) = [slot |-> c, hand |-> n, pack |-> k] /\ Out(mode) = 0
      BY <1>0, <1>1 DEF Result, Out
    <2> QED
      BY <1>0, <1>1, <2>1 DEF Leaves, Keeps
  <1>2. CASE mode = "right" /\ c > 0
    <2>1. Result(mode, n, c, k) = [slot |-> n + 1, hand |-> c - 1, pack |-> k] /\ Out(mode) = 0
      BY <1>0, <1>2 DEF Result, Out
    <2> QED
      BY <1>0, <1>2, <2>1 DEF Leaves, Keeps
  <1>3. CASE mode = "right" /\ c = 0
    <2>1. Result(mode, n, c, k) = [slot |-> n - (n + 1) \div 2, hand |-> (n + 1) \div 2, pack |-> k] /\ Out(mode) = 0
      BY <1>0, <1>3 DEF Result, Out
    <2>2. (n + 1) \div 2 \in 0..n
      BY <1>0, Shares
    <2> QED
      BY <1>0, <1>3, <2>1, <2>2 DEF Leaves, Keeps
  <1>4. CASE mode = "shift"
    <2>1. Result(mode, n, c, k) = [slot |-> 0, hand |-> c, pack |-> Added(k, n)] /\ Out(mode) = 0
      BY <1>0, <1>4 DEF Result, Out
    <2>2. Added(k, n) \in 0..MaxStack /\ Added(k, n) <= k + n /\ (k + n <= MaxStack => Added(k, n) = k + n)
      <3>1. k + n \in Nat /\ MaxStack \in Nat
        BY <1>0
      <3> QED
        BY <3>1, AtMostIs DEF Added
    <2> QED
      BY <1>0, <1>4, <2>1, <2>2 DEF Leaves, Keeps
  <1>5. CASE mode = "hotbar"
    <2>1. Result(mode, n, c, k) = [slot |-> k, hand |-> c, pack |-> n] /\ Out(mode) = 0
      BY <1>0, <1>5 DEF Result, Out
    <2> QED
      BY <1>0, <1>5, <2>1 DEF Leaves, Keeps
  <1>6. CASE mode = "dropOne"
    <2>1. Result(mode, n, c, k) = [slot |-> n - 1, hand |-> c, pack |-> k] /\ Out(mode) = 1
      BY <1>0, <1>6 DEF Result, Out
    <2>2. n > 0
      BY <1>6
    <2> QED
      BY <1>0, <1>6, <2>1, <2>2 DEF Leaves, Keeps
  <1>7. CASE mode = "dropStack"
    <2>1. Result(mode, n, c, k) = [slot |-> 0, hand |-> c, pack |-> k] /\ Out(mode) = 1
      BY <1>0, <1>7 DEF Result, Out
    <2>2. n > 0
      BY <1>7
    <2> QED
      BY <1>0, <1>7, <2>1, <2>2 DEF Leaves, Keeps
  <1>8. CASE mode = "spread"
    <2>1. Result(mode, n, c, k) = [slot |-> (c + 3) \div 4, hand |-> c - (c + 3) \div 4, pack |-> k] /\ Out(mode) = 0
      BY <1>0, <1>8 DEF Result, Out
    <2>2. (c + 3) \div 4 \in 0..c /\ n = 0
      BY <1>0, <1>8, Shares
    <2> QED
      BY <1>0, <1>8, <2>1, <2>2 DEF Leaves, Keeps
  <1>9. c > 0 \/ c = 0
    BY <1>0
  <1> QED
    BY <1>1, <1>2, <1>3, <1>4, <1>5, <1>6, <1>7, <1>8, <1>9 DEF Modes


-----------------------------------------------------------------------------
(* Collecting: the slots fill the cursor, one after the other              *)

FirstOf(f, n) == [s \in 1..n |-> f[s]]

LEMMA FirstMore ==
    ASSUME NEW f, Counts(f), NEW N \in Nat, DOMAIN f = 1..N, NEW n \in 0..N
    PROVE  /\ Counts(FirstOf(f, n)) /\ Total(FirstOf(f, n)) \in Nat
           /\ n = N => Total(FirstOf(f, n)) = Total(f)
           /\ n = 0 => Total(FirstOf(f, n)) = 0
           /\ n > 0 => Total(FirstOf(f, n)) = Total(FirstOf(f, n - 1)) + f[n] /\ f[n] \in Nat
  <1>1. ASSUME NEW m \in 0..N PROVE Counts(FirstOf(f, m))
    <2>1. \A s \in 1..m : f[s] \in Nat
      BY DEF Counts
    <2>2. IsFiniteSet(1..m)
      <3>1. m \in Int /\ 1 \in Int
        OBVIOUS
      <3> QED
        BY <3>1, FS_Interval
    <2> QED
      BY <2>1, <2>2 DEF Counts, FirstOf
  <1>2. Counts(FirstOf(f, n)) /\ Total(FirstOf(f, n)) \in Nat
    BY <1>1, TotalType
  <1>3. CASE n = 0
    <2>1. DOMAIN FirstOf(f, n) = {}
      BY <1>3 DEF FirstOf
    <2>2. Total(FirstOf(f, n)) = 0
      BY <2>1, TotalNone
    <2>3. n = N => FirstOf(f, n) = f
      BY DEF FirstOf, Counts
    <2> QED
      BY <1>2, <1>3, <2>2, <2>3
  <1>4. CASE n > 0
    <2>1. PICK g, h : g = FirstOf(f, n - 1) /\ h = FirstOf(f, n)
      OBVIOUS
    <2>2. /\ DOMAIN g = 1..n - 1 /\ DOMAIN h = 1..n /\ h[n] = f[n] /\ \A s \in DOMAIN g : g[s] = h[s]
          /\ n \notin DOMAIN g /\ DOMAIN h = DOMAIN g \cup {n}
      BY <1>4, <2>1 DEF FirstOf
    <2>3. Counts(g) /\ Counts(h)
      BY <1>1, <1>4, <2>1
    <2>4. Total(h) = Total(g) + h[n]
      BY <2>2, <2>3, TotalMore
    <2>5. n = N => h = f
      BY <2>1 DEF FirstOf, Counts
    <2>6. f[n] \in Nat
      BY <1>4 DEF Counts
    <2> QED
      BY <1>2, <1>4, <2>1, <2>2, <2>4, <2>5, <2>6
  <1> QED
    BY <1>3, <1>4

Taken(slots, c) == [s \in DOMAIN slots |-> Collected(slots, c, s)]

\* The first n slots gave all they had, or what there was room for.
FilledBy(slots, c, n) ==
    LET took == Total(FirstOf(Taken(slots, c), n))
        had == Total(FirstOf(slots, n))
    IN (took = had /\ had <= MaxStack - c) \/ (took = MaxStack - c /\ had >= MaxStack - c)

LEMMA CollectedIs ==
    ASSUME ItemsAssumption, NEW slots, Counts(slots), NEW N \in Nat, DOMAIN slots = 1..N,
           NEW c \in Stack, NEW n \in 1..N
    PROVE  LET room == MaxStack - c - Total(FirstOf(slots, n - 1))
           IN Collected(slots, c, n) = IF room <= 0 THEN 0 ELSE AtMost(slots[n], room)
  <1>1. {u \in DOMAIN slots : u < n} = 1..n - 1
    OBVIOUS
  <1>2. [t \in {u \in DOMAIN slots : u < n} |-> slots[t]] = FirstOf(slots, n - 1)
    BY <1>1 DEF FirstOf
  <1> QED
    BY <1>2 DEF Collected

LEMMA TakenIs ==
    ASSUME ItemsAssumption, NEW slots, Counts(slots), NEW N \in Nat, DOMAIN slots = 1..N, NEW c \in Stack
    PROVE  /\ Counts(Taken(slots, c)) /\ \A s \in DOMAIN slots : Taken(slots, c)[s] \in 0..slots[s]
           /\ Total(Taken(slots, c)) \in 0..MaxStack - c
  <1>0. MaxStack \in Nat /\ c \in 0..MaxStack
    BY DEF ItemsAssumption, Stack
  <1>1. ASSUME NEW n \in 1..N PROVE Collected(slots, c, n) \in 0..slots[n] /\ slots[n] \in Nat
    <2>1. PICK had : had = Total(FirstOf(slots, n - 1))
      OBVIOUS
    <2>2. n - 1 \in 0..N /\ slots[n] \in Nat
      BY DEF Counts
    <2>3. had \in Nat
      BY <2>1, <2>2, FirstMore
    <2>4. Collected(slots, c, n) = IF MaxStack - c - had <= 0 THEN 0 ELSE AtMost(slots[n], MaxStack - c - had)
      BY <2>1, CollectedIs, SMTT(40)
    <2> QED
      BY <1>0, <2>2, <2>3, <2>4 DEF AtMost
  <1>2. Counts(Taken(slots, c)) /\ \A s \in DOMAIN slots : Taken(slots, c)[s] \in 0..slots[s]
    BY <1>1 DEF Taken, Counts
  <1> DEFINE Bad == {n \in Nat : n <= N /\ ~FilledBy(slots, c, n)}
  <1>3. ASSUME NEW n \in Bad PROVE \E m \in Bad : m < n
    <2>1. n \in 0..N /\ ~FilledBy(slots, c, n)
      OBVIOUS
    <2>2. PICK g : g = Taken(slots, c)
      OBVIOUS
    <2>3. Counts(g) /\ DOMAIN g = 1..N
      BY <1>2, <2>2 DEF Taken
    <2>4. n # 0
      <3> SUFFICES ASSUME n = 0 PROVE FALSE
        OBVIOUS
      <3>1. Total(FirstOf(g, n)) = 0
        BY <2>1, <2>3, FirstMore
      <3>2. Total(FirstOf(slots, n)) = 0
        BY <2>1, FirstMore
      <3>3. Total(FirstOf(Taken(slots, c), n)) = 0 /\ 0 <= MaxStack - c
        BY <1>0, <2>2, <3>1
      <3>4. FilledBy(slots, c, n)
        BY <3>2, <3>3 DEF FilledBy
      <3> QED
        BY <2>1, <3>4
    <2>5. n - 1 \in 0..N /\ n > 0 /\ n \in 1..N
      BY <2>1, <2>4
    <2>6. PICK had, took, all, gone : /\ had = Total(FirstOf(slots, n - 1)) /\ all = Total(FirstOf(slots, n))
                                      /\ took = Total(FirstOf(g, n - 1)) /\ gone = Total(FirstOf(g, n))
      OBVIOUS
    <2>7. had \in Nat /\ all = had + slots[n] /\ slots[n] \in Nat
      BY <2>1, <2>5, <2>6, FirstMore
    <2>8. took \in Nat /\ gone = took + g[n] /\ g[n] \in Nat
      BY <2>1, <2>3, <2>5, <2>6, FirstMore, SMTT(40)
    <2>9. g[n] = IF MaxStack - c - had <= 0 THEN 0 ELSE AtMost(slots[n], MaxStack - c - had)
      <3>1. g[n] = Collected(slots, c, n)
        BY <2>2, <2>5 DEF Taken
      <3>2. n \in 1..N
        BY <2>5
      <3>3. \A m \in 1..N : Collected(slots, c, m) =
                IF MaxStack - c - Total(FirstOf(slots, m - 1)) <= 0 THEN 0
                ELSE AtMost(slots[m], MaxStack - c - Total(FirstOf(slots, m - 1)))
        BY CollectedIs
      <3> QED
        BY <2>6, <3>1, <3>2, <3>3
    <2>10. ~((gone = all /\ all <= MaxStack - c) \/ (gone = MaxStack - c /\ all >= MaxStack - c))
      BY <2>1, <2>2, <2>6 DEF FilledBy
    <2>11. ~((took = had /\ had <= MaxStack - c) \/ (took = MaxStack - c /\ had >= MaxStack - c))
      <3>1. PICK room : room = MaxStack - c /\ room \in Nat
        BY <1>0
      <3>2. g[n] = IF room - had <= 0 THEN 0 ELSE IF slots[n] < room - had THEN slots[n] ELSE room - had
        BY <2>9, <3>1 DEF AtMost
      <3>3. ~((took = had /\ had <= room) \/ (took = room /\ had >= room))
        BY <2>7, <2>8, <2>10, <3>1, <3>2, SMTT(40)
      <3> QED
        BY <3>1, <3>3
    <2>12. ~FilledBy(slots, c, n - 1)
      BY <2>2, <2>6, <2>11 DEF FilledBy
    <2> QED
      BY <2>5, <2>12
  <1>4. FilledBy(slots, c, N)
    <2>1. Bad \in SUBSET Nat
      OBVIOUS
    <2> HIDE DEF Bad
    <2>2. Bad = {}
      BY <1>3, <2>1, NoneBad
    <2> QED
      BY <2>2 DEF Bad
  <1>5. PICK g : g = Taken(slots, c)
    OBVIOUS
  <1>6. Counts(g) /\ DOMAIN g = 1..N /\ N \in 0..N
    BY <1>2, <1>5 DEF Taken
  <1>7. Total(FirstOf(g, N)) = Total(g) /\ Total(g) \in Nat
    BY <1>6, FirstMore, TotalType
  <1>8. Total(FirstOf(slots, N)) \in Nat
    BY <1>6, FirstMore
  <1>9. Total(g) <= MaxStack - c
    BY <1>0, <1>4, <1>5, <1>7, <1>8 DEF FilledBy
  <1> QED
    BY <1>0, <1>2, <1>5, <1>7, <1>9

-----------------------------------------------------------------------------
(* Steps and the invariant                                                 *)

LEMMA SetSlotsIs ==
    ASSUME ItemsAssumption, WindowsOK, NEW w, NEW slots, \A s \in DOMAIN slots : slots[s] \in Stack,
           SetSlots(w, slots)
    PROVE  /\ Shelves(containers') /\ DOMAIN containers' = DOMAIN containers
           /\ \A v \in DOMAIN containers : /\ containers'[v].place = containers[v].place
                                           /\ containers'[v].owner = containers[v].owner
           /\ \A v \in DOMAIN containers \ {w} : containers'[v] = containers[v]
           /\ w \in DOMAIN containers =>
                containers'[w].slots =
                  [s \in DOMAIN containers[w].slots |-> IF s \in DOMAIN slots THEN slots[s] ELSE containers[w].slots[s]]
  <1>1. PICK c : c = containers
    OBVIOUS
  <1>2. PICK d : d = containers'
    OBVIOUS
  <1>3. Shelves(c)
    BY <1>1 DEF WindowsOK
  <1>4. CASE w \in DOMAIN c
    <2>1. PICK t : t = [s \in DOMAIN c[w].slots |-> IF s \in DOMAIN slots THEN slots[s] ELSE c[w].slots[s]]
      OBVIOUS
    <2>2. d = [c EXCEPT ![w].slots = t]
      BY <1>1, <1>2, <1>4, <2>1 DEF SetSlots
    <2>3. d = [c EXCEPT ![w] = [c[w] EXCEPT !.slots = t]]
      BY <2>2
    <2>4. IsWindow(c[w]) /\ c[w].place \in Places /\ c[w].slots \in Contents(c[w].place)
      BY <1>3, <1>4 DEF Shelves, IsWindow
    <2>5. t \in Contents(c[w].place)
      <3>1. c[w].slots \in [1..Size[c[w].place] -> Stack]
        BY <2>4 DEF Contents
      <3> QED
        BY <2>1, <3>1 DEF Contents
    <2>6. /\ IsWindow([c[w] EXCEPT !.slots = t]) /\ [c[w] EXCEPT !.slots = t].slots = t
          /\ [c[w] EXCEPT !.slots = t].place = c[w].place /\ [c[w] EXCEPT !.slots = t].owner = c[w].owner
      BY <2>4, <2>5, WindowWith
    <2>7. DOMAIN d = DOMAIN c /\ d[w] = [c[w] EXCEPT !.slots = t] /\ \A v \in DOMAIN c \ {w} : d[v] = c[v]
      BY <1>4, <2>3
    <2>8. Shelves(d)
      BY <1>3, <2>6, <2>7 DEF Shelves
    <2> QED
      BY <1>1, <1>2, <2>1, <2>6, <2>7, <2>8
  <1>5. CASE w \notin DOMAIN c
    <2>1. d = c
      BY <1>1, <1>2, <1>5 DEF SetSlots
    <2> QED
      BY <1>1, <1>2, <1>3, <1>5, <2>1
  <1> QED
    BY <1>4, <1>5

LEMMA DropOneIs ==
    ASSUME ItemsAssumption, GroundOK, DropOne, given' = given, reach' = reach
    PROVE  /\ GroundOK' /\ Cardinality(dropped) \in Nat
           /\ Cardinality(dropped') = Cardinality(dropped) + 1
  <1>1. MaxDrops \in Nat /\ drops \in Nat /\ drops < MaxDrops
    BY DEF ItemsAssumption, GroundOK, DropOne
  <1>2. GroundOK'
    BY <1>1 DEF GroundOK, DropOne
  <1>3. IsFiniteSet(dropped)
    <2>1. IsFiniteSet(1..drops)
      BY <1>1, FS_Interval
    <2> QED
      BY <2>1, FS_Subset DEF GroundOK
  <1>4. drops + 1 \notin dropped
    BY <1>1 DEF GroundOK
  <1>5. Cardinality(dropped \cup {drops + 1}) = Cardinality(dropped) + 1
    BY <1>3, <1>4, FS_AddElement
  <1> QED
    BY <1>2, <1>3, <1>5, FS_CardinalityType DEF DropOne

(* The clicks of the other tasks go on as they were.                       *)
LEMMA ClicksGoOn ==
    ASSUME ClicksOK, NEW p \in Players, click[p] = NoClick, click' = click,
           \A q \in Players \ {p} : cursor'[q] = cursor[q], requests' \in 0..MaxRequests
    PROVE  ClicksOK'
  <1>1. \A q \in Players : click'[q] # NoClick => IsClick(click'[q], cursor'[q])
    BY DEF ClicksOK
  <1> QED
    BY <1>1 DEF ClicksOK

LEMMA ClicksSame ==
    ASSUME ClicksOK, click' = click, cursor' = cursor, requests' = requests
    PROVE  ClicksOK'
  BY DEF ClicksOK

LEMMA OpenInv ==
    ASSUME ItemsAssumption, ItemsInv, NEW p \in Players, NEW q \in Places, Open(p, q)
    PROVE  ItemsInv'
  <1> USE DEF ItemsInv
  <1>1. PICK n, c, s : n = nextWindow /\ c = containers /\ s = stored
    OBVIOUS
  <1>2. n \in 1..LastWindow /\ Shelves(c) /\ s[q] \in Contents(q) /\ LastWindow \in Nat \ {0, 1}
    BY <1>1 DEF WindowsOK, Stocked, ItemsAssumption
  <1>3. PICK v : v = [owner |-> p, place |-> q, slots |-> s[q]]
    OBVIOUS
  <1>4. IsWindow(v)
    BY <1>2, <1>3, WindowIs
  <1>5. PICK d : d = With(c, n, v)
    OBVIOUS
  <1>6. containers' = d
    BY <1>1, <1>3, <1>5 DEF Open
  <1>7. Shelves(d)
    BY <1>2, <1>4, <1>5 DEF Shelves, With
  <1>8. WindowsOK'
    <2>1. nextWindow' \in 1..LastWindow
      BY <1>1, <1>2 DEF Open
    <2>2. Stocked(stored') /\ DOMAIN stored' = Places /\ Shelves(containers')
      BY <1>6, <1>7 DEF Open, WindowsOK
    <2>3. DOMAIN windows' \subseteq Players /\ \A r \in DOMAIN windows' : windows'[r] \in 1..LastWindow
      <3>1. windows' = With(windows, p, n)
        BY <1>1 DEF Open
      <3>2. DOMAIN windows \subseteq Players /\ \A r \in DOMAIN windows : windows[r] \in 1..LastWindow
        BY DEF WindowsOK
      <3> QED
        BY <1>2, <3>1, <3>2 DEF With
    <2>4. shown' \in [Players -> SUBSET (1..LastWindow)]
      BY <1>1, <1>2 DEF Open, WindowsOK
    <2> QED
      BY <2>1, <2>2, <2>3, <2>4 DEF WindowsOK
  <1>9. HeldOK' /\ GroundOK'
    BY DEF Open, HeldOK, GroundOK, ground_vars
  <1>10. ClicksOK'
    <2>1. requests' \in 0..MaxRequests
      BY DEF Open, ClicksOK, ItemsAssumption
    <2>2. click' = click /\ cursor' = cursor /\ click[p] = NoClick
      BY DEF Open, Free
    <2> QED
      BY <2>1, <2>2, ClicksGoOn
  <1> QED
    BY <1>8, <1>9, <1>10

(* The cursor falls to the ground when its window is closed.               *)
CursorFalls(p) ==
    /\ cursor' = [cursor EXCEPT ![p] = 0]
    /\ IF cursor[p] > 0 THEN DropOne ELSE UNCHANGED <<dropped, drops>>

LEMMA CursorFallsInv ==
    ASSUME ItemsAssumption, HeldOK, GroundOK, NEW p \in Players, CursorFalls(p),
           pack' = pack, given' = given, reach' = reach
    PROVE  HeldOK' /\ GroundOK'
  <1>1. HeldOK'
    BY DEF HeldOK, CursorFalls, Stack, ItemsAssumption
  <1>2. GroundOK'
    <2>1. CASE DropOne
      BY <2>1, DropOneIs
    <2>2. CASE UNCHANGED <<dropped, drops>>
      BY <2>2 DEF GroundOK
    <2> QED
      BY <2>1, <2>2 DEF CursorFalls
  <1> QED
    BY <1>1, <1>2

LEMMA CloseInv ==
    ASSUME ItemsAssumption, ItemsInv, NEW p \in Players, NEW w \in shown[p], Close(p, w)
    PROVE  ItemsInv'
  <1> USE DEF ItemsInv
  <1>1. HeldOK' /\ GroundOK'
    BY CursorFallsInv DEF Close, CursorFalls
  <1>2. ClicksOK'
    <2>1. requests' \in 0..MaxRequests /\ click' = click
      BY DEF Close, ClicksOK, click_vars
    <2>2. click[p] = NoClick /\ \A q \in Players \ {p} : cursor'[q] = cursor[q]
      BY DEF Close, Free, HeldOK
    <2> QED
      BY <2>1, <2>2, ClicksGoOn
  <1>3. Shelves(containers')
    BY DEF Close, WindowsOK, Shelves, Without
  <1>4. Stocked(stored') /\ DOMAIN stored' = Places
    <2>1. CASE w \in DOMAIN containers
      <3>1. PICK pl, s : pl = containers[w].place /\ s = containers[w].slots
        OBVIOUS
      <3>2. pl \in Places /\ s \in Contents(pl)
        BY <2>1, <3>1 DEF WindowsOK, Shelves, IsWindow
      <3>3. stored' = [stored EXCEPT ![pl] = s]
        BY <2>1, <3>1 DEF Close
      <3> QED
        BY <3>2, <3>3 DEF WindowsOK, Stocked
    <2>2. CASE w \notin DOMAIN containers
      BY <2>2 DEF Close, WindowsOK
    <2> QED
      BY <2>1, <2>2
  <1>5. DOMAIN windows' \subseteq Players /\ \A r \in DOMAIN windows' : windows'[r] \in 1..LastWindow
    BY DEF Close, Without, WindowsOK
  <1>6. nextWindow' \in 1..LastWindow /\ shown' \in [Players -> SUBSET (1..LastWindow)]
    BY DEF Close, WindowsOK
  <1> QED
    BY <1>1, <1>2, <1>3, <1>4, <1>5, <1>6 DEF WindowsOK

LEMMA RejoinInv ==
    ASSUME ItemsAssumption, ItemsInv, NEW p \in Players, Rejoin(p)
    PROVE  ItemsInv'
  <1> USE DEF ItemsInv
  <1>1. HeldOK' /\ GroundOK'
    BY DEF Rejoin, HeldOK, GroundOK, ground_vars, Stack, ItemsAssumption
  <1>2. WindowsOK'
    BY DEF Rejoin, WindowsOK
  <1>3. ClicksOK'
    <2>1. requests' \in 0..MaxRequests
      BY DEF Rejoin, ClicksOK, ItemsAssumption
    <2>2. click[p] = NoClick /\ click' = click /\ \A q \in Players \ {p} : cursor'[q] = cursor[q]
      BY DEF Rejoin, Free, HeldOK
    <2> QED
      BY <2>1, <2>2, ClicksGoOn
  <1> QED
    BY <1>1, <1>2, <1>3

(* What a click read is a table of counts.                                 *)
LEMMA ReadCounts ==
    ASSUME ItemsAssumption, NEW slots \in AnyContents \cup [{} -> Stack], NEW s
    PROVE  /\ Counts(slots) /\ \E N \in Nat : DOMAIN slots = 1..N
           /\ \A x \in DOMAIN slots : slots[x] \in 0..MaxStack
           /\ Count(slots, s) \in 0..MaxStack
  <1>1. CASE slots \in AnyContents
    <2>1. PICK q \in Places : slots \in Contents(q)
      BY <1>1 DEF AnyContents
    <2>2. Counts(slots) /\ DOMAIN slots = 1..Size[q] /\ Size[q] \in Nat /\ \A x \in DOMAIN slots : slots[x] \in 0..MaxStack
      BY <2>1, ContentsCount
    <2> QED
      BY <2>2 DEF Count, ItemsAssumption
  <1>2. CASE slots \in [{} -> Stack]
    <2>1. DOMAIN slots = {} /\ 1..0 = {} /\ slots \in [DOMAIN slots -> Nat]
      BY <1>2
    <2>2. IsFiniteSet(DOMAIN slots)
      BY <2>1, FS_EmptySet
    <2>3. Counts(slots)
      BY <2>1, <2>2 DEF Counts
    <2>4. DOMAIN slots = 1..0 /\ 0 \in Nat
      BY <2>1
    <2>5. \E N \in Nat : DOMAIN slots = 1..N
      BY <2>4
    <2>6. Count(slots, s) = 0 /\ 0 \in 0..MaxStack
      BY <2>1 DEF Count, ItemsAssumption
    <2> QED
      BY <2>1, <2>3, <2>5, <2>6
  <1> QED
    BY <1>1, <1>2

LEMMA SlotsOfType ==
    ASSUME WindowsOK, NEW w
    PROVE  SlotsOf(w) \in AnyContents \cup [{} -> Stack]
  <1>1. CASE w \in DOMAIN containers
    BY <1>1 DEF SlotsOf, WindowsOK, Shelves, IsWindow
  <1>2. CASE w \notin DOMAIN containers
    BY <1>2 DEF SlotsOf
  <1> QED
    BY <1>1, <1>2

LEMMA ClickReadInv ==
    ASSUME ItemsAssumption, ItemsInv, NEW p \in Players, NEW w \in shown[p], NEW s \in WindowSlots, NEW mode \in Modes,
           ClickRead(p, w, s, mode)
    PROVE  ItemsInv'
  <1> USE DEF ItemsInv
  <1>1. WindowsOK' /\ HeldOK' /\ GroundOK'
    BY DEF ClickRead, WindowsOK, HeldOK, GroundOK, window_vars, ground_vars
  <1>2. PICK slots, c, e : /\ slots = SlotsOf(w) /\ c = cursor[p]
                           /\ e = [mode |-> mode, window |-> w, slot |-> s, slots |-> SlotsOf(w)]
    OBVIOUS
  <1>3. slots \in AnyContents \cup [{} -> Stack]
    BY <1>2, SlotsOfType
  <1>4. PICK n : n = Count(slots, s)
    OBVIOUS
  <1>5. n \in 0..MaxStack /\ MaxStack \in Nat
    BY <1>3, <1>4, ReadCounts DEF ItemsAssumption
  <1>6. ~Idles(mode, n, c) /\ c \in 0..MaxStack
    BY <1>2, <1>4 DEF ClickRead, HeldOK, Stack
  <1>7. IsClick(e, c)
    <2>1. mode \in {"shift", "dropOne", "dropStack"} => n > 0
      BY <1>5, <1>6 DEF Idles
    <2>2. mode = "right" /\ c > 0 => n < MaxStack
      BY <1>5, <1>6 DEF Idles
    <2>3. mode = "spread" => n = 0
      BY <1>5, <1>6 DEF Idles
    <2>4. e.mode = mode /\ e.slot = s /\ e.slots = slots
      BY <1>2
    <2> QED
      BY <1>3, <1>4, <2>1, <2>2, <2>3, <2>4 DEF IsClick
  <1>8. ClicksOK'
    <2>1. requests' \in 0..MaxRequests
      BY DEF ClickRead, ClicksOK, ItemsAssumption
    <2>2. click' = [click EXCEPT ![p] = e] /\ cursor' = cursor
      BY <1>2 DEF ClickRead
    <2>3. \A q \in Players : click'[q] # NoClick => IsClick(click'[q], cursor'[q])
      BY <1>2, <1>7, <2>2 DEF ClicksOK
    <2> QED
      BY <2>1, <2>2, <2>3 DEF ClicksOK
  <1> QED
    BY <1>1, <1>8

(* A click that was read is written.                                       *)
ClickOver(p) == click' = [click EXCEPT ![p] = NoClick] /\ UNCHANGED <<windows, nextWindow, stored, shown, requests>>

LEMMA ClicksOver ==
    ASSUME ClicksOK, NEW p \in Players, ClickOver(p), \A q \in Players \ {p} : cursor'[q] = cursor[q]
    PROVE  ClicksOK'
  <1>1. \A q \in Players : click'[q] # NoClick => IsClick(click'[q], cursor'[q])
    BY DEF ClicksOK, ClickOver
  <1> QED
    BY <1>1 DEF ClicksOK, ClickOver

LEMMA ClickWriteInv ==
    ASSUME ItemsAssumption, ItemsInv, NEW p \in Players, ClickWrite(p)
    PROVE  ItemsInv'
  <1> USE DEF ItemsInv
  <1>1. PICK e, n, c, k : e = click[p] /\ n = Count(e.slots, e.slot) /\ c = cursor[p] /\ k = pack[p]
    OBVIOUS
  <1>2. PICK r, new : r = Result(e.mode, n, c, k) /\ new = [s \in {e.slot} |-> r.slot]
    OBVIOUS
  <1>3. e # NoClick /\ e.mode # "collect"
    BY <1>1 DEF ClickWrite
  <1>4. IsClick(e, c)
    BY <1>1, <1>3 DEF ClicksOK
  <1>5. n \in 0..MaxStack /\ c \in 0..MaxStack /\ k \in 0..MaxStack
    BY <1>1, <1>4, ReadCounts DEF IsClick, HeldOK, Stack
  <1>6. Leaves(r, Out(e.mode), n, c, k, Keeps(e.mode, n, k))
    <2>1. e.mode \in Modes \ {"collect"}
      BY <1>3, <1>4 DEF IsClick
    <2>2. e.mode \in {"shift", "dropOne", "dropStack"} => n > 0
      BY <1>1, <1>4 DEF IsClick
    <2>3. (e.mode = "right" /\ c > 0 => n < MaxStack) /\ (e.mode = "spread" => n = 0)
      BY <1>1, <1>4 DEF IsClick
    <2>4. PICK mode : mode = e.mode
      OBVIOUS
    <2> QED
      BY <1>2, <1>5, <2>1, <2>2, <2>3, <2>4, ResultIs
  <1>7. r.slot \in Stack /\ r.hand \in Stack /\ r.pack \in Stack
    BY <1>6 DEF Leaves, Stack
  <1>8. SetSlots(e.window, new)
    BY <1>1, <1>2 DEF ClickWrite
  <1>9. cursor' = [cursor EXCEPT ![p] = r.hand] /\ pack' = [pack EXCEPT ![p] = r.pack]
    BY <1>1, <1>2 DEF ClickWrite
  <1>10. ClickOver(p) /\ given' = given /\ reach' = reach
    BY DEF ClickWrite, ClickOver
  <1>11. Shelves(containers')
    <2>1. \A s \in DOMAIN new : new[s] \in Stack
      BY <1>2, <1>7
    <2> QED
      BY <1>8, <2>1, SetSlotsIs
  <1>12. WindowsOK'
    BY <1>10, <1>11 DEF WindowsOK, ClickOver
  <1>13. HeldOK'
    BY <1>7, <1>9 DEF HeldOK
  <1>14. GroundOK'
    <2>1. CASE DropOne
      BY <1>10, <2>1, DropOneIs
    <2>2. CASE UNCHANGED <<dropped, drops>>
      BY <1>10, <2>2 DEF GroundOK
    <2> QED
      BY <2>1, <2>2 DEF ClickWrite
  <1>15. ClicksOK'
    BY <1>9, <1>10, ClicksOver DEF HeldOK
  <1> QED
    BY <1>12, <1>13, <1>14, <1>15

LEMMA CollectWriteInv ==
    ASSUME ItemsAssumption, ItemsInv, NEW p \in Players, CollectWrite(p)
    PROVE  ItemsInv'
  <1> USE DEF ItemsInv
  <1>1. PICK e, c : e = click[p] /\ c = cursor[p]
    OBVIOUS
  <1>2. PICK took, new : /\ took = Taken(e.slots, c)
                         /\ new = [s \in {t \in DOMAIN took : took[t] > 0} |-> e.slots[s] - took[s]]
    OBVIOUS
  <1>3. e.mode = "collect" /\ e # NoClick
    BY <1>1 DEF CollectWrite, NoClick
  <1>4. IsClick(e, c) /\ c \in Stack
    BY <1>1, <1>3 DEF ClicksOK, HeldOK
  <1>5. PICK N \in Nat : DOMAIN e.slots = 1..N
    BY <1>4, ReadCounts DEF IsClick
  <1>6. Counts(e.slots) /\ \A s \in DOMAIN e.slots : e.slots[s] \in 0..MaxStack
    BY <1>4, ReadCounts DEF IsClick
  <1>7. DOMAIN took = DOMAIN e.slots /\ (\A s \in DOMAIN took : took[s] \in 0..e.slots[s]) /\ Total(took) \in 0..MaxStack - c
    BY <1>2, <1>4, <1>5, <1>6, TakenIs DEF Taken
  <1>8. SetSlots(e.window, new) /\ cursor' = [cursor EXCEPT ![p] = c + Total(took)]
    BY <1>1, <1>2 DEF CollectWrite, Taken
  <1>9. ClickOver(p) /\ UNCHANGED ground_vars /\ pack' = pack
    BY DEF CollectWrite, ClickOver
  <1>10. MaxStack \in Nat /\ c \in 0..MaxStack
    BY <1>4 DEF ItemsAssumption, Stack
  <1>11. Shelves(containers')
    <2>1. \A s \in DOMAIN new : new[s] \in Stack
      BY <1>2, <1>6, <1>7, <1>10 DEF Stack
    <2> QED
      BY <1>8, <2>1, SetSlotsIs
  <1>12. WindowsOK'
    BY <1>9, <1>11 DEF WindowsOK, ClickOver
  <1>13. HeldOK'
    <2>1. c + Total(took) \in Stack
      BY <1>7, <1>10 DEF Stack
    <2> QED
      BY <1>8, <1>9, <2>1 DEF HeldOK
  <1>14. GroundOK'
    BY <1>9 DEF GroundOK, ground_vars
  <1>15. ClicksOK'
    BY <1>8, <1>9, ClicksOver DEF HeldOK
  <1> QED
    BY <1>12, <1>13, <1>14, <1>15

(* What a hopper's step is: an item leaves one window and another takes it *)
(* or has no room for it.                                                  *)
Flows(c, d, src, dst, s, t) ==
    /\ src \in DOMAIN c /\ dst \in DOMAIN c /\ c[src].place # c[dst].place
    /\ s \in DOMAIN c[src].slots /\ c[src].slots[s] > 0
    /\ t \in DOMAIN c[dst].slots => c[dst].slots[t] < MaxStack
    /\ d = [c EXCEPT ![src].slots[s] = 0, ![dst].slots = [u \in DOMAIN @ |-> IF u = t THEN @[u] + 1 ELSE @[u]]]

LEMMA HopperFlows ==
    ASSUME ItemsAssumption, WindowsOK, NEW above \in Places, NEW below \in Places, above # below, Hopper(above, below)
    PROVE  /\ \E src, dst \in DOMAIN containers, s, t \in WindowSlots : Flows(containers, containers', src, dst, s, t)
           /\ UNCHANGED <<windows, nextWindow, stored, shown, ground_vars, cursor, pack, click_vars>>
  <1>1. PICK src \in WindowsAt(above), dst \in WindowsAt(below), s \in WindowSlots, t \in WindowSlots :
            /\ Count(containers[src].slots, s) > 0 /\ Count(containers[dst].slots, t) < MaxStack
            /\ containers' = [containers EXCEPT
                 ![src].slots[s] = 0,
                 ![dst].slots = [u \in DOMAIN @ |-> IF u = t THEN @[u] + 1 ELSE @[u]]]
            /\ UNCHANGED <<windows, nextWindow, stored, shown, ground_vars, cursor, pack, click_vars>>
    BY ZenonT(60) DEF Hopper
  <1>2. /\ src \in DOMAIN containers /\ dst \in DOMAIN containers
        /\ containers[src].place = above /\ containers[dst].place = below
    BY DEF WindowsAt
  <1>3. s \in DOMAIN containers[src].slots /\ containers[src].slots[s] > 0
    BY <1>1 DEF Count
  <1>4. t \in DOMAIN containers[dst].slots => containers[dst].slots[t] < MaxStack
    BY <1>1 DEF Count
  <1>5. Flows(containers, containers', src, dst, s, t)
    BY <1>1, <1>2, <1>3, <1>4 DEF Flows
  <1> QED
    BY <1>1, <1>2, <1>5

LEMMA FlowsIs ==
    ASSUME ItemsAssumption, NEW c, NEW d, NEW st, Shelves(c), Stocked(st), NEW src, NEW dst, NEW s, NEW t, Flows(c, d, src, dst, s, t)
    PROVE  /\ Shelves(d) /\ DOMAIN d = DOMAIN c
           /\ \A w \in DOMAIN c : d[w].owner = c[w].owner
           /\ InAll(d, st) <= InAll(c, st)
  <1>1. PICK a, b : a = c[src] /\ b = c[dst]
    OBVIOUS
  <1>2. IsWindow(a) /\ IsWindow(b) /\ src # dst /\ src \in DOMAIN c /\ dst \in DOMAIN c
    BY <1>1 DEF Shelves, Flows
  <1>3. PICK fa, fb : fa = [a.slots EXCEPT ![s] = 0] /\ fb = [u \in DOMAIN b.slots |-> IF u = t THEN b.slots[u] + 1 ELSE b.slots[u]]
    OBVIOUS
  <1>4. PICK e : e = [c EXCEPT ![src] = [a EXCEPT !.slots = fa]]
    OBVIOUS
  <1>5. d = [e EXCEPT ![dst] = [b EXCEPT !.slots = fb]]
    <2>1. d = [c EXCEPT ![src].slots[s] = 0, ![dst].slots = [u \in DOMAIN @ |-> IF u = t THEN @[u] + 1 ELSE @[u]]]
      BY DEF Flows
    <2> QED
      BY <1>1, <1>2, <1>3, <1>4, <2>1
  <1>6. /\ a.place \in Places /\ a.slots \in Contents(a.place) /\ s \in DOMAIN a.slots /\ a.slots[s] > 0
        /\ b.place \in Places /\ b.slots \in Contents(b.place)
        /\ t \in DOMAIN b.slots => b.slots[t] < MaxStack
    BY <1>1, <1>2 DEF IsWindow, Flows
  <1>7. /\ Counts(a.slots) /\ \A u \in DOMAIN a.slots : a.slots[u] \in 0..MaxStack
        /\ Counts(b.slots) /\ \A u \in DOMAIN b.slots : b.slots[u] \in 0..MaxStack
    BY <1>6, ContentsCount
  <1>8. MaxStack \in Nat
    BY DEF ItemsAssumption
  <1>9. fa \in Contents(a.place)
    BY <1>3, <1>6, <1>8 DEF Contents, Stack
  <1>10. fb \in Contents(b.place)
    <2>1. \A u \in DOMAIN b.slots : fb[u] \in 0..MaxStack
      BY <1>3, <1>6, <1>7, <1>8
    <2>2. DOMAIN b.slots = 1..Size[b.place] /\ DOMAIN fb = DOMAIN b.slots
      BY <1>3, <1>6 DEF Contents
    <2>3. fb = [u \in 1..Size[b.place] |-> fb[u]]
      BY <1>3, <2>2
    <2> QED
      BY <2>1, <2>2, <2>3 DEF Contents, Stack
  <1>11. PICK va, vb : va = [a EXCEPT !.slots = fa] /\ vb = [b EXCEPT !.slots = fb]
    OBVIOUS
  <1>12. /\ IsWindow(va) /\ va.slots = fa /\ va.place = a.place /\ va.owner = a.owner
         /\ IsWindow(vb) /\ vb.slots = fb /\ vb.place = b.place /\ vb.owner = b.owner
    BY <1>2, <1>9, <1>10, <1>11, WindowWith, ZenonT(60)
  <1>13. DOMAIN e = DOMAIN c /\ e[src] = va /\ \A w \in DOMAIN c \ {src} : e[w] = c[w]
    BY <1>2, <1>4, <1>11
  <1>14. DOMAIN d = DOMAIN e /\ d[dst] = vb /\ \A w \in DOMAIN e \ {dst} : d[w] = e[w]
    BY <1>2, <1>5, <1>11, <1>13
  <1>15. Shelves(e) /\ Shelves(d)
    BY <1>12, <1>13, <1>14 DEF Shelves
  <1>16. \A w \in DOMAIN c : d[w].owner = c[w].owner
    BY <1>1, <1>12, <1>13, <1>14
  <1>17. InAll(e, st) = InAll(c, st) - Total(a.slots) + Total(fa)
    <2>1. c[src].place = e[src].place /\ \A v \in DOMAIN c \ {src} : c[v] = e[v]
      BY <1>1, <1>12, <1>13
    <2> QED
      BY <1>1, <1>2, <1>12, <1>13, <1>15, <2>1, OneShelfChanges
  <1>18. InAll(d, st) = InAll(e, st) - Total(b.slots) + Total(fb)
    <2>1. e[dst].place = d[dst].place /\ (\A v \in DOMAIN e \ {dst} : e[v] = d[v]) /\ e[dst].slots = b.slots
      BY <1>1, <1>2, <1>12, <1>13, <1>14
    <2> QED
      BY <1>2, <1>12, <1>13, <1>14, <1>15, <2>1, OneShelfChanges
  <1>19. Total(fa) <= Total(a.slots) - 1 /\ Total(fa) \in Nat /\ Total(a.slots) \in Nat
    <2>1. Counts(fa) /\ DOMAIN fa = DOMAIN a.slots /\ fa[s] = 0 /\ \A u \in DOMAIN a.slots \ {s} : a.slots[u] = fa[u]
      BY <1>3, <1>6, <1>9, ContentsCount
    <2>2. Total(fa) = Total(a.slots) - a.slots[s] + fa[s]
      BY <1>6, <1>7, <2>1, TotalChange
    <2>3. a.slots[s] \in Nat
      BY <1>6, <1>7
    <2> QED
      BY <1>6, <1>7, <2>1, <2>2, <2>3, TotalType
  <1>20. Total(fb) <= Total(b.slots) + 1 /\ Total(fb) \in Nat /\ Total(b.slots) \in Nat
    <2>1. Counts(fb) /\ DOMAIN fb = DOMAIN b.slots
      BY <1>3, <1>6, <1>10, ContentsCount
    <2>2. Total(fb) \in Nat /\ Total(b.slots) \in Nat
      BY <1>7, <2>1, TotalType
    <2>3. CASE t \in DOMAIN b.slots
      <3>1. fb[t] = b.slots[t] + 1 /\ b.slots[t] \in Nat /\ \A u \in DOMAIN b.slots \ {t} : b.slots[u] = fb[u]
        BY <1>3, <1>7, <2>3
      <3>2. Total(fb) = Total(b.slots) - b.slots[t] + fb[t]
        BY <1>7, <2>1, <2>3, <3>1, TotalChange
      <3> QED
        BY <2>2, <3>1, <3>2
    <2>4. CASE t \notin DOMAIN b.slots
      <3>1. fb = b.slots
        BY <1>3, <1>7, <2>4 DEF Counts
      <3> QED
        BY <2>2, <3>1
    <2> QED
      BY <2>3, <2>4
  <1>21. InAll(c, st) \in Nat
    BY SumsCount, TotalType DEF InAll
  <1>22. InAll(d, st) <= InAll(c, st)
    BY <1>17, <1>18, <1>19, <1>20, <1>21
  <1> QED
    BY <1>13, <1>14, <1>15, <1>16, <1>22

LEMMA HopperInv ==
    ASSUME ItemsAssumption, ItemsInv, NEW above \in Places, NEW below \in Places, above # below, Hopper(above, below)
    PROVE  ItemsInv'
  <1> USE DEF ItemsInv
  <1>1. PICK src, dst, s, t : Flows(containers, containers', src, dst, s, t)
    BY HopperFlows
  <1>2. UNCHANGED <<windows, nextWindow, stored, shown, ground_vars, cursor, pack, click_vars>>
    BY HopperFlows
  <1>3. PICK c : c = containers
    OBVIOUS
  <1>4. PICK d : d = containers'
    OBVIOUS
  <1>5. PICK st : st = stored
    OBVIOUS
  <1>6. Shelves(c) /\ Stocked(st) /\ Flows(c, d, src, dst, s, t)
    BY <1>1, <1>3, <1>4, <1>5 DEF WindowsOK
  <1>7. Shelves(d)
    BY <1>6, FlowsIs
  <1>8. WindowsOK'
    BY <1>2, <1>4, <1>7 DEF WindowsOK
  <1>9. HeldOK' /\ GroundOK' /\ ClicksOK'
    BY <1>2, ClicksSame DEF HeldOK, GroundOK, ground_vars, click_vars
  <1> QED
    BY <1>8, <1>9

LEMMA DroppedIs ==
    ASSUME ItemsAssumption, GroundOK
    PROVE  IsFiniteSet(dropped) /\ Cardinality(dropped) \in Nat /\ dropped \subseteq DropIds
  <1>1. drops \in Nat /\ MaxDrops \in Nat /\ drops <= MaxDrops
    BY DEF GroundOK, ItemsAssumption
  <1>2. IsFiniteSet(1..drops)
    BY <1>1, FS_Interval
  <1>3. IsFiniteSet(dropped)
    BY <1>2, FS_Subset DEF GroundOK
  <1> QED
    BY <1>1, <1>3, FS_CardinalityType DEF GroundOK, DropIds

LEMMA FindNearInv ==
    ASSUME ItemsAssumption, ItemsInv, NEW p \in Players, FindNear(p)
    PROVE  ItemsInv'
  <1> USE DEF ItemsInv
  <1>1. WindowsOK' /\ HeldOK'
    BY DEF FindNear, WindowsOK, HeldOK, window_vars
  <1>2. ClicksOK'
    <2>1. click' = click /\ cursor' = cursor /\ requests' = requests
      BY DEF FindNear, click_vars
    <2> QED
      BY <2>1, ClicksSame
  <1>3. dropped \subseteq DropIds
    BY DroppedIs
  <1>4. GroundOK'
    BY <1>3 DEF FindNear, GroundOK
  <1> QED
    BY <1>1, <1>2, <1>4

LEMMA AddedIs ==
    ASSUME ItemsAssumption, NEW k \in Stack, NEW n \in Nat
    PROVE  Added(k, n) \in Stack /\ Added(k, n) <= k + n /\ k \in Nat
  <1>1. MaxStack \in Nat /\ k \in Nat /\ k + n \in Nat
    BY DEF ItemsAssumption, Stack
  <1> QED
    BY <1>1, AtMostIs DEF Added, Stack

LEMMA PickUpInv ==
    ASSUME ItemsAssumption, ItemsInv, NEW p \in Players, PickUp(p)
    PROVE  ItemsInv'
  <1> USE DEF ItemsInv
  <1>1. PICK d \in reach[p] : /\ pack' = [pack EXCEPT ![p] = Added(@, 1)] /\ dropped' = dropped \ {d}
                              /\ reach' = [reach EXCEPT ![p] = @ \ {d}]
                              /\ UNCHANGED <<window_vars, drops, given, cursor, click_vars>>
    BY DEF PickUp
  <1>2. WindowsOK'
    BY <1>1 DEF WindowsOK, window_vars
  <1>3. ClicksOK'
    BY <1>1, ClicksSame DEF click_vars
  <1>4. HeldOK'
    <2>1. PICK k : k = pack[p]
      OBVIOUS
    <2>2. Added(k, 1) \in Stack
      BY <2>1, AddedIs DEF HeldOK
    <2> QED
      BY <1>1, <2>1, <2>2 DEF HeldOK
  <1>5. GroundOK'
    BY <1>1 DEF GroundOK
  <1> QED
    BY <1>2, <1>3, <1>4, <1>5

LEMMA AttractInv ==
    ASSUME ItemsAssumption, ItemsInv, Attract
    PROVE  ItemsInv' /\ given' # given
  <1> USE DEF ItemsInv
  <1>1. PICK near \in SUBSET (Players \X dropped) :
            LET got(p) == Cardinality({n \in near : n[1] = p})
                gave == {n[2] : n \in near}
            IN /\ near # {} /\ \A d \in gave : given[d] < MaxPasses
               /\ pack' = [p \in Players |-> Added(pack[p], got(p))]
               /\ given' = [d \in DropIds |-> IF d \in gave THEN given[d] + 1 ELSE given[d]]
               /\ UNCHANGED <<window_vars, dropped, drops, reach, cursor, click_vars>>
    BY DEF Attract
  <1>2. PICK gave : gave = {n[2] : n \in near}
    OBVIOUS
  <1>3. /\ near # {} /\ \A d \in gave : given[d] < MaxPasses
        /\ given' = [d \in DropIds |-> IF d \in gave THEN given[d] + 1 ELSE given[d]]
        /\ UNCHANGED <<window_vars, dropped, drops, reach, cursor, click_vars>>
    BY <1>1, <1>2
  <1>4. pack' = [p \in Players |-> Added(pack[p], Cardinality({n \in near : n[1] = p}))]
    BY <1>1
  <1>5. IsFiniteSet(dropped) /\ dropped \subseteq DropIds
    BY DroppedIs
  <1>6. \A p \in Players : Cardinality({n \in near : n[1] = p}) \in Nat
    <2>1. PICK onGround : onGround = dropped
      OBVIOUS
    <2>2. IsFiniteSet(Players \X onGround)
      BY <1>5, <2>1, FS_Product DEF ItemsAssumption
    <2>3. \A p \in Players : {n \in near : n[1] = p} \in SUBSET (Players \X onGround)
      BY <2>1
    <2>4. \A p \in Players : IsFiniteSet({n \in near : n[1] = p})
      BY <2>2, <2>3, FS_Subset
    <2> QED
      BY <2>4, FS_CardinalityType
  <1>7. HeldOK'
    <2>1. \A p \in Players : Added(pack[p], Cardinality({n \in near : n[1] = p})) \in Stack
      <3> SUFFICES ASSUME NEW p \in Players PROVE Added(pack[p], Cardinality({n \in near : n[1] = p})) \in Stack
        OBVIOUS
      <3>1. PICK k, n : k = pack[p] /\ n = Cardinality({m \in near : m[1] = p})
        OBVIOUS
      <3>2. k \in Stack /\ n \in Nat
        BY <1>6, <3>1 DEF HeldOK
      <3>3. Added(k, n) \in Stack
        BY <3>2, AddedIs
      <3> QED
        BY <3>1, <3>3
    <2> QED
      BY <1>3, <1>4, <2>1 DEF HeldOK
  <1>8. WindowsOK' /\ ClicksOK'
    BY <1>3, ClicksSame DEF WindowsOK, window_vars, click_vars
  <1>9. GroundOK'
    <2>1. MaxPasses \in Nat
      BY DEF ItemsAssumption
    <2>2. \A d \in DropIds : given[d] \in 0..MaxPasses
      BY DEF GroundOK
    <2>3. given' \in [DropIds -> 0..MaxPasses]
      BY <1>3, <2>1, <2>2
    <2> QED
      BY <1>3, <2>3 DEF GroundOK
  <1>10. given' # given
    <2>1. PICK d : d \in gave /\ d \in dropped
      BY <1>2, <1>3
    <2>2. d \in DropIds /\ given[d] \in Nat
      BY <1>5, <2>1 DEF GroundOK
    <2>3. given'[d] = given[d] + 1
      BY <1>3, <2>1, <2>2
    <2> QED
      BY <2>2, <2>3
  <1> QED
    BY <1>7, <1>8, <1>9, <1>10

LEMMA MergeInv ==
    ASSUME ItemsAssumption, ItemsInv, Merge
    PROVE  ItemsInv'
  <1> USE DEF ItemsInv
  <1>1. dropped' \subseteq dropped /\ UNCHANGED <<window_vars, drops, reach, given, cursor, pack, click_vars>>
    BY DEF Merge
  <1>2. WindowsOK' /\ HeldOK' /\ ClicksOK'
    BY <1>1, ClicksSame DEF WindowsOK, HeldOK, window_vars, click_vars
  <1>3. GroundOK'
    BY <1>1 DEF GroundOK
  <1> QED
    BY <1>2, <1>3

LEMMA ItemsStep == ItemsAssumption /\ ItemsInv /\ [Next]_vars => ItemsInv'
  <1> SUFFICES ASSUME ItemsAssumption, ItemsInv, [Next]_vars PROVE ItemsInv'
    OBVIOUS
  <1>1. CASE UNCHANGED vars
    BY <1>1, ClicksSame DEF ItemsInv, WindowsOK, HeldOK, GroundOK, vars, window_vars, ground_vars, click_vars
  <1>2. ASSUME NEW p \in Players, NEW q \in Places, Open(p, q) PROVE ItemsInv'
    BY <1>2, OpenInv
  <1>3. ASSUME NEW p \in Players, NEW w \in shown[p], Close(p, w) PROVE ItemsInv'
    BY <1>3, CloseInv
  <1>4. ASSUME NEW p \in Players, Rejoin(p) PROVE ItemsInv'
    BY <1>4, RejoinInv
  <1>5. ASSUME NEW p \in Players, NEW w \in shown[p], NEW s \in WindowSlots, NEW mode \in Modes, ClickRead(p, w, s, mode)
        PROVE ItemsInv'
    BY <1>5, ClickReadInv
  <1>6. ASSUME NEW p \in Players, ClickWrite(p) \/ CollectWrite(p) PROVE ItemsInv'
    BY <1>6, ClickWriteInv, CollectWriteInv
  <1>7. ASSUME NEW p \in Players, FindNear(p) \/ PickUp(p) PROVE ItemsInv'
    BY <1>7, FindNearInv, PickUpInv
  <1>8. ASSUME NEW h \in Hoppers, Hopper(h[1], h[2]) PROVE ItemsInv'
    <2>1. PICK a, b : a = h[1] /\ b = h[2] /\ a \in Places /\ b \in Places /\ a # b
      BY DEF ItemsAssumption
    <2> QED
      BY <1>8, <2>1, HopperInv
  <1>9. CASE Attract \/ Merge
    BY <1>9, AttractInv, MergeInv
  <1> QED
    BY <1>1, <1>2, <1>3, <1>4, <1>5, <1>6, <1>7, <1>8, <1>9 DEF Next

(* No stack is ever larger than a stack may be, however clicks, hoppers,   *)
(* pickups and attraction meet: a click writes a slot, the cursor and the  *)
(* inventory after it let go of them (ContainerClick in play_loop.rs,      *)
(* set_slot in container.rs, the hoppers and the attraction of main.rs).   *)
THEOREM StacksStayStacks == Spec => []TypeOK
  <1>1. Init => ItemsInv
    BY ItemsInit, ItemsAssumption
  <1>2. ItemsInv /\ [Next]_vars => ItemsInv'
    BY ItemsStep, ItemsAssumption
  <1>3. ItemsInv => TypeOK
    BY ItemsInvType, ItemsAssumption
  <1> QED
    BY <1>1, <1>2, <1>3, PTL DEF Spec

-----------------------------------------------------------------------------
(* How many items there are, before and after a step                       *)

LEMMA HeldIs ==
    ASSUME ItemsAssumption, NEW f \in [Players -> Stack]
    PROVE  /\ Counts(f) /\ Total(f) \in Nat
           /\ \A p \in Players : \A v \in Stack :
                f[p] \in Nat /\ v \in Nat /\ Total([f EXCEPT ![p] = v]) = Total(f) - f[p] + v
  <1>1. MaxStack \in Nat /\ IsFiniteSet(Players) /\ Stack \subseteq Nat
    BY DEF ItemsAssumption, Stack
  <1>2. \A g \in [Players -> Stack] : Counts(g)
    BY <1>1 DEF Counts
  <1>3. ASSUME NEW p \in Players, NEW v \in Stack PROVE Total([f EXCEPT ![p] = v]) = Total(f) - f[p] + v
    <2>1. PICK g : g = [f EXCEPT ![p] = v]
      OBVIOUS
    <2>2. g \in [Players -> Stack] /\ g[p] = v /\ \A q \in DOMAIN f \ {p} : f[q] = g[q]
      BY <2>1
    <2>3. Counts(f) /\ Counts(g) /\ DOMAIN f = DOMAIN g /\ p \in DOMAIN f
      BY <1>2, <2>2
    <2>4. Total(g) = Total(f) - f[p] + g[p]
      BY <2>2, <2>3, TotalChange
    <2> QED
      BY <2>1, <2>2, <2>4
  <1> QED
    BY <1>1, <1>2, <1>3, TotalType

\* The parts of the count.
LEMMA CountIs ==
    ASSUME ItemsAssumption, ItemsInv
    PROVE  /\ ItemCount = Total(pack) + Total(cursor) + Cardinality(dropped) + InAll(containers, stored)
           /\ Total(pack) \in Nat /\ Total(cursor) \in Nat /\ Cardinality(dropped) \in Nat
           /\ InAll(containers, stored) \in Nat
  <1>1. PICK c, st : c = containers /\ st = stored
    OBVIOUS
  <1>2. Shelves(c) /\ Stocked(st)
    BY <1>1 DEF ItemsInv, WindowsOK
  <1>3. Total(SumsOf(c)) \in Nat /\ Total(KeptOf(c, st)) \in Nat
    BY <1>2, SumsCount, TotalType
  <1>4. Total(pack) \in Nat /\ Total(cursor) \in Nat
    BY HeldIs DEF ItemsInv, HeldOK
  <1>5. Cardinality(dropped) \in Nat
    BY DroppedIs DEF ItemsInv
  <1>6. {r \in Places : WindowsAt(r) = {}} = Unopened(c)
    BY <1>1 DEF WindowsAt, Unopened
  <1>7. ItemCount = Total(pack) + Total(cursor) + Cardinality(dropped) + Total(SumsOf(c)) + Total(KeptOf(c, st))
    BY <1>1, <1>6 DEF ItemCount, SumsOf, KeptOf
  <1> QED
    BY <1>1, <1>3, <1>4, <1>5, <1>7 DEF InAll

LEMMA CountIsNext ==
    ASSUME ItemsAssumption, ItemsInv'
    PROVE  /\ ItemCount' = Total(pack') + Total(cursor') + Cardinality(dropped') + InAll(containers', stored')
           /\ Total(pack') \in Nat /\ Total(cursor') \in Nat /\ Cardinality(dropped') \in Nat
           /\ InAll(containers', stored') \in Nat
  <1>1. PICK c : c = containers'
    OBVIOUS
  <1>2. PICK st : st = stored'
    OBVIOUS
  <1>3. PICK pk : pk = pack'
    OBVIOUS
  <1>4. PICK cu : cu = cursor'
    OBVIOUS
  <1>5. PICK dr : dr = dropped'
    OBVIOUS
  <1>6. Shelves(c) /\ Stocked(st)
    BY <1>1, <1>2 DEF ItemsInv, WindowsOK
  <1>7. Total(SumsOf(c)) \in Nat /\ Total(KeptOf(c, st)) \in Nat
    BY <1>6, SumsCount, TotalType
  <1>8. Total(pk) \in Nat /\ Total(cu) \in Nat
    <2>1. pk \in [Players -> Stack] /\ cu \in [Players -> Stack]
      BY <1>3, <1>4 DEF ItemsInv, HeldOK
    <2> QED
      BY <2>1, HeldIs
  <1>9. Cardinality(dr) \in Nat
    <2>1. PICK n : n = drops'
      OBVIOUS
    <2>2. n \in Nat /\ dr \subseteq 1..n
      BY <1>5, <2>1 DEF ItemsInv, GroundOK, ItemsAssumption
    <2>3. IsFiniteSet(1..n)
      BY <2>2, FS_Interval
    <2> QED
      BY <2>2, <2>3, FS_Subset, FS_CardinalityType
  <1>10. {r \in Places : WindowsAt(r)' = {}} = Unopened(c)
    BY <1>1 DEF WindowsAt, Unopened
  <1>11. ItemCount' = Total(pk) + Total(cu) + Cardinality(dr) + Total(SumsOf(c)) + Total(KeptOf(c, st))
    BY <1>1, <1>2, <1>3, <1>4, <1>5, <1>10 DEF ItemCount, SumsOf, KeptOf, WindowsAt, Unopened
  <1>12. InAll(c, st) = Total(SumsOf(c)) + Total(KeptOf(c, st))
    BY DEF InAll
  <1> QED
    BY <1>1, <1>2, <1>3, <1>4, <1>5, <1>7, <1>8, <1>9, <1>11, <1>12

LEMMA OpenCount ==
    ASSUME ItemsAssumption, ItemsInv, NEW p \in Players, NEW q \in Places, Open(p, q),
           nextWindow \notin DOMAIN containers, WindowsAt(q) = {}
    PROVE  ItemCount' = ItemCount
  <1>1. PICK n, c, st : n = nextWindow /\ c = containers /\ st = stored
    OBVIOUS
  <1>2. PICK d : d = containers'
    OBVIOUS
  <1>3. d = With(c, n, [owner |-> p, place |-> q, slots |-> st[q]]) /\ n \notin DOMAIN c
    BY <1>1, <1>2 DEF Open
  <1>4. DOMAIN d = DOMAIN c \cup {n} /\ d[n].place = q /\ d[n].slots = st[q] /\ \A v \in DOMAIN c : c[v] = d[v]
    BY <1>3 DEF With
  <1>5. q \in Unopened(c)
    BY <1>1 DEF WindowsAt, Unopened
  <1>6. Shelves(c) /\ Stocked(st)
    BY <1>1 DEF ItemsInv, WindowsOK
  <1>7. ItemsInv'
    BY OpenInv
  <1>8. Shelves(d)
    BY <1>2, <1>7 DEF ItemsInv, WindowsOK
  <1>9. InAll(d, st) = InAll(c, st)
    BY <1>3, <1>4, <1>5, <1>6, <1>8, ShelfOpens
  <1>10. stored' = stored /\ pack' = pack /\ cursor' = cursor /\ dropped' = dropped
    BY DEF Open, ground_vars
  <1>11. ItemCount = Total(pack) + Total(cursor) + Cardinality(dropped) + InAll(c, st)
    BY <1>1, CountIs
  <1>12. ItemCount' = Total(pack') + Total(cursor') + Cardinality(dropped') + InAll(containers', stored')
    BY <1>7, CountIsNext
  <1>13. InAll(containers', stored') = InAll(d, st)
    BY <1>1, <1>2, <1>10
  <1> QED
    BY <1>9, <1>10, <1>11, <1>12, <1>13

LEMMA CursorFallsCount ==
    ASSUME ItemsAssumption, HeldOK, GroundOK, NEW p \in Players, CursorFalls(p), given' = given, reach' = reach
    PROVE  Total(cursor') + Cardinality(dropped') <= Total(cursor) + Cardinality(dropped)
  <1>1. 0 \in Stack
    BY DEF Stack, ItemsAssumption
  <1>2. PICK cu : cu = cursor
    OBVIOUS
  <1>3. Total([cu EXCEPT ![p] = 0]) = Total(cu) - cu[p] + 0 /\ cu[p] \in Nat /\ Total(cu) \in Nat
    BY <1>1, <1>2, HeldIs DEF HeldOK
  <1>4. cursor' = [cu EXCEPT ![p] = 0]
    BY <1>2 DEF CursorFalls
  <1>5. Total(cursor') = Total(cu) - cu[p]
    BY <1>3, <1>4
  <1>6. Cardinality(dropped) \in Nat
    BY DroppedIs
  <1>7. CASE cu[p] > 0
    <2>1. Cardinality(dropped') = Cardinality(dropped) + 1
      BY <1>2, <1>7, DropOneIs DEF CursorFalls
    <2> QED
      BY <1>2, <1>3, <1>5, <1>6, <1>7, <2>1
  <1>8. CASE ~(cu[p] > 0)
    <2>1. dropped' = dropped
      BY <1>2, <1>8 DEF CursorFalls
    <2> QED
      BY <1>2, <1>3, <1>5, <1>6, <2>1
  <1> QED
    BY <1>7, <1>8

LEMMA CloseCount ==
    ASSUME ItemsAssumption, ItemsInv, NEW p \in Players, NEW w \in shown[p], Close(p, w)
    PROVE  ItemCount' <= ItemCount
  <1>1. PICK c, st : c = containers /\ st = stored
    OBVIOUS
  <1>2. PICK d : d = containers'
    OBVIOUS
  <1>3. PICK su : su = stored'
    OBVIOUS
  <1>4. ItemsInv'
    BY CloseInv
  <1>5. Shelves(c) /\ Stocked(st) /\ Shelves(d) /\ Stocked(su) /\ DOMAIN st = Places
    BY <1>1, <1>2, <1>3, <1>4 DEF ItemsInv, WindowsOK
  <1>6. d = Without(c, w)
    BY <1>1, <1>2 DEF Close
  <1>7. InAll(d, su) <= InAll(c, st)
    <2>1. CASE w \in DOMAIN c
      <3>1. PICK pl, s : pl = c[w].place /\ s = c[w].slots
        OBVIOUS
      <3>2. su = [st EXCEPT ![pl] = s]
        BY <1>1, <1>3, <2>1, <3>1 DEF Close
      <3>3. pl \in Places
        BY <1>5, <2>1, <3>1 DEF Shelves, IsWindow
      <3>4. su[c[w].place] = c[w].slots /\ \A q \in Places \ {c[w].place} : su[q] = st[q]
        BY <1>5, <3>1, <3>2, <3>3
      <3>5. DOMAIN d = DOMAIN c \ {w} /\ \A v \in DOMAIN d : c[v] = d[v]
        BY <1>6 DEF Without
      <3> QED
        BY <1>5, <2>1, <3>4, <3>5, ShelfCloses
    <2>2. CASE w \notin DOMAIN c
      <3>1. su = st
        BY <1>1, <1>3, <2>2 DEF Close
      <3>2. DOMAIN d = DOMAIN c /\ \A v \in DOMAIN c : c[v] = d[v]
        BY <1>6, <2>2 DEF Without
      <3>3. SumsOf(c) = SumsOf(d) /\ Unopened(c) = Unopened(d)
        BY <3>2 DEF SumsOf, Unopened
      <3>4. InAll(c, st) = InAll(d, su)
        BY <3>1, <3>3 DEF InAll, KeptOf
      <3>5. InAll(c, st) \in Nat
        BY <1>1, CountIs
      <3> QED
        BY <3>4, <3>5
    <2> QED
      BY <2>1, <2>2
  <1>8. Total(cursor') + Cardinality(dropped') <= Total(cursor) + Cardinality(dropped) /\ pack' = pack
    BY CursorFallsCount DEF ItemsInv, Close, CursorFalls
  <1>9. /\ ItemCount = Total(pack) + Total(cursor) + Cardinality(dropped) + InAll(c, st)
        /\ Total(pack) \in Nat /\ Total(cursor) \in Nat /\ Cardinality(dropped) \in Nat /\ InAll(c, st) \in Nat
    BY <1>1, CountIs
  <1>10. /\ ItemCount' = Total(pack') + Total(cursor') + Cardinality(dropped') + InAll(d, su)
         /\ Total(cursor') \in Nat /\ Cardinality(dropped') \in Nat /\ InAll(d, su) \in Nat
    BY <1>2, <1>3, <1>4, CountIsNext
  <1> QED
    BY <1>7, <1>8, <1>9, <1>10, SMTT(40)

LEMMA RejoinCount ==
    ASSUME ItemsAssumption, ItemsInv, NEW p \in Players, Rejoin(p)
    PROVE  ItemCount' <= ItemCount
  <1>1. PICK cu : cu = cursor
    OBVIOUS
  <1>2. 0 \in Stack
    BY DEF Stack, ItemsAssumption
  <1>3. Total([cu EXCEPT ![p] = 0]) = Total(cu) - cu[p] + 0 /\ cu[p] \in Nat /\ Total(cu) \in Nat
    BY <1>1, <1>2, HeldIs DEF ItemsInv, HeldOK
  <1>4. cursor' = [cu EXCEPT ![p] = 0]
    BY <1>1 DEF Rejoin
  <1>5. Total(cursor') <= Total(cursor) /\ Total(cursor') \in Nat
    <2>1. Total(cursor') = Total(cu) - cu[p]
      BY <1>3, <1>4
    <2>2. ItemsInv'
      BY RejoinInv
    <2> QED
      BY <1>1, <1>3, <2>1, <2>2, CountIsNext
  <1>6. containers' = containers /\ stored' = stored /\ dropped' = dropped /\ pack' = pack
    BY DEF Rejoin, ground_vars
  <1>7. /\ ItemCount = Total(pack) + Total(cursor) + Cardinality(dropped) + InAll(containers, stored)
        /\ Total(pack) \in Nat /\ Total(cursor) \in Nat /\ Cardinality(dropped) \in Nat
        /\ InAll(containers, stored) \in Nat
    BY CountIs
  <1>8. ItemCount' = Total(pack') + Total(cursor') + Cardinality(dropped') + InAll(containers', stored')
    BY RejoinInv, CountIsNext
  <1>9. ItemCount' = Total(pack) + Total(cursor') + Cardinality(dropped) + InAll(containers, stored)
    BY <1>6, <1>8
  <1> QED
    BY <1>5, <1>7, <1>9

LEMMA HopperCount ==
    ASSUME ItemsAssumption, ItemsInv, NEW above \in Places, NEW below \in Places, above # below, Hopper(above, below)
    PROVE  ItemCount' <= ItemCount
  <1>1. PICK src, dst, s, t : Flows(containers, containers', src, dst, s, t)
    BY HopperFlows DEF ItemsInv
  <1>2. stored' = stored /\ pack' = pack /\ cursor' = cursor /\ dropped' = dropped
    BY HopperFlows DEF ItemsInv, ground_vars
  <1>3. PICK c, st : c = containers /\ st = stored
    OBVIOUS
  <1>4. PICK d : d = containers'
    OBVIOUS
  <1>5. Shelves(c) /\ Stocked(st) /\ Flows(c, d, src, dst, s, t)
    BY <1>1, <1>3, <1>4 DEF ItemsInv, WindowsOK
  <1>6. InAll(d, st) <= InAll(c, st)
    BY <1>5, FlowsIs
  <1>7. /\ ItemCount = Total(pack) + Total(cursor) + Cardinality(dropped) + InAll(c, st)
        /\ Total(pack) \in Nat /\ Total(cursor) \in Nat /\ Cardinality(dropped) \in Nat /\ InAll(c, st) \in Nat
    BY <1>3, CountIs
  <1>8. ItemCount' = Total(pack') + Total(cursor') + Cardinality(dropped') + InAll(containers', stored') /\ InAll(containers', stored') \in Nat
    BY HopperInv, CountIsNext
  <1>9. ItemCount' = Total(pack) + Total(cursor) + Cardinality(dropped) + InAll(d, st) /\ InAll(d, st) \in Nat
    BY <1>2, <1>3, <1>4, <1>8
  <1> QED
    BY <1>6, <1>7, <1>9

LEMMA PickUpCount ==
    ASSUME ItemsAssumption, ItemsInv, NEW p \in Players, PickUp(p),
           \A d \in reach[p] \ reach'[p] : d \in dropped
    PROVE  ItemCount' <= ItemCount
  <1>1. PICK d \in reach[p] : /\ pack' = [pack EXCEPT ![p] = Added(@, 1)] /\ dropped' = dropped \ {d}
                              /\ reach' = [reach EXCEPT ![p] = @ \ {d}]
                              /\ UNCHANGED <<window_vars, drops, given, cursor, click_vars>>
    BY DEF PickUp
  <1>2. d \in dropped
    BY <1>1 DEF ItemsInv, GroundOK
  <1>3. Cardinality(dropped') = Cardinality(dropped) - 1
    BY <1>1, <1>2, DroppedIs, FS_RemoveElement DEF ItemsInv
  <1>4. PICK pk, v : pk = pack /\ v = Added(pack[p], 1)
    OBVIOUS
  <1>5. pk \in [Players -> Stack] /\ v \in Stack /\ v <= pk[p] + 1 /\ pk[p] \in Nat
    <2>1. pk \in [Players -> Stack]
      BY <1>4 DEF ItemsInv, HeldOK
    <2>2. PICK k : k = pk[p] /\ k \in Stack
      BY <2>1
    <2>3. Added(k, 1) \in Stack /\ Added(k, 1) <= k + 1 /\ k \in Nat
      BY <2>2, AddedIs
    <2> QED
      BY <1>4, <2>1, <2>2, <2>3
  <1>6. Total([pk EXCEPT ![p] = v]) = Total(pk) - pk[p] + v /\ Total(pk) \in Nat /\ v \in Nat
    BY <1>5, HeldIs
  <1>7. pack' = [pk EXCEPT ![p] = v]
    BY <1>1, <1>4
  <1>8. Total(pack') <= Total(pack) + 1
    BY <1>4, <1>5, <1>6, <1>7
  <1>9. containers' = containers /\ stored' = stored /\ cursor' = cursor
    BY <1>1 DEF window_vars
  <1>10. /\ ItemCount = Total(pack) + Total(cursor) + Cardinality(dropped) + InAll(containers, stored)
         /\ Total(pack) \in Nat /\ Total(cursor) \in Nat /\ Cardinality(dropped) \in Nat
         /\ InAll(containers, stored) \in Nat
    BY CountIs
  <1>11. /\ ItemCount' = Total(pack') + Total(cursor') + Cardinality(dropped') + InAll(containers', stored')
         /\ Total(pack') \in Nat
    BY PickUpInv, CountIsNext
  <1>12. ItemCount' = Total(pack') + Total(cursor) + Cardinality(dropped') + InAll(containers, stored)
    BY <1>9, <1>11
  <1> QED
    BY <1>3, <1>8, <1>10, <1>11, <1>12, SMTT(40)

LEMMA MergeCount ==
    ASSUME ItemsAssumption, ItemsInv, Merge
    PROVE  ItemCount' <= ItemCount
  <1>1. /\ dropped' \subseteq dropped /\ containers' = containers /\ stored' = stored
        /\ pack' = pack /\ cursor' = cursor
    BY DEF Merge, window_vars
  <1>2. PICK f, g : f = dropped /\ g \in SUBSET dropped /\ g = dropped'
    BY <1>1
  <1>3. Cardinality(g) <= Cardinality(f)
    <2>1. IsFiniteSet(f) /\ g \in SUBSET f
      BY <1>2, DroppedIs DEF ItemsInv
    <2> QED
      BY <2>1, FS_Subset
  <1>4. /\ ItemCount = Total(pack) + Total(cursor) + Cardinality(dropped) + InAll(containers, stored)
        /\ Total(pack) \in Nat /\ Total(cursor) \in Nat /\ Cardinality(dropped) \in Nat
        /\ InAll(containers, stored) \in Nat
    BY CountIs
  <1>5. /\ ItemCount' = Total(pack') + Total(cursor') + Cardinality(dropped') + InAll(containers', stored')
        /\ Cardinality(dropped') \in Nat
    BY MergeInv, CountIsNext
  <1>6. ItemCount' = Total(pack) + Total(cursor) + Cardinality(dropped') + InAll(containers, stored)
    BY <1>1, <1>5
  <1> QED
    BY <1>2, <1>3, <1>4, <1>5, <1>6

LEMMA SameCount ==
    ASSUME UNCHANGED <<containers, stored, pack, cursor, dropped>>
    PROVE  ItemCount' = ItemCount
  BY DEF ItemCount, WindowsAt

\* A click that has nothing against keeping every item.
Whole(p) ==
    /\ click[p].window \in DOMAIN containers
    /\ click[p].slot \in DOMAIN click[p].slots /\ click[p].mode # "dropStack"
    /\ click[p].mode = "shift" => pack[p] + click[p].slots[click[p].slot] <= MaxStack

LEMMA Adding ==
    ASSUME NEW a \in Int, NEW b \in Int, NEW i \in Int, NEW j \in Int, NEW k \in Int, NEW h \in Int, NEW n \in Int,
           NEW o \in Int, NEW rs \in Int, NEW rh \in Int, NEW rp \in Int
    PROVE  a - k + rp + (b - h + rh) + (i + o) + (j - n + rs) = a + b + i + j - (n + h + k) + (rs + rh + rp + o)
  OBVIOUS

LEMMA ClickWriteCount ==
    ASSUME ItemsAssumption, ItemsInv, NEW p \in Players, ClickWrite(p), Fresh(p)
    PROVE  ItemCount' <= ItemCount /\ (Whole(p) => ItemCount' = ItemCount)
  <1>1. PICK e, n, h, k : e = click[p] /\ n = Count(e.slots, e.slot) /\ h = cursor[p] /\ k = pack[p]
    OBVIOUS
  <1>2. PICK r, new, w : r = Result(e.mode, n, h, k) /\ new = [s \in {e.slot} |-> r.slot] /\ w = e.window
    OBVIOUS
  <1>3. e # NoClick /\ e.mode # "collect"
    BY <1>1 DEF ClickWrite
  <1>4. IsClick(e, h)
    BY <1>1, <1>3 DEF ItemsInv, ClicksOK
  <1>5. n \in 0..MaxStack /\ h \in 0..MaxStack /\ k \in 0..MaxStack /\ MaxStack \in Nat
    BY <1>1, <1>4, ReadCounts DEF IsClick, ItemsInv, HeldOK, Stack, ItemsAssumption
  <1>6. Leaves(r, Out(e.mode), n, h, k, Keeps(e.mode, n, k))
    <2>1. e.mode \in Modes \ {"collect"}
      BY <1>3, <1>4 DEF IsClick
    <2>2. e.mode \in {"shift", "dropOne", "dropStack"} => n > 0
      BY <1>1, <1>4 DEF IsClick
    <2>3. (e.mode = "right" /\ h > 0 => n < MaxStack) /\ (e.mode = "spread" => n = 0)
      BY <1>1, <1>4 DEF IsClick
    <2>4. PICK mode : mode = e.mode
      OBVIOUS
    <2> QED
      BY <1>2, <1>5, <2>1, <2>2, <2>3, <2>4, ResultIs
  <1>7. r.slot \in Stack /\ r.hand \in Stack /\ r.pack \in Stack /\ Stack \subseteq Nat
    BY <1>5, <1>6 DEF Leaves, Stack
  <1>8. SetSlots(w, new) /\ \A s \in DOMAIN new : new[s] \in Stack
    BY <1>1, <1>2, <1>7 DEF ClickWrite
  <1>9. PICK c, st : c = containers /\ st = stored
    OBVIOUS
  <1>10. PICK d : d = containers'
    OBVIOUS
  <1>11. Shelves(c) /\ Stocked(st) /\ Shelves(d) /\ WindowsOK
    BY <1>9, <1>10, ClickWriteInv DEF ItemsInv, WindowsOK
  <1>12. /\ DOMAIN d = DOMAIN c /\ \A v \in DOMAIN c : d[v].place = c[v].place
         /\ \A v \in DOMAIN c \ {w} : d[v] = c[v]
         /\ w \in DOMAIN c =>
              d[w].slots = [s \in DOMAIN c[w].slots |-> IF s \in DOMAIN new THEN new[s] ELSE c[w].slots[s]]
    BY <1>8, <1>9, <1>10, <1>11, SetSlotsIs
  <1>13. e.slots = IF w \in DOMAIN c THEN c[w].slots ELSE [s \in {} |-> 0]
    BY <1>1, <1>2, <1>9 DEF Fresh, SlotsOf
  <1>14. InAll(c, st) \in Nat
    BY <1>9, CountIs
  <1>15. /\ ItemCount = Total(pack) + Total(cursor) + Cardinality(dropped) + InAll(c, st)
         /\ Total(pack) \in Nat /\ Total(cursor) \in Nat /\ Cardinality(dropped) \in Nat
    BY <1>9, CountIs
  <1>16. ItemCount' = Total(pack) - k + r.pack + (Total(cursor) - h + r.hand) + (Cardinality(dropped) + Out(e.mode)) + InAll(d, st)
    <2>1. stored' = st
      BY <1>9 DEF ClickWrite
    <2>2. Total(cursor') = Total(cursor) - h + r.hand
      <3>1. PICK f : f = cursor /\ f \in [Players -> Stack]
        BY DEF ItemsInv, HeldOK
      <3>2. Total([f EXCEPT ![p] = r.hand]) = Total(f) - f[p] + r.hand
        BY <1>7, <3>1, HeldIs
      <3>3. cursor' = [f EXCEPT ![p] = r.hand]
        BY <1>1, <1>2, <3>1 DEF ClickWrite
      <3> QED
        BY <1>1, <3>1, <3>2, <3>3
    <2>3. Total(pack') = Total(pack) - k + r.pack
      <3>1. PICK f : f = pack /\ f \in [Players -> Stack]
        BY DEF ItemsInv, HeldOK
      <3>2. Total([f EXCEPT ![p] = r.pack]) = Total(f) - f[p] + r.pack
        BY <1>7, <3>1, HeldIs
      <3>3. pack' = [f EXCEPT ![p] = r.pack]
        BY <1>1, <1>2, <3>1 DEF ClickWrite
      <3> QED
        BY <1>1, <3>1, <3>2, <3>3
    <2>4. Cardinality(dropped') = Cardinality(dropped) + Out(e.mode)
      <3>1. CASE e.mode \in {"dropOne", "dropStack"}
        <4>1. DropOne /\ given' = given /\ reach' = reach
          BY <1>1, <3>1 DEF ClickWrite
        <4> QED
          BY <3>1, <4>1, DropOneIs DEF ItemsInv, Out
      <3>2. CASE e.mode \notin {"dropOne", "dropStack"}
        <4>1. dropped' = dropped
          BY <1>1, <3>2 DEF ClickWrite
        <4>2. Out(e.mode) = 0
          BY <3>2 DEF Out
        <4> QED
          BY <1>15, <4>1, <4>2
      <3> QED
        BY <3>1, <3>2
    <2>5. ItemCount' = Total(pack') + Total(cursor') + Cardinality(dropped') + InAll(containers', stored')
      BY ClickWriteInv, CountIsNext
    <2> QED
      BY <1>10, <2>1, <2>2, <2>3, <2>4, <2>5
  <1>17. /\ Out(e.mode) \in Nat /\ k \in Nat /\ h \in Nat /\ n \in Nat
         /\ r.slot \in Nat /\ r.hand \in Nat /\ r.pack \in Nat
    <2>1. Out(e.mode) \in Nat
      BY DEF Out
    <2>2. k \in Nat /\ h \in Nat /\ n \in Nat
      BY <1>5
    <2>3. r.slot \in Nat /\ r.hand \in Nat /\ r.pack \in Nat
      BY <1>7
    <2> QED
      BY <2>1, <2>2, <2>3
  <1>18. PICK a, b, i, j, o, rs, rh, rp : /\ a = Total(pack) /\ b = Total(cursor) /\ i = Cardinality(dropped)
                                         /\ j = InAll(c, st) /\ o = Out(e.mode)
                                         /\ rs = r.slot /\ rh = r.hand /\ rp = r.pack
    OBVIOUS
  <1>19. /\ a \in Nat /\ b \in Nat /\ i \in Nat /\ j \in Nat /\ o \in Nat
         /\ rs \in Nat /\ rh \in Nat /\ rp \in Nat /\ k \in Nat /\ h \in Nat /\ n \in Nat
    BY <1>14, <1>15, <1>17, <1>18
  <1>20. ItemCount = a + b + i + j /\ ItemCount' = a - k + rp + (b - h + rh) + (i + o) + InAll(d, st)
    BY <1>15, <1>16, <1>18
  <1>21. CASE w \in DOMAIN c /\ e.slot \in DOMAIN e.slots
    <2>1. PICK f, g : f = c[w].slots /\ g = d[w].slots
      OBVIOUS
    <2>2. f = e.slots /\ g = [s \in DOMAIN f |-> IF s = e.slot THEN r.slot ELSE f[s]]
      BY <1>2, <1>12, <1>13, <1>21, <2>1
    <2>3. Counts(f) /\ Counts(g) /\ Total(f) \in Nat /\ Total(g) \in Nat
      BY <1>11, <1>12, <1>21, <2>1, SumsCount
    <2>4. DOMAIN f = DOMAIN g /\ e.slot \in DOMAIN f /\ g[e.slot] = r.slot /\ f[e.slot] = n
          /\ \A s \in DOMAIN f \ {e.slot} : f[s] = g[s]
      BY <1>1, <1>21, <2>2 DEF Count
    <2>5. Total(g) = Total(f) - n + r.slot
      BY <2>3, <2>4, TotalChange
    <2>6. InAll(d, st) = InAll(c, st) - Total(f) + Total(g)
      BY <1>11, <1>12, <1>21, <2>1, OneShelfChanges
    <2>7. InAll(d, st) = InAll(c, st) - n + r.slot
      BY <1>14, <1>17, <2>3, <2>5, <2>6
    <2>8. r.slot + r.hand + r.pack + Out(e.mode) <= n + h + k
      BY <1>6 DEF Leaves
    <2>9. Whole(p) => r.slot + r.hand + r.pack + Out(e.mode) = n + h + k
      <3> SUFFICES ASSUME Whole(p) PROVE Keeps(e.mode, n, k)
        BY <1>6 DEF Leaves
      <3> QED
        BY <1>1, <2>4 DEF Whole, Keeps, Count
    <2>10. InAll(d, st) = j - n + rs
      BY <1>18, <2>7
    <2>11. ItemCount' = a + b + i + j - (n + h + k) + (rs + rh + rp + o)
      BY <1>19, <1>20, <2>10, Adding
    <2>12. rs + rh + rp + o <= n + h + k /\ (Whole(p) => rs + rh + rp + o = n + h + k)
      BY <1>18, <2>8, <2>9
    <2> QED
      BY <1>19, <1>20, <2>11, <2>12
  <1>22. CASE ~(w \in DOMAIN c /\ e.slot \in DOMAIN e.slots)
    <2>1. n = 0
      BY <1>1, <1>13, <1>22 DEF Count
    <2>2. r.hand + r.pack + Out(e.mode) <= h + k
      <3>1. r.slot + r.hand + r.pack + Out(e.mode) <= n + h + k
        BY <1>6 DEF Leaves
      <3> QED
        BY <1>17, <2>1, <3>1
    <2>3. InAll(d, st) = InAll(c, st)
      <3>1. CASE w \notin DOMAIN c
        <4>1. d = c
          BY <1>8, <1>9, <1>10, <3>1 DEF SetSlots
        <4> QED
          BY <4>1
      <3>2. CASE w \in DOMAIN c
        <4>1. PICK f, g : f = c[w].slots /\ g = d[w].slots
          OBVIOUS
        <4>2. e.slot \notin DOMAIN f /\ g = [s \in DOMAIN f |-> f[s]]
          BY <1>2, <1>12, <1>13, <1>22, <3>2, <4>1
        <4>3. Counts(f) /\ Total(f) \in Nat
          BY <1>11, <3>2, <4>1, SumsCount
        <4>4. g = f
          BY <4>2, <4>3 DEF Counts
        <4>5. InAll(d, st) = InAll(c, st) - Total(f) + Total(g)
          BY <1>11, <1>12, <3>2, <4>1, OneShelfChanges
        <4> QED
          BY <1>14, <4>3, <4>4, <4>5
      <3> QED
        BY <3>1, <3>2
    <2>4. ~Whole(p)
      BY <1>1, <1>2, <1>9, <1>22 DEF Whole
    <2>5. InAll(d, st) = j - 0 + 0
      BY <1>18, <1>19, <2>3
    <2>6. ItemCount' = a + b + i + j - (0 + h + k) + (0 + rh + rp + o)
      BY <1>19, <1>20, <2>5, Adding
    <2>7. rh + rp + o <= h + k
      BY <1>18, <2>2
    <2> QED
      BY <1>19, <1>20, <2>4, <2>6, <2>7
  <1> QED
    BY <1>21, <1>22


LEMMA CollectWriteCount ==
    ASSUME ItemsAssumption, ItemsInv, NEW p \in Players, CollectWrite(p), Fresh(p)
    PROVE  ItemCount' = ItemCount
  <1>1. PICK e, h, w : e = click[p] /\ h = cursor[p] /\ w = e.window
    OBVIOUS
  <1>2. PICK took, new : /\ took = Taken(e.slots, h)
                         /\ new = [s \in {t \in DOMAIN took : took[t] > 0} |-> e.slots[s] - took[s]]
    OBVIOUS
  <1>3. e.mode = "collect" /\ e # NoClick
    BY <1>1 DEF CollectWrite, NoClick
  <1>4. IsClick(e, h) /\ h \in Stack /\ h \in Nat /\ MaxStack \in Nat
    BY <1>1, <1>3 DEF ItemsInv, ClicksOK, HeldOK, Stack, ItemsAssumption
  <1>5. PICK N \in Nat : DOMAIN e.slots = 1..N
    BY <1>4, ReadCounts DEF IsClick
  <1>6. Counts(e.slots) /\ \A s \in DOMAIN e.slots : e.slots[s] \in 0..MaxStack
    BY <1>4, ReadCounts DEF IsClick
  <1>7. /\ Counts(took) /\ DOMAIN took = DOMAIN e.slots /\ (\A s \in DOMAIN took : took[s] \in 0..e.slots[s])
        /\ Total(took) \in 0..MaxStack - h /\ Total(took) \in Nat
    BY <1>2, <1>4, <1>5, <1>6, TakenIs, TotalType DEF Taken
  <1>8. SetSlots(w, new) /\ cursor' = [cursor EXCEPT ![p] = h + Total(took)]
    BY <1>1, <1>2 DEF CollectWrite, Taken
  <1>9. \A s \in DOMAIN new : new[s] \in Stack
    BY <1>2, <1>4, <1>6, <1>7 DEF Stack
  <1>10. PICK c, st : c = containers /\ st = stored
    OBVIOUS
  <1>11. PICK d : d = containers'
    OBVIOUS
  <1>12. Shelves(c) /\ Stocked(st) /\ Shelves(d) /\ WindowsOK
    BY <1>10, <1>11, CollectWriteInv DEF ItemsInv, WindowsOK
  <1>13. /\ DOMAIN d = DOMAIN c /\ \A v \in DOMAIN c : d[v].place = c[v].place
         /\ \A v \in DOMAIN c \ {w} : d[v] = c[v]
         /\ w \in DOMAIN c =>
              d[w].slots = [s \in DOMAIN c[w].slots |-> IF s \in DOMAIN new THEN new[s] ELSE c[w].slots[s]]
    BY <1>8, <1>9, <1>10, <1>11, <1>12, SetSlotsIs, SMTT(40)
  <1>14. e.slots = IF w \in DOMAIN c THEN c[w].slots ELSE [s \in {} |-> 0]
    BY <1>1, <1>10 DEF Fresh, SlotsOf
  <1>15. InAll(d, st) = InAll(c, st) - Total(took) /\ InAll(c, st) \in Nat
    <2>1. InAll(c, st) \in Nat
      BY <1>10, CountIs
    <2>2. CASE w \in DOMAIN c
      <3>1. PICK f, g : f = c[w].slots /\ g = d[w].slots
        OBVIOUS
      <3>2. f = e.slots /\ DOMAIN g = DOMAIN f /\ \A s \in DOMAIN f : g[s] = IF s \in DOMAIN new THEN new[s] ELSE f[s]
        BY <1>13, <1>14, <2>2, <3>1
      <3>3. Counts(f) /\ Counts(g) /\ Total(f) \in Nat /\ Total(g) \in Nat
        BY <1>12, <1>13, <2>2, <3>1, SumsCount
      <3>4. \A s \in DOMAIN f : f[s] \in Nat /\ g[s] \in Nat /\ took[s] \in Nat
        BY <1>7, <3>2, <3>3 DEF Counts
      <3>5. \A s \in DOMAIN f : f[s] = g[s] + took[s]
        <4> SUFFICES ASSUME NEW s \in DOMAIN f PROVE f[s] = g[s] + took[s]
          OBVIOUS
        <4>1. CASE took[s] > 0
          <5>1. s \in DOMAIN new /\ new[s] = f[s] - took[s]
            BY <1>2, <1>7, <3>2, <4>1
          <5> QED
            BY <3>2, <3>4, <5>1
        <4>2. CASE ~(took[s] > 0)
          <5>1. s \notin DOMAIN new /\ took[s] = 0
            BY <1>2, <3>4, <4>2
          <5> QED
            BY <3>2, <3>4, <5>1
        <4> QED
          BY <4>1, <4>2
      <3>6. DOMAIN took = DOMAIN f /\ DOMAIN g = DOMAIN f
        BY <1>7, <3>2
      <3>7. Total(f) = Total(g) + Total(took)
        <4>1. DOMAIN took = DOMAIN g /\ DOMAIN f = DOMAIN g /\ \A s \in DOMAIN g : f[s] = g[s] + took[s]
          BY <3>5, <3>6
        <4> QED
          BY <1>7, <3>3, <4>1, TotalAdd
      <3>8. InAll(d, st) = InAll(c, st) - Total(f) + Total(g)
        BY <1>12, <1>13, <2>2, <3>1, OneShelfChanges
      <3> QED
        BY <1>7, <2>1, <3>3, <3>7, <3>8
    <2>3. CASE w \notin DOMAIN c
      <3>1. d = c
        BY <1>8, <1>10, <1>11, <2>3 DEF SetSlots
      <3>2. DOMAIN took = {}
        BY <1>7, <1>14, <2>3
      <3>3. Total(took) = 0
        BY <3>2, TotalNone
      <3> QED
        BY <2>1, <3>1, <3>3
    <2> QED
      BY <2>2, <2>3
  <1>16. Total(cursor') = Total(cursor) + Total(took)
    <2>1. PICK f, v : f = cursor /\ f \in [Players -> Stack] /\ v = h + Total(took)
      BY DEF ItemsInv, HeldOK
    <2>2. v \in Stack
      BY <1>4, <1>7, <2>1 DEF Stack
    <2>3. Total([f EXCEPT ![p] = v]) = Total(f) - f[p] + v /\ Total(f) \in Nat
      BY <2>1, <2>2, HeldIs
    <2>4. cursor' = [f EXCEPT ![p] = v] /\ f[p] = h
      BY <1>1, <1>8, <2>1
    <2>5. Total(cursor') = Total(f) - h + (h + Total(took))
      BY <2>1, <2>3, <2>4
    <2> QED
      BY <1>4, <1>7, <2>1, <2>3, <2>5
  <1>17. stored' = stored /\ pack' = pack /\ dropped' = dropped
    BY DEF CollectWrite, ground_vars
  <1>18. PICK a, b, i, j, t : a = Total(pack) /\ b = Total(cursor) /\ i = Cardinality(dropped) /\ j = InAll(c, st) /\ t = Total(took)
    OBVIOUS
  <1>19. ItemCount = a + b + i + j /\ a \in Nat /\ b \in Nat /\ i \in Nat /\ j \in Nat /\ t \in Nat
    BY <1>7, <1>10, <1>18, CountIs
  <1>20. ItemCount' = Total(pack') + Total(cursor') + Cardinality(dropped') + InAll(containers', stored')
    BY CollectWriteInv, CountIsNext
  <1>21. ItemCount' = a + (b + t) + i + (j - t)
    BY <1>10, <1>11, <1>15, <1>16, <1>17, <1>18, <1>20
  <1> QED
    BY <1>19, <1>21

-----------------------------------------------------------------------------
(* Gains and clicks                                                        *)

\* What GainsExplained names.
Explained ==
    \/ Opens /\ WindowsAt(containers'[nextWindow].place) # {}
    \/ Opens /\ nextWindow \in DOMAIN containers
    \/ \E p \in Players : Finishes(p) /\ ~Fresh(p)
    \/ \E p \in Players, d \in DropIds : d \in reach[p] \ reach'[p] /\ d \notin dropped
    \/ given' # given
Conserved ==
    \A p \in Players :
        /\ Finishes(p) /\ Fresh(p) /\ click[p].window \in DOMAIN containers
        /\ click[p].slot \in DOMAIN click[p].slots /\ click[p].mode # "dropStack"
        /\ click[p].mode = "shift" => pack[p] + click[p].slots[click[p].slot] <= MaxStack
        => ItemCount' = ItemCount
CountHolds == (ItemCount' > ItemCount => Explained) /\ Conserved

LEMMA CountNat == ItemsAssumption /\ ItemsInv => ItemCount \in Nat
  <1> SUFFICES ASSUME ItemsAssumption, ItemsInv PROVE ItemCount \in Nat
    OBVIOUS
  <1>1. PICK a, b, c, d : a = Total(pack) /\ b = Total(cursor) /\ c = Cardinality(dropped) /\ d = InAll(containers, stored)
    OBVIOUS
  <1>2. ItemCount = a + b + c + d /\ a \in Nat /\ b \in Nat /\ c \in Nat /\ d \in Nat
    BY <1>1, CountIs
  <1> QED
    BY <1>2

LEMMA NotMore ==
    ASSUME ItemsAssumption, ItemsInv, ItemsInv', ItemCount' <= ItemCount
    PROVE  ~(ItemCount' > ItemCount)
  <1>1. PICK n : n = ItemCount /\ n \in Nat
    BY CountNat
  <1>2. PICK m : m = ItemCount' /\ m \in Nat
    <2>1. PICK a : a = Total(pack')
      OBVIOUS
    <2>2. PICK b : b = Total(cursor')
      OBVIOUS
    <2>3. PICK c : c = Cardinality(dropped')
      OBVIOUS
    <2>4. PICK d : d = InAll(containers', stored')
      OBVIOUS
    <2>5. ItemCount' = a + b + c + d /\ a \in Nat /\ b \in Nat /\ c \in Nat /\ d \in Nat
      BY <2>1, <2>2, <2>3, <2>4, CountIsNext
    <2> QED
      BY <2>5
  <1> QED
    BY <1>1, <1>2

\* A step that finishes no click conserves nothing in particular.
LEMMA NoneFinishes ==
    ASSUME click' = click
    PROVE  Conserved
  BY DEF Conserved, Finishes

LEMMA OnlyFinishes ==
    ASSUME ClicksOK, NEW p \in Players, ClickOver(p), click[p] # NoClick
    PROVE  Finishes(p) /\ \A q \in Players \ {p} : ~Finishes(q)
  BY DEF Finishes, ClickOver, ClicksOK

LEMMA WriteCounted ==
    ASSUME ItemsAssumption, ItemsInv, NEW p \in Players, ClickWrite(p) \/ CollectWrite(p)
    PROVE  CountHolds
  <1>1. ItemsInv'
    BY ClickWriteInv, CollectWriteInv
  <1>2. ClickOver(p)
    BY DEF ClickOver, ClickWrite, CollectWrite
  <1>3. click[p] # NoClick
    BY DEF ClickWrite, CollectWrite, NoClick
  <1>4. Finishes(p) /\ \A q \in Players \ {p} : ~Finishes(q)
    BY <1>2, <1>3, OnlyFinishes DEF ItemsInv
  <1>5. CASE Fresh(p)
    <2>1. ItemCount' <= ItemCount
      <3>1. CASE ClickWrite(p)
        BY <1>5, <3>1, ClickWriteCount
      <3>2. CASE CollectWrite(p)
        <4>1. ItemCount' = ItemCount
          BY <1>5, <3>2, CollectWriteCount
        <4>2. PICK n : n = ItemCount /\ n \in Nat
          BY CountNat
        <4> QED
          BY <4>1, <4>2
      <3> QED
        BY <3>1, <3>2
    <2>2. Whole(p) => ItemCount' = ItemCount
      BY <1>5, ClickWriteCount, CollectWriteCount
    <2>3. Conserved
      BY <1>4, <2>2 DEF Conserved, Whole
    <2>4. ~(ItemCount' > ItemCount)
      BY <1>1, <2>1, NotMore
    <2> QED
      BY <2>3, <2>4 DEF CountHolds
  <1>6. CASE ~Fresh(p)
    <2>1. Explained
      BY <1>4, <1>6 DEF Explained
    <2>2. Conserved
      BY <1>4, <1>6 DEF Conserved
    <2> QED
      BY <2>1, <2>2 DEF CountHolds
  <1> QED
    BY <1>5, <1>6

\* A step that makes no items and finishes no click.
LEMMA QuietCounted ==
    ASSUME ItemsAssumption, ItemsInv, ItemsInv', click' = click, ItemCount' <= ItemCount
    PROVE  CountHolds
  BY NotMore, NoneFinishes DEF CountHolds

LEMMA SameCounted ==
    ASSUME ItemsAssumption, ItemsInv, ItemsInv', UNCHANGED <<containers, stored, pack, cursor, dropped>>
    PROVE  ~(ItemCount' > ItemCount)
  <1>1. ItemCount' = ItemCount
    BY SameCount
  <1>2. PICK n : n = ItemCount /\ n \in Nat
    BY CountNat
  <1>3. ItemCount' <= ItemCount
    BY <1>1, <1>2
  <1> QED
    BY <1>3, NotMore

LEMMA OpenCounted ==
    ASSUME ItemsAssumption, ItemsInv, NEW p \in Players, NEW q \in Places, Open(p, q)
    PROVE  CountHolds
  <1>1. Opens
    <2>1. nextWindow \in 1..LastWindow /\ LastWindow \in Nat \ {0, 1}
      BY DEF ItemsInv, WindowsOK, ItemsAssumption
    <2> QED
      BY <2>1 DEF Open, Opens
  <1>2. containers'[nextWindow].place = q
    BY DEF Open, With
  <1>3. Conserved
    BY NoneFinishes DEF Open
  <1>4. CASE nextWindow \notin DOMAIN containers /\ WindowsAt(q) = {}
    <2>1. ItemCount' = ItemCount
      BY <1>4, OpenCount
    <2>2. PICK n : n = ItemCount /\ n \in Nat
      BY CountNat
    <2>3. ~(ItemCount' > ItemCount)
      BY <2>1, <2>2
    <2> QED
      BY <1>3, <2>3 DEF CountHolds
  <1>5. CASE ~(nextWindow \notin DOMAIN containers /\ WindowsAt(q) = {})
    <2>1. Explained
      BY <1>1, <1>2, <1>5 DEF Explained
    <2> QED
      BY <1>3, <2>1 DEF CountHolds
  <1> QED
    BY <1>4, <1>5

LEMMA PickUpCounted ==
    ASSUME ItemsAssumption, ItemsInv, NEW p \in Players, PickUp(p)
    PROVE  CountHolds
  <1>1. click' = click /\ ItemsInv'
    BY PickUpInv DEF PickUp, click_vars
  <1>2. CASE \A d \in reach[p] \ reach'[p] : d \in dropped
    BY <1>1, <1>2, PickUpCount, QuietCounted
  <1>3. CASE \E d \in reach[p] \ reach'[p] : d \notin dropped
    <2>1. Explained
      BY <1>3 DEF Explained, ItemsInv, GroundOK
    <2> QED
      BY <1>1, <2>1, NoneFinishes DEF CountHolds
  <1> QED
    BY <1>2, <1>3

LEMMA CountedStep == ItemsAssumption /\ ItemsInv /\ [Next]_vars => CountHolds
  <1> SUFFICES ASSUME ItemsAssumption, ItemsInv, [Next]_vars PROVE CountHolds
    OBVIOUS
  <1>0. ItemsInv'
    BY ItemsStep
  <1>1. CASE UNCHANGED vars
    <2>1. UNCHANGED <<containers, stored, pack, cursor, dropped>> /\ click' = click
      BY <1>1 DEF vars, window_vars, ground_vars, click_vars
    <2> QED
      BY <1>0, <2>1, SameCounted, NoneFinishes DEF CountHolds
  <1>2. ASSUME NEW p \in Players, NEW q \in Places, Open(p, q) PROVE CountHolds
    BY <1>2, OpenCounted
  <1>3. ASSUME NEW p \in Players, NEW w \in shown[p], Close(p, w) PROVE CountHolds
    <2>1. click' = click
      BY <1>3 DEF Close, click_vars
    <2> QED
      BY <1>0, <1>3, <2>1, CloseCount, QuietCounted
  <1>4. ASSUME NEW p \in Players, Rejoin(p) PROVE CountHolds
    <2>1. click' = click
      BY <1>4 DEF Rejoin
    <2> QED
      BY <1>0, <1>4, <2>1, RejoinCount, QuietCounted
  <1>5. ASSUME NEW p \in Players, NEW w \in shown[p], NEW s \in WindowSlots, NEW mode \in Modes, ClickRead(p, w, s, mode)
        PROVE CountHolds
    <2>1. UNCHANGED <<containers, stored, pack, cursor, dropped>>
      BY <1>5 DEF ClickRead, window_vars, ground_vars
    <2>2. PICK e : e = [mode |-> mode, window |-> w, slot |-> s, slots |-> SlotsOf(w)]
      OBVIOUS
    <2>3. click' = [click EXCEPT ![p] = e]
      BY <1>5, <2>2 DEF ClickRead
    <2>4. e # NoClick
      BY <2>2 DEF NoClick, Modes
    <2>5. \A q \in Players : ~Finishes(q)
      BY <2>3, <2>4 DEF Finishes, ItemsInv, ClicksOK
    <2>6. Conserved
      BY <2>5 DEF Conserved
    <2> QED
      BY <1>0, <2>1, <2>6, SameCounted DEF CountHolds
  <1>6. ASSUME NEW p \in Players, ClickWrite(p) \/ CollectWrite(p) PROVE CountHolds
    BY <1>6, WriteCounted
  <1>7. ASSUME NEW p \in Players, FindNear(p) PROVE CountHolds
    <2>1. UNCHANGED <<containers, stored, pack, cursor, dropped>> /\ click' = click
      BY <1>7 DEF FindNear, window_vars, click_vars
    <2> QED
      BY <1>0, <2>1, SameCounted, NoneFinishes DEF CountHolds
  <1>8. ASSUME NEW p \in Players, PickUp(p) PROVE CountHolds
    BY <1>8, PickUpCounted
  <1>9. ASSUME NEW h \in Hoppers, Hopper(h[1], h[2]) PROVE CountHolds
    <2>1. PICK a, b : a = h[1] /\ b = h[2] /\ a \in Places /\ b \in Places /\ a # b
      BY DEF ItemsAssumption
    <2>2. Hopper(a, b)
      BY <1>9, <2>1
    <2>3. click' = click
      BY <2>1, <2>2, HopperFlows DEF ItemsInv, click_vars
    <2> QED
      BY <1>0, <2>1, <2>2, <2>3, HopperCount, QuietCounted
  <1>10. CASE Attract
    <2>1. click' = click /\ given' # given
      BY <1>10, AttractInv DEF Attract, click_vars
    <2> QED
      BY <2>1, NoneFinishes DEF CountHolds, Explained
  <1>11. CASE Merge
    <2>1. click' = click
      BY <1>11 DEF Merge, click_vars
    <2> QED
      BY <1>0, <1>11, <2>1, MergeCount, QuietCounted
  <1> QED
    BY <1>1, <1>2, <1>3, <1>4, <1>5, <1>6, <1>7, <1>8, <1>9, <1>10, <1>11 DEF Next

(* Items come from nowhere in the five named cases only, in containers of   *)
(* every size and whatever clicks, hoppers, closes and pickups do in        *)
(* between: no step by itself makes items (play_loop.rs, container.rs,      *)
(* main.rs).                                                               *)
THEOREM ItemsComeFromSomewhere == Spec => GainsExplained
  <1>1. Init => ItemsInv
    BY ItemsInit, ItemsAssumption
  <1>2. ItemsInv /\ [Next]_vars => ItemsInv'
    BY ItemsStep, ItemsAssumption
  <1>3. ItemsInv /\ [Next]_vars => (ItemCount' > ItemCount => Explained)
    BY CountedStep, ItemsAssumption DEF CountHolds
  <1> QED
    BY <1>1, <1>2, <1>3, PTL DEF Spec, GainsExplained, Explained

(* A click in a slot nobody has changed since the click read it neither     *)
(* makes nor loses an item, in each of the modes that claim it             *)
(* (ContainerClick in play_loop.rs).                                       *)
THEOREM ClicksOnlyMove == Spec => ClicksConserve
  <1>1. Init => ItemsInv
    BY ItemsInit, ItemsAssumption
  <1>2. ItemsInv /\ [Next]_vars => ItemsInv'
    BY ItemsStep, ItemsAssumption
  <1>3. ItemsInv /\ [Next]_vars => Conserved
    BY CountedStep, ItemsAssumption DEF CountHolds
  <1> QED
    BY <1>1, <1>2, <1>3, PTL DEF Spec, ClicksConserve, Conserved

-----------------------------------------------------------------------------
(* The window a player looks at                                            *)

\* What KeepsWindow allows.
Lost(p) ==
    \/ \E w \in shown[p] : w \notin shown'[p]
    \/ Opens /\ nextWindow = windows[p]
    \/ \E q \in Players \ {p} : windows[p] \in shown[q]
Kept == \A p \in Players : Owns(p) /\ ~Owns(p)' => Lost(p)

\* Steps that leave the windows of all players and their owners.
SameOwners ==
    /\ windows' = windows /\ DOMAIN containers' = DOMAIN containers
    /\ \A w \in DOMAIN containers : containers'[w].owner = containers[w].owner

LEMMA SameOwnersKept == SameOwners => Kept
  BY DEF SameOwners, Kept, Owns

LEMMA OpenKept ==
    ASSUME ItemsAssumption, ItemsInv, NEW q \in Players, NEW pl \in Places, Open(q, pl)
    PROVE  Kept
  <1>1. Opens
    <2>1. nextWindow \in 1..LastWindow /\ LastWindow \in Nat \ {0, 1}
      BY DEF ItemsInv, WindowsOK, ItemsAssumption
    <2> QED
      BY <2>1 DEF Open, Opens
  <1>2. PICK n, c, v : n = nextWindow /\ c = containers /\ v = [owner |-> q, place |-> pl, slots |-> stored[pl]]
    OBVIOUS
  <1>3. PICK d : d = containers'
    OBVIOUS
  <1>4. d = With(c, n, v) /\ windows' = With(windows, q, n)
    BY <1>2, <1>3 DEF Open
  <1>5. DOMAIN d = DOMAIN c \cup {n} /\ d[n].owner = q /\ \A w \in DOMAIN c \ {n} : d[w] = c[w]
    BY <1>2, <1>4 DEF With
  <1>6. DOMAIN windows' = DOMAIN windows \cup {q} /\ windows'[q] = n /\ \A p \in DOMAIN windows \ {q} : windows'[p] = windows[p]
    BY <1>4 DEF With
  <1> SUFFICES ASSUME NEW p \in Players, Owns(p), ~Owns(p)' PROVE Lost(p)
    BY DEF Kept
  <1>7. p # q
    <2> SUFFICES ASSUME p = q PROVE FALSE
      OBVIOUS
    <2>1. p \in DOMAIN windows' /\ windows'[p] = n /\ n \in DOMAIN d /\ d[n].owner = p
      BY <1>5, <1>6
    <2> QED
      BY <1>3, <2>1 DEF Owns
  <1>8. CASE windows[p] = n
    BY <1>1, <1>2, <1>8 DEF Lost
  <1>9. CASE windows[p] # n
    <2>1. p \in DOMAIN windows /\ windows[p] \in DOMAIN c /\ c[windows[p]].owner = p
      BY <1>2 DEF Owns
    <2>2. p \in DOMAIN windows' /\ windows'[p] = windows[p] /\ windows[p] \in DOMAIN d /\ d[windows[p]] = c[windows[p]]
      BY <1>5, <1>6, <1>7, <1>9, <2>1
    <2> QED
      BY <1>3, <2>1, <2>2 DEF Owns
  <1> QED
    BY <1>8, <1>9

LEMMA CloseKept ==
    ASSUME ItemsInv, NEW q \in Players, NEW w \in shown[q], Close(q, w)
    PROVE  Kept
  <1> SUFFICES ASSUME NEW p \in Players, Owns(p), ~Owns(p)' PROVE Lost(p)
    BY DEF Kept
  <1>1. CASE p = q
    <2>1. w \in shown[p] /\ w \notin shown'[p]
      BY <1>1 DEF Close, ItemsInv, WindowsOK
    <2> QED
      BY <2>1 DEF Lost
  <1>2. CASE p # q /\ windows[p] = w
    BY <1>2 DEF Lost
  <1>3. CASE p # q /\ windows[p] # w
    <2>1. p \in DOMAIN windows' /\ windows'[p] = windows[p]
      BY <1>3 DEF Close, Without, Owns
    <2>2. windows[p] \in DOMAIN containers' /\ containers'[windows[p]] = containers[windows[p]]
      BY <1>3 DEF Close, Without, Owns
    <2> QED
      BY <2>1, <2>2 DEF Owns
  <1> QED
    BY <1>1, <1>2, <1>3

\* Writing slots leaves the owners.
LEMMA WriteOwners ==
    ASSUME NEW w, NEW slots, SetSlots(w, slots), windows' = windows, ItemsInv
    PROVE  SameOwners
  <1>1. PICK c : c = containers
    OBVIOUS
  <1>2. PICK d : d = containers'
    OBVIOUS
  <1>3. CASE w \in DOMAIN c
    <2>1. PICK t : d = [c EXCEPT ![w].slots = t]
      BY <1>1, <1>2, <1>3 DEF SetSlots
    <2>2. DOMAIN d = DOMAIN c /\ \A v \in DOMAIN c \ {w} : d[v] = c[v]
      BY <2>1
    <2>3. d[w] = [c[w] EXCEPT !.slots = t]
      BY <1>3, <2>1
    <2>4. c[w] \in [owner : Players, place : Places, slots : AnyContents]
      BY <1>1, <1>3 DEF ItemsInv, WindowsOK, Shelves, IsWindow
    <2>5. d[w].owner = c[w].owner
      BY <2>3, <2>4
    <2> QED
      BY <1>1, <1>2, <2>2, <2>5 DEF SameOwners
  <1>4. CASE w \notin DOMAIN c
    <2>1. d = c
      BY <1>1, <1>2, <1>4 DEF SetSlots
    <2> QED
      BY <1>1, <1>2, <2>1 DEF SameOwners
  <1> QED
    BY <1>3, <1>4

LEMMA KeptStep == ItemsAssumption /\ ItemsInv /\ [Next]_vars => Kept
  <1> SUFFICES ASSUME ItemsAssumption, ItemsInv, [Next]_vars PROVE Kept
    OBVIOUS
  <1>1. CASE UNCHANGED <<containers, windows>>
    BY <1>1, SameOwnersKept DEF SameOwners
  <1>2. ASSUME NEW p \in Players, NEW q \in Places, Open(p, q) PROVE Kept
    BY <1>2, OpenKept
  <1>3. ASSUME NEW p \in Players, NEW w \in shown[p], Close(p, w) PROVE Kept
    BY <1>3, CloseKept
  <1>4. ASSUME NEW p \in Players, ClickWrite(p) PROVE Kept
    <2>1. \E w, slots : SetSlots(w, slots)
      BY <1>4 DEF ClickWrite
    <2>2. windows' = windows
      BY <1>4 DEF ClickWrite
    <2> QED
      BY <2>1, <2>2, WriteOwners, SameOwnersKept
  <1>5. ASSUME NEW p \in Players, CollectWrite(p) PROVE Kept
    <2>1. \E w, slots : SetSlots(w, slots)
      BY <1>5 DEF CollectWrite
    <2>2. windows' = windows
      BY <1>5 DEF CollectWrite
    <2> QED
      BY <2>1, <2>2, WriteOwners, SameOwnersKept
  <1>6. ASSUME NEW h \in Hoppers, Hopper(h[1], h[2]) PROVE Kept
    <2>1. PICK a, b : a = h[1] /\ b = h[2] /\ a \in Places /\ b \in Places /\ a # b
      BY DEF ItemsAssumption
    <2>2. Hopper(a, b)
      BY <1>6, <2>1
    <2>3. PICK src, dst, s, t : Flows(containers, containers', src, dst, s, t)
      BY <2>1, <2>2, HopperFlows DEF ItemsInv
    <2>4. windows' = windows
      BY <2>1, <2>2, HopperFlows DEF ItemsInv
    <2>5. PICK c, st : c = containers /\ st = stored
      OBVIOUS
    <2>6. PICK d : d = containers'
      OBVIOUS
    <2>7. Shelves(c) /\ Stocked(st) /\ Flows(c, d, src, dst, s, t)
      BY <2>3, <2>5, <2>6 DEF ItemsInv, WindowsOK
    <2>8. DOMAIN d = DOMAIN c /\ \A w \in DOMAIN c : d[w].owner = c[w].owner
      BY <2>7, FlowsIs
    <2>9. SameOwners
      BY <2>4, <2>5, <2>6, <2>8 DEF SameOwners
    <2> QED
      BY <2>9, SameOwnersKept
  <1>7. CASE UNCHANGED vars
    BY <1>1, <1>7 DEF vars, window_vars
  <1>8. ASSUME NEW p \in Players, Rejoin(p) \/ FindNear(p) \/ PickUp(p) PROVE Kept
    BY <1>1, <1>8 DEF Rejoin, FindNear, PickUp, window_vars
  <1>9. ASSUME NEW p \in Players, NEW w \in shown[p], NEW s \in WindowSlots, NEW mode \in Modes, ClickRead(p, w, s, mode)
        PROVE Kept
    BY <1>1, <1>9 DEF ClickRead, window_vars
  <1>10. CASE Attract \/ Merge
    BY <1>1, <1>10 DEF Attract, Merge, window_vars
  <1> QED
    BY <1>2, <1>3, <1>4, <1>5, <1>6, <1>7, <1>8, <1>9, <1>10 DEF Next

(* The window a player looks at stays its own until it closes one, its     *)
(* number comes round again, or another client that still shows it closes   *)
(* it (open and close in container.rs, ContainerClose in play_loop.rs).     *)
THEOREM WindowsStayOwned == Spec => KeepsWindow
  <1>1. Init => ItemsInv
    BY ItemsInit, ItemsAssumption
  <1>2. ItemsInv /\ [Next]_vars => ItemsInv'
    BY ItemsStep, ItemsAssumption
  <1>3. ItemsInv /\ [Next]_vars => Kept
    BY KeptStep, ItemsAssumption
  <1> QED
    BY <1>1, <1>2, <1>3, PTL DEF Spec, KeepsWindow, Kept, Lost

-----------------------------------------------------------------------------
(* Boards: what a client shows                                             *)

(* Partials with keys in A, not all of them, and values in B.                *)
Partials(A, B) == UNION {[D -> B] : D \in SUBSET A}
ScoreTables == Partials(Objs, Partials(Viewers, Nat))
Screen == [scores : ScoreTables, bars : Partials(Nat, Nat)]
BoardEvent ==
    [kind : {"objective", "gone"}, about : Objs, name : {"none"}, value : {0}]
    \cup [kind : {"score"}, about : Objs, name : Viewers, value : Nat]
    \cup [kind : {"bar", "barHealth"}, about : BarIds, name : Nat, value : Nat]
    \cup [kind : {"barGone"}, about : BarIds, name : {NilUuid}, value : {0}]

LEMMA TableIs ==
    ASSUME NEW A, NEW B, NEW f
    PROVE  f \in Partials(A, B) <=> DOMAIN f \subseteq A /\ f \in [DOMAIN f -> B]
  BY DEF Partials

LEMMA NoEntries ==
    ASSUME NEW A, NEW B
    PROVE  <<>> \in Partials(A, B) /\ DOMAIN <<>> = {}
  <1>1. DOMAIN <<>> = {}
    OBVIOUS
  <1>2. <<>> \in [DOMAIN <<>> -> B]
    BY <1>1
  <1> QED
    BY <1>1, <1>2, TableIs

LEMMA AlsoIs ==
    ASSUME NEW A, NEW B, NEW f \in Partials(A, B), NEW k \in A, NEW x \in B
    PROVE  /\ Also(f, k, x) \in Partials(A, B) /\ DOMAIN Also(f, k, x) = DOMAIN f \cup {k}
           /\ Also(f, k, x)[k] = x /\ \A j \in DOMAIN f \ {k} : Also(f, k, x)[j] = f[j]
  <1>1. DOMAIN f \subseteq A /\ f \in [DOMAIN f -> B]
    BY TableIs
  <1>2. /\ DOMAIN Also(f, k, x) = DOMAIN f \cup {k} /\ Also(f, k, x) \in [DOMAIN f \cup {k} -> B]
        /\ Also(f, k, x)[k] = x /\ \A j \in DOMAIN f \ {k} : Also(f, k, x)[j] = f[j]
    BY <1>1 DEF Also
  <1> QED
    BY <1>1, <1>2, TableIs

LEMMA LessIs ==
    ASSUME NEW A, NEW B, NEW f \in Partials(A, B), NEW k
    PROVE  /\ Less(f, k) \in Partials(A, B) /\ DOMAIN Less(f, k) = DOMAIN f \ {k}
           /\ \A j \in DOMAIN f \ {k} : Less(f, k)[j] = f[j]
  <1>1. DOMAIN f \subseteq A /\ f \in [DOMAIN f -> B]
    BY TableIs
  <1>2. /\ DOMAIN Less(f, k) = DOMAIN f \ {k} /\ Less(f, k) \in [DOMAIN f \ {k} -> B]
        /\ \A j \in DOMAIN f \ {k} : Less(f, k)[j] = f[j]
    BY <1>1 DEF Less
  <1> QED
    BY <1>1, <1>2, TableIs

LEMMA ChangedIsAlso ==
    ASSUME NEW A, NEW B, NEW f \in Partials(A, B), NEW k \in DOMAIN f, NEW x
    PROVE  [f EXCEPT ![k] = x] = Also(f, k, x)
  <1>1. f \in [DOMAIN f -> B]
    BY TableIs
  <1> QED
    BY <1>1 DEF Also

LEMMA ScreenFields ==
    ASSUME NEW s \in Screen
    PROVE  /\ s.scores \in ScoreTables /\ s.bars \in Partials(Nat, Nat)
           /\ \A x \in ScoreTables : [s EXCEPT !.scores = x] \in Screen /\ [s EXCEPT !.scores = x].scores = x
                                    /\ [s EXCEPT !.scores = x].bars = s.bars
           /\ \A x \in Partials(Nat, Nat) : [s EXCEPT !.bars = x] \in Screen /\ [s EXCEPT !.bars = x].bars = x
                                         /\ [s EXCEPT !.bars = x].scores = s.scores
  BY DEF Screen

LEMMA EventFields ==
    ASSUME NEW e \in BoardEvent
    PROVE  /\ e.kind \in {"objective", "gone", "score", "bar", "barHealth", "barGone"}
           /\ e.kind \in {"objective", "gone", "score"} => e.about \in Objs
           /\ e.kind = "score" => e.name \in Viewers /\ e.value \in Nat
           /\ e.kind \in {"bar", "barHealth"} => e.name \in Nat /\ e.value \in Nat
           /\ e.kind = "barGone" => e.name = NilUuid
           /\ e.kind \in {"bar", "barHealth", "barGone"} => e.about \in BarIds
  BY DEF BoardEvent

LEMMA ShowIs ==
    ASSUME NEW s \in Screen, NEW e \in BoardEvent
    PROVE  /\ Show(s, e) \in Screen
           /\ e.kind = "objective" => Show(s, e).scores = Also(s.scores, e.about, <<>>)
           /\ e.kind = "gone" => Show(s, e).scores = Less(s.scores, e.about)
           /\ e.kind = "score" /\ e.about \in DOMAIN s.scores =>
                Show(s, e).scores = Also(s.scores, e.about, Also(s.scores[e.about], e.name, e.value))
           /\ e.kind = "score" /\ e.about \notin DOMAIN s.scores => Show(s, e).scores = s.scores
           /\ e.kind \in {"bar", "barHealth", "barGone"} => Show(s, e).scores = s.scores
           /\ e.kind = "bar" => Show(s, e).bars = Also(s.bars, e.name, e.value)
           /\ e.kind = "barHealth" /\ e.name \in DOMAIN s.bars => Show(s, e).bars = Also(s.bars, e.name, e.value)
           /\ e.kind = "barHealth" /\ e.name \notin DOMAIN s.bars => Show(s, e).bars = s.bars
           /\ e.kind = "barGone" => Show(s, e).bars = Less(s.bars, e.name)
           /\ e.kind \in {"objective", "gone", "score"} => Show(s, e).bars = s.bars
  <1>0. s.scores \in ScoreTables /\ s.bars \in Partials(Nat, Nat)
    BY ScreenFields
  <1>1. CASE e.kind = "objective"
    <2>1. Show(s, e) = [s EXCEPT !.scores = Also(s.scores, e.about, <<>>)]
      BY <1>1 DEF Show
    <2>2. Also(s.scores, e.about, <<>>) \in ScoreTables
      BY <1>0, <1>1, EventFields, NoEntries, AlsoIs DEF ScoreTables
    <2> QED
      BY <1>1, <2>1, <2>2, ScreenFields
  <1>2. CASE e.kind = "gone"
    <2>1. Show(s, e) = [s EXCEPT !.scores = Less(s.scores, e.about)]
      BY <1>2 DEF Show
    <2>2. Less(s.scores, e.about) \in ScoreTables
      BY <1>0, LessIs DEF ScoreTables
    <2> QED
      BY <1>2, <2>1, <2>2, ScreenFields
  <1>3. CASE e.kind = "score" /\ e.about \in DOMAIN s.scores
    <2>1. PICK o, f : o = e.about /\ f = s.scores[o]
      OBVIOUS
    <2>2. o \in Objs /\ f \in Partials(Viewers, Nat)
      BY <1>0, <1>3, <2>1, EventFields, TableIs DEF ScoreTables
    <2>3. PICK g : g = Also(f, e.name, e.value)
      OBVIOUS
    <2>4. g \in Partials(Viewers, Nat)
      BY <1>3, <2>2, <2>3, EventFields, AlsoIs
    <2>5. Show(s, e) = [s EXCEPT !.scores = [s.scores EXCEPT ![o] = g]]
      BY <1>3, <2>1, <2>3 DEF Show
    <2>6. [s.scores EXCEPT ![o] = g] = Also(s.scores, o, g)
      BY <1>0, <1>3, <2>1, ChangedIsAlso DEF ScoreTables
    <2>7. Also(s.scores, o, g) \in ScoreTables
      BY <1>0, <2>2, <2>4, AlsoIs DEF ScoreTables
    <2> QED
      BY <1>3, <2>1, <2>3, <2>5, <2>6, <2>7, ScreenFields
  <1>4. CASE e.kind = "score" /\ e.about \notin DOMAIN s.scores
    <2>1. Show(s, e) = s
      BY <1>4 DEF Show
    <2> QED
      BY <1>4, <2>1
  <1>5. CASE e.kind = "bar"
    <2>1. Show(s, e) = [s EXCEPT !.bars = Also(s.bars, e.name, e.value)]
      BY <1>5 DEF Show
    <2>2. Also(s.bars, e.name, e.value) \in Partials(Nat, Nat)
      BY <1>0, <1>5, EventFields, AlsoIs
    <2> QED
      BY <1>5, <2>1, <2>2, ScreenFields
  <1>6. CASE e.kind = "barHealth" /\ e.name \in DOMAIN s.bars
    <2>1. Show(s, e) = [s EXCEPT !.bars = [s.bars EXCEPT ![e.name] = e.value]]
      BY <1>6 DEF Show
    <2>2. [s.bars EXCEPT ![e.name] = e.value] = Also(s.bars, e.name, e.value)
      BY <1>0, <1>6, ChangedIsAlso
    <2>3. Also(s.bars, e.name, e.value) \in Partials(Nat, Nat)
      BY <1>0, <1>6, EventFields, AlsoIs
    <2> QED
      BY <1>6, <2>1, <2>2, <2>3, ScreenFields
  <1>7. CASE e.kind = "barHealth" /\ e.name \notin DOMAIN s.bars
    <2>1. Show(s, e) = s
      BY <1>7 DEF Show
    <2> QED
      BY <1>7, <2>1
  <1>8. CASE e.kind = "barGone"
    <2>1. Show(s, e) = [s EXCEPT !.bars = Less(s.bars, e.name)]
      BY <1>8 DEF Show
    <2>2. Less(s.bars, e.name) \in Partials(Nat, Nat)
      BY <1>0, LessIs
    <2> QED
      BY <1>8, <2>1, <2>2, ScreenFields
  <1> QED
    BY <1>1, <1>2, <1>3, <1>4, <1>5, <1>6, <1>7, <1>8, EventFields

-----------------------------------------------------------------------------
(* Boards: one event after the other                                       *)

ShownEquation(it, s, q) ==
    it = [t \in SUBSET (DOMAIN q) |-> IF t = {} THEN s ELSE Show(it[t \ {LastOf(t)}], q[LastOf(t)])]

LEMMA ShownIsFold ==
    ASSUME NEW s, NEW q
    PROVE  FoldLeft(Show, s, q) = (CHOOSE it : ShownEquation(it, s, q))[DOMAIN q]
  BY DEF FoldLeft, MapThenFoldSet, ShownEquation, LastOf, Max

(* The events that may come, as functions from screens to screens.         *)
Showing(q) == [k \in Nat |-> [s \in Screen |-> IF k \in 1..Len(q) THEN Show(s, q[k]) ELSE s]]

LEMMA ShowingIs ==
    ASSUME NEW q \in Seq(BoardEvent)
    PROVE  /\ Showing(q) \in [Nat -> [Screen -> Screen]]
           /\ \A k \in 1..Len(q), s \in Screen : Showing(q)[k][s] = Show(s, q[k])
  BY ShowIs DEF Showing

(* What handling a queue of events one by one leads to is the fold.        *)
LEMMA ShownByRun ==
    ASSUME NEW s \in Screen, NEW q \in Seq(BoardEvent), NEW f \in [0..Len(q) -> Screen],
           Runs(f, Showing(q), s, Len(q))
    PROVE  FoldLeft(Show, s, q) = f[Len(q)]
  <1>1. PICK n : n = Len(q)
    OBVIOUS
  <1>2. n \in Nat /\ DOMAIN q = 1..n
    BY <1>1
  <1>3. PICK G : G = [k \in 1..n |-> Showing(q)[k]]
    OBVIOUS
  <1>4. G \in [1..n -> [Screen -> Screen]] /\ \A k \in 1..n, t \in Screen : G[k][t] = Show(t, q[k])
    BY <1>1, <1>2, <1>3, ShowingIs
  <1>5. Runs(f, G, s, n)
    BY <1>1, <1>3 DEF Runs
  <1>6. PICK it \in [SUBSET (1..n) -> Screen] : Folds(it, G, Lasts(n), s, SUBSET (1..n))
    BY <1>2, <1>4, LeftFoldExists
  <1>7. \A t \in (SUBSET (1..n)) \ {{}} : Lasts(n)[t] = LastOf(t) /\ LastOf(t) \in t
    BY <1>2, LastThere DEF Lasts
  <1>8. ShownEquation(it, s, q)
    <2>1. it[{}] = s
      BY <1>6 DEF Folds, FoldStep
    <2>2. ASSUME NEW t \in SUBSET (1..n), t # {} PROVE it[t] = Show(it[t \ {LastOf(t)}], q[LastOf(t)])
      <3>1. it[t] = G[LastOf(t)][it[t \ {LastOf(t)}]]
        BY <1>6, <1>7, <2>2 DEF Folds, FoldStep
      <3>2. LastOf(t) \in 1..n /\ it[t \ {LastOf(t)}] \in Screen
        BY <1>6, <1>7, <2>2
      <3> QED
        BY <1>4, <3>1, <3>2
    <2> QED
      BY <1>2, <1>6, <2>1, <2>2 DEF ShownEquation
  <1>9. PICK other : ShownEquation(other, s, q) /\ FoldLeft(Show, s, q) = other[1..n]
    BY <1>2, <1>8, ShownIsFold
  <1>10. KeepsFold(other, G, Lasts(n), s, 1..n, Screen)
    <2>1. other[{}] = s
      BY <1>9 DEF ShownEquation
    <2>2. ASSUME NEW t \in (SUBSET (1..n)) \ {{}}, other[t \ {Lasts(n)[t]}] \in Screen
          PROVE  other[t] = G[Lasts(n)[t]][other[t \ {Lasts(n)[t]}]]
      <3>1. other[t] = Show(other[t \ {LastOf(t)}], q[LastOf(t)])
        BY <1>2, <1>9 DEF ShownEquation
      <3>2. LastOf(t) \in 1..n /\ Lasts(n)[t] = LastOf(t)
        BY <1>7
      <3> QED
        BY <1>4, <2>2, <3>1, <3>2
    <2> QED
      BY <2>1, <2>2 DEF KeepsFold
  <1> QED
    <2>1. f \in [0..n -> Screen] /\ G \in [1..n -> [Screen -> Screen]]
      BY <1>1, <1>4
    <2>2. Alongside(other, f, G, s, n, Screen)
      BY <1>5, <1>10, <2>1 DEF Alongside
    <2>3. other[1..n] = f[n]
      BY <1>2, <2>2, LeftFold
    <2> QED
      BY <1>1, <1>9, <2>3

LEMMA RunThere ==
    ASSUME NEW s \in Screen, NEW q \in Seq(BoardEvent)
    PROVE  \E f \in [0..Len(q) -> Screen] :
              /\ Runs(f, Showing(q), s, Len(q)) /\ FoldLeft(Show, s, q) = f[Len(q)]
  <1>1. Len(q) \in Nat
    OBVIOUS
  <1>2. PICK f \in [0..Len(q) -> Screen] : Runs(f, Showing(q), s, Len(q))
    BY <1>1, ShowingIs, PartExists
  <1> QED
    BY <1>2, ShownByRun

LEMMA RunShows ==
    ASSUME NEW q \in Seq(BoardEvent), NEW s, NEW f \in [0..Len(q) -> Screen], Runs(f, Showing(q), s, Len(q))
    PROVE  f[0] = s /\ \A k \in 1..Len(q) : f[k] = Show(f[k - 1], q[k])
  <1>1. \A k \in 1..Len(q) : k - 1 \in 0..Len(q)
    OBVIOUS
  <1> QED
    BY <1>1, ShowingIs DEF Runs

LEMMA ShowsRun ==
    ASSUME NEW q \in Seq(BoardEvent), NEW f \in [0..Len(q) -> Screen],
           \A k \in 1..Len(q) : f[k] = Show(f[k - 1], q[k])
    PROVE  Runs(f, Showing(q), f[0], Len(q))
  <1>1. \A k \in 1..Len(q) : k - 1 \in 0..Len(q) /\ f[k - 1] \in Screen
    OBVIOUS
  <1>2. \A k \in 1..Len(q) : f[k] = Showing(q)[k][f[k - 1]]
    BY <1>1, ShowingIs
  <1> QED
    BY <1>2 DEF Runs

(* No event: nothing changes.                                              *)
LEMMA ShownNone ==
    ASSUME NEW s \in Screen
    PROVE  FoldLeft(Show, s, <<>>) = s
  <1>1. <<>> \in Seq(BoardEvent) /\ Len(<<>>) = 0
    OBVIOUS
  <1>2. PICK f \in [0..0 -> Screen] : Runs(f, Showing(<<>>), s, 0) /\ FoldLeft(Show, s, <<>>) = f[0]
    BY <1>1, RunThere
  <1> QED
    BY <1>2 DEF Runs

(* One more event at the end.                                              *)
LEMMA ShownMore ==
    ASSUME NEW s \in Screen, NEW q \in Seq(BoardEvent), NEW e \in BoardEvent
    PROVE  /\ FoldLeft(Show, s, q) \in Screen
           /\ FoldLeft(Show, s, Append(q, e)) = Show(FoldLeft(Show, s, q), e)
  <1>1. PICK n, r : n = Len(q) /\ r = Append(q, e)
    OBVIOUS
  <1>2. n \in Nat /\ r \in Seq(BoardEvent) /\ Len(r) = n + 1 /\ r[n + 1] = e /\ \A k \in 1..n : r[k] = q[k]
    BY <1>1
  <1>3. PICK f \in [0..n -> Screen] : Runs(f, Showing(q), s, n) /\ FoldLeft(Show, s, q) = f[n]
    BY <1>1, RunThere
  <1>4. f[0] = s /\ \A k \in 1..n : f[k] = Show(f[k - 1], q[k])
    BY <1>1, <1>3, RunShows
  <1>5. PICK g : g = [k \in 0..(n + 1) |-> IF k = n + 1 THEN Show(f[n], e) ELSE f[k]]
    OBVIOUS
  <1>6. f[n] \in Screen /\ Show(f[n], e) \in Screen
    BY <1>2, <1>3, ShowIs
  <1>7. g \in [0..(n + 1) -> Screen] /\ g[n + 1] = Show(f[n], e) /\ \A k \in 0..n : g[k] = f[k]
    BY <1>2, <1>3, <1>5, <1>6
  <1>8. \A k \in 1..(n + 1) : g[k] = Show(g[k - 1], r[k])
    <2> SUFFICES ASSUME NEW k \in 1..(n + 1) PROVE g[k] = Show(g[k - 1], r[k])
      OBVIOUS
    <2>1. CASE k = n + 1
      <3>1. k - 1 = n /\ n \in 0..n
        BY <1>2, <2>1
      <3> QED
        BY <1>2, <1>7, <2>1, <3>1
    <2>2. CASE k # n + 1
      <3>1. k \in 1..n /\ k - 1 \in 0..n /\ k \in 0..n
        BY <1>2, <2>2
      <3> QED
        BY <1>2, <1>4, <1>7, <3>1
    <2> QED
      BY <2>1, <2>2
  <1>9. g[0] = s
    BY <1>2, <1>4, <1>7
  <1>10. FoldLeft(Show, s, r) = g[n + 1]
    <2>1. Runs(g, Showing(r), s, n + 1)
      BY <1>2, <1>7, <1>8, <1>9, ShowsRun
    <2> QED
      BY <1>2, <1>7, <2>1, ShownByRun
  <1> QED
    BY <1>1, <1>3, <1>6, <1>7, <1>10

(* The first event handled.                                                *)
LEMMA ShownFirst ==
    ASSUME NEW s \in Screen, NEW q \in Seq(BoardEvent), q # <<>>
    PROVE  FoldLeft(Show, s, q) = FoldLeft(Show, Show(s, Head(q)), Tail(q))
  <1>1. PICK n, r : n = Len(q) - 1 /\ r = Tail(q)
    OBVIOUS
  <1>2. /\ n \in Nat /\ Len(q) = n + 1 /\ r \in Seq(BoardEvent) /\ Len(r) = n
        /\ Head(q) = q[1] /\ \A k \in 1..n : r[k] = q[k + 1]
    BY <1>1
  <1>3. PICK f \in [0..(n + 1) -> Screen] : Runs(f, Showing(q), s, n + 1) /\ FoldLeft(Show, s, q) = f[n + 1]
    BY <1>2, RunThere
  <1>4. f[0] = s /\ \A k \in 1..(n + 1) : f[k] = Show(f[k - 1], q[k])
    <2>1. Len(q) = n + 1 /\ f \in [0..Len(q) -> Screen] /\ Runs(f, Showing(q), s, Len(q))
      BY <1>2, <1>3
    <2>2. f[0] = s /\ \A k \in 1..Len(q) : f[k] = Show(f[k - 1], q[k])
      BY <2>1, RunShows
    <2> QED
      BY <2>1, <2>2
  <1>5. PICK g : g = [k \in 0..n |-> f[k + 1]]
    OBVIOUS
  <1>6. \A k \in 0..n : k + 1 \in 0..(n + 1)
    BY <1>2
  <1>7. g \in [0..n -> Screen] /\ \A k \in 0..n : g[k] = f[k + 1]
    BY <1>3, <1>5, <1>6
  <1>8. \A k \in 1..n : g[k] = Show(g[k - 1], r[k])
    <2> SUFFICES ASSUME NEW k \in 1..n PROVE g[k] = Show(g[k - 1], r[k])
      OBVIOUS
    <2>1. k \in 0..n /\ k - 1 \in 0..n /\ k + 1 \in 1..(n + 1) /\ (k + 1) - 1 = k /\ (k - 1) + 1 = k
      BY <1>2
    <2> QED
      BY <1>2, <1>4, <1>7, <2>1
  <1>9. g[0] = Show(s, Head(q))
    <2>1. 0 \in 0..n /\ 1 \in 1..(n + 1)
      BY <1>2
    <2> QED
      BY <1>2, <1>4, <1>7, <2>1
  <1>10. Show(s, Head(q)) \in Screen
    BY <1>2, ShowIs
  <1>11. FoldLeft(Show, Show(s, Head(q)), r) = g[n]
    <2>1. Runs(g, Showing(r), Show(s, Head(q)), n)
      BY <1>2, <1>7, <1>8, <1>9, ShowsRun
    <2> QED
      BY <1>2, <1>7, <1>10, <2>1, ShownByRun
  <1>12. g[n] = f[n + 1]
    BY <1>2, <1>7
  <1> QED
    BY <1>1, <1>3, <1>11, <1>12

-----------------------------------------------------------------------------
(* Boards: what two screens have in common                                 *)

SameAt(f, g, k) ==
    /\ k \in DOMAIN f <=> k \in DOMAIN g
    /\ k \in DOMAIN f => f[k] = g[k]
SameScores(s, t, o) == SameAt(s.scores, t.scores, o)
SameBar(s, t, u) == SameAt(s.bars, t.bars, u)
(* An event that is about another bar than the one with this uuid.         *)
OfAnother(e, u) == e.kind \in {"bar", "barHealth", "barGone"} => e.name # u

LEMMA SameAtIs ==
    ASSUME NEW f, NEW g, NEW k
    PROVE  /\ SameAt(f, f, k) /\ (SameAt(f, g, k) => SameAt(g, f, k))
           /\ \A h : SameAt(f, g, k) /\ SameAt(g, h, k) => SameAt(f, h, k)
  BY DEF SameAt

LEMMA TablesDiffer ==
    ASSUME NEW A, NEW B, NEW f \in Partials(A, B), NEW k, NEW j, j # k
    PROVE  /\ SameAt(f, Less(f, k), j)
           /\ \A x \in B : k \in A => SameAt(f, Also(f, k, x), j)
  <1>1. SameAt(f, Less(f, k), j)
    <2>1. PICK g : g = Less(f, k)
      OBVIOUS
    <2>2. DOMAIN g = DOMAIN f \ {k} /\ \A i \in DOMAIN f \ {k} : g[i] = f[i]
      BY <2>1 DEF Less
    <2>3. SameAt(f, g, j)
      BY <2>2 DEF SameAt
    <2> QED
      BY <2>1, <2>3
  <1>2. ASSUME NEW x \in B, k \in A PROVE SameAt(f, Also(f, k, x), j)
    <2>1. PICK g : g = Also(f, k, x)
      OBVIOUS
    <2>2. DOMAIN g = DOMAIN f \cup {k} /\ \A i \in DOMAIN f \ {k} : g[i] = f[i]
      BY <1>2, <2>1, AlsoIs
    <2>3. SameAt(f, g, j)
      BY <2>2 DEF SameAt
    <2> QED
      BY <2>1, <2>3
  <1> QED
    BY <1>1, <1>2

LEMMA TablesMeet ==
    ASSUME NEW A, NEW B, NEW f \in Partials(A, B), NEW g \in Partials(A, B), NEW k
    PROVE  /\ SameAt(Less(f, k), Less(g, k), k)
           /\ \A x \in B : k \in A => SameAt(Also(f, k, x), Also(g, k, x), k)
  <1>1. SameAt(Less(f, k), Less(g, k), k)
    <2>1. k \notin DOMAIN Less(f, k)
      BY DEF Less
    <2>2. k \notin DOMAIN Less(g, k)
      BY DEF Less
    <2> QED
      BY <2>1, <2>2 DEF SameAt
  <1>2. ASSUME NEW x \in B, k \in A PROVE SameAt(Also(f, k, x), Also(g, k, x), k)
    <2>1. PICK f2, g2 : f2 = Also(f, k, x) /\ g2 = Also(g, k, x)
      OBVIOUS
    <2>2. k \in DOMAIN f2 /\ f2[k] = x
      BY <2>1 DEF Also
    <2>4. k \in DOMAIN g2 /\ g2[k] = x
      BY <2>1 DEF Also
    <2>3. SameAt(f2, g2, k)
      BY <2>2, <2>4 DEF SameAt
    <2> QED
      BY <2>1, <2>3
  <1> QED
    BY <1>1, <1>2

LEMMA OtherScores ==
    ASSUME NEW s \in Screen, NEW e \in BoardEvent, NEW o, e.about # o \/ e.kind \in {"bar", "barHealth", "barGone"}
    PROVE  SameScores(s, Show(s, e), o)
  <1>0. PICK f, k : f = s.scores /\ k = e.about /\ f \in Partials(Objs, Partials(Viewers, Nat))
    BY ScreenFields DEF ScoreTables
  <1>1. CASE e.kind = "objective"
    <2>1. k \in Objs /\ o # k /\ <<>> \in Partials(Viewers, Nat)
      BY <1>0, <1>1, EventFields, NoEntries
    <2>2. SameAt(f, Also(f, k, <<>>), o)
      BY <1>0, <2>1, TablesDiffer
    <2> QED
      BY <1>0, <1>1, <2>2, ShowIs DEF SameScores
  <1>2. CASE e.kind = "gone"
    <2>1. SameAt(f, Less(f, k), o)
      BY <1>0, <1>2, TablesDiffer
    <2> QED
      BY <1>0, <1>2, <2>1, ShowIs DEF SameScores
  <1>3. CASE e.kind = "score" /\ k \in DOMAIN f
    <2>1. PICK g : g = Also(f[k], e.name, e.value)
      OBVIOUS
    <2>2. k \in Objs /\ o # k /\ f[k] \in Partials(Viewers, Nat)
      BY <1>0, <1>3, EventFields, TableIs
    <2>3. g \in Partials(Viewers, Nat)
      BY <1>3, <2>1, <2>2, EventFields, AlsoIs
    <2>4. SameAt(f, Also(f, k, g), o)
      BY <1>0, <2>2, <2>3, TablesDiffer
    <2> QED
      BY <1>0, <1>3, <2>1, <2>4, ShowIs DEF SameScores
  <1>4. CASE e.kind \notin {"objective", "gone"} /\ ~(e.kind = "score" /\ k \in DOMAIN f)
    <2>1. Show(s, e).scores = s.scores
      BY <1>0, <1>4, ShowIs, EventFields
    <2> QED
      BY <2>1, SameAtIs DEF SameScores
  <1> QED
    BY <1>1, <1>2, <1>3, <1>4

LEMMA OtherBar ==
    ASSUME NEW s \in Screen, NEW e \in BoardEvent, NEW u, OfAnother(e, u)
    PROVE  SameBar(s, Show(s, e), u)
  <1>0. PICK f, k : f = s.bars /\ k = e.name /\ f \in Partials(Nat, Nat)
    BY ScreenFields
  <1>1. CASE e.kind = "bar" \/ (e.kind = "barHealth" /\ k \in DOMAIN f)
    <2>1. k \in Nat /\ u # k /\ e.value \in Nat
      BY <1>0, <1>1, EventFields DEF OfAnother
    <2>2. SameAt(f, Also(f, k, e.value), u)
      BY <1>0, <2>1, TablesDiffer
    <2> QED
      BY <1>0, <1>1, <2>2, ShowIs DEF SameBar
  <1>2. CASE e.kind = "barGone"
    <2>1. SameAt(f, Less(f, k), u)
      BY <1>0, <1>2, TablesDiffer DEF OfAnother
    <2> QED
      BY <1>0, <1>2, <2>1, ShowIs DEF SameBar
  <1>3. CASE e.kind \notin {"bar", "barGone"} /\ ~(e.kind = "barHealth" /\ k \in DOMAIN f)
    <2>1. Show(s, e).bars = s.bars
      BY <1>0, <1>3, ShowIs, EventFields
    <2> QED
      BY <2>1, SameAtIs DEF SameBar
  <1> QED
    BY <1>1, <1>2, <1>3

(* An event does the same to the same.                                     *)
LEMMA SameScoresStay ==
    ASSUME NEW s \in Screen, NEW t \in Screen, NEW e \in BoardEvent, NEW o, SameScores(s, t, o)
    PROVE  SameScores(Show(s, e), Show(t, e), o)
  <1>0. PICK f, g : /\ f = s.scores /\ g = t.scores /\ SameAt(f, g, o)
                    /\ f \in Partials(Objs, Partials(Viewers, Nat)) /\ g \in Partials(Objs, Partials(Viewers, Nat))
    BY ScreenFields DEF ScoreTables, SameScores
  <1>1. CASE e.about # o \/ e.kind \in {"bar", "barHealth", "barGone"}
    <2>1. SameScores(s, Show(s, e), o) /\ SameScores(t, Show(t, e), o)
      BY <1>1, OtherScores
    <2> QED
      BY <2>1, SameAtIs DEF SameScores
  <1>2. CASE e.about = o /\ e.kind = "objective"
    <2>1. o \in Objs /\ <<>> \in Partials(Viewers, Nat)
      BY <1>2, EventFields, NoEntries
    <2>2. SameAt(Also(f, o, <<>>), Also(g, o, <<>>), o)
      BY <1>0, <2>1, TablesMeet
    <2> QED
      BY <1>0, <1>2, <2>2, ShowIs DEF SameScores
  <1>3. CASE e.about = o /\ e.kind = "gone"
    <2>1. SameAt(Less(f, o), Less(g, o), o)
      BY <1>0, TablesMeet
    <2> QED
      BY <1>0, <1>3, <2>1, ShowIs DEF SameScores
  <1>4. CASE e.about = o /\ e.kind = "score" /\ o \in DOMAIN f
    <2>1. o \in DOMAIN g /\ f[o] = g[o]
      BY <1>0, <1>4 DEF SameAt
    <2>2. PICK x : x = Also(f[o], e.name, e.value)
      OBVIOUS
    <2>3. o \in Objs /\ f[o] \in Partials(Viewers, Nat)
      BY <1>0, <1>4, EventFields, TableIs
    <2>4. x \in Partials(Viewers, Nat)
      BY <1>4, <2>2, <2>3, EventFields, AlsoIs
    <2>5. Show(s, e).scores = Also(f, o, x)
      BY <1>0, <1>4, <2>2, ShowIs
    <2>6. Show(t, e).scores = Also(g, o, x)
      <3>1. e.kind = "score" /\ e.about \in DOMAIN t.scores
        BY <1>0, <1>4, <2>1
      <3>2. Show(t, e).scores = Also(t.scores, e.about, Also(t.scores[e.about], e.name, e.value))
        BY <3>1, ShowIs
      <3> QED
        BY <1>0, <1>4, <2>1, <2>2, <3>2
    <2>7. SameAt(Also(f, o, x), Also(g, o, x), o)
      BY <1>0, <2>3, <2>4, TablesMeet
    <2> QED
      BY <2>5, <2>6, <2>7 DEF SameScores
  <1>5. CASE e.about = o /\ e.kind = "score" /\ o \notin DOMAIN f
    <2>1. o \notin DOMAIN g
      BY <1>0, <1>5 DEF SameAt
    <2>2. Show(s, e).scores = f /\ Show(t, e).scores = g
      BY <1>0, <1>5, <2>1, ShowIs
    <2> QED
      BY <1>0, <2>2 DEF SameScores
  <1> QED
    BY <1>1, <1>2, <1>3, <1>4, <1>5, EventFields

LEMMA SameBarStays ==
    ASSUME NEW s \in Screen, NEW t \in Screen, NEW e \in BoardEvent, NEW u, SameBar(s, t, u)
    PROVE  SameBar(Show(s, e), Show(t, e), u)
  <1>0. PICK f, g : f = s.bars /\ g = t.bars /\ SameAt(f, g, u) /\ f \in Partials(Nat, Nat) /\ g \in Partials(Nat, Nat)
    BY ScreenFields DEF SameBar
  <1>1. CASE OfAnother(e, u)
    <2>1. SameBar(s, Show(s, e), u) /\ SameBar(t, Show(t, e), u)
      BY <1>1, OtherBar
    <2> QED
      BY <2>1, SameAtIs DEF SameBar
  <1>2. CASE e.name = u /\ (e.kind = "bar" \/ (e.kind = "barHealth" /\ u \in DOMAIN f))
    <2>1. u \in DOMAIN g \/ e.kind = "bar"
      BY <1>0, <1>2 DEF SameAt
    <2>2. Show(s, e).bars = Also(f, u, e.value) /\ Show(t, e).bars = Also(g, u, e.value)
      BY <1>0, <1>2, <2>1, ShowIs
    <2>3. u \in Nat /\ e.value \in Nat
      BY <1>2, EventFields
    <2>4. SameAt(Also(f, u, e.value), Also(g, u, e.value), u)
      BY <1>0, <2>3, TablesMeet
    <2> QED
      BY <2>2, <2>4 DEF SameBar
  <1>3. CASE e.name = u /\ e.kind = "barGone"
    <2>1. SameAt(Less(f, u), Less(g, u), u)
      BY <1>0, TablesMeet
    <2> QED
      BY <1>0, <1>3, <2>1, ShowIs DEF SameBar
  <1>4. CASE e.name = u /\ e.kind = "barHealth" /\ u \notin DOMAIN f
    <2>1. u \notin DOMAIN g
      BY <1>0, <1>4 DEF SameAt
    <2>2. Show(s, e).bars = f /\ Show(t, e).bars = g
      BY <1>0, <1>4, <2>1, ShowIs
    <2> QED
      BY <1>0, <2>2 DEF SameBar
  <1> QED
    BY <1>1, <1>2, <1>3, <1>4 DEF OfAnother

(* Queues of events, handled on two screens that agree on one part.        *)
LEMMA QueueKeeps ==
    ASSUME NEW s \in Screen, NEW t \in Screen, NEW q \in Seq(BoardEvent)
    PROVE  /\ \A o : SameScores(s, t, o) => SameScores(FoldLeft(Show, s, q), FoldLeft(Show, t, q), o)
           /\ \A u : SameBar(s, t, u) => SameBar(FoldLeft(Show, s, q), FoldLeft(Show, t, q), u)
  <1>1. PICK n : n = Len(q) /\ n \in Nat
    OBVIOUS
  <1>2. PICK f \in [0..n -> Screen] : Runs(f, Showing(q), s, n) /\ FoldLeft(Show, s, q) = f[n]
    BY <1>1, RunThere
  <1>3. PICK g \in [0..n -> Screen] : Runs(g, Showing(q), t, n) /\ FoldLeft(Show, t, q) = g[n]
    BY <1>1, RunThere
  <1>4. f[0] = s /\ \A k \in 1..n : f[k] = Show(f[k - 1], q[k])
    BY <1>1, <1>2, RunShows
  <1>5. g[0] = t /\ \A k \in 1..n : g[k] = Show(g[k - 1], q[k])
    BY <1>1, <1>3, RunShows
  <1>6. \A k \in 1..n : q[k] \in BoardEvent /\ k - 1 \in 0..n /\ k - 1 < k
    BY <1>1
  <1>7. ASSUME NEW o, SameScores(s, t, o) PROVE SameScores(f[n], g[n], o)
    <2> DEFINE Bad == {k \in 0..n : ~SameScores(f[k], g[k], o)}
    <2>1. ASSUME NEW k \in Bad PROVE \E m \in Bad : m < k
      <3>1. k \in 1..n
        BY <1>4, <1>5, <1>7
      <3>2. SUFFICES ASSUME SameScores(f[k - 1], g[k - 1], o) PROVE FALSE
        BY <1>6, <3>1
      <3>3. SameScores(Show(f[k - 1], q[k]), Show(g[k - 1], q[k]), o)
        BY <1>6, <3>1, <3>2, SameScoresStay
      <3> QED
        BY <1>4, <1>5, <3>1, <3>3
    <2>2. Bad \in SUBSET Nat
      OBVIOUS
    <2> HIDE DEF Bad
    <2>3. Bad = {}
      BY <2>1, <2>2, NoneBad
    <2> QED
      BY <1>1, <2>3 DEF Bad
  <1>8. ASSUME NEW u, SameBar(s, t, u) PROVE SameBar(f[n], g[n], u)
    <2> DEFINE Bad == {k \in 0..n : ~SameBar(f[k], g[k], u)}
    <2>1. ASSUME NEW k \in Bad PROVE \E m \in Bad : m < k
      <3>1. k \in 1..n
        BY <1>4, <1>5, <1>8
      <3>2. SUFFICES ASSUME SameBar(f[k - 1], g[k - 1], u) PROVE FALSE
        BY <1>6, <3>1
      <3>3. SameBar(Show(f[k - 1], q[k]), Show(g[k - 1], q[k]), u)
        BY <1>6, <3>1, <3>2, SameBarStays
      <3> QED
        BY <1>4, <1>5, <3>1, <3>3
    <2>2. Bad \in SUBSET Nat
      OBVIOUS
    <2> HIDE DEF Bad
    <2>3. Bad = {}
      BY <2>1, <2>2, NoneBad
    <2> QED
      BY <1>1, <2>3 DEF Bad
  <1> QED
    BY <1>2, <1>3, <1>7, <1>8

(* The oldest event is lost: all that it was not about is shown as before. *)
LEMMA OldestLost ==
    ASSUME NEW s \in Screen, NEW q \in Seq(BoardEvent), q # <<>>
    PROVE  /\ \A o : Head(q).about # o => SameScores(FoldLeft(Show, s, Tail(q)), FoldLeft(Show, s, q), o)
           /\ \A u : OfAnother(Head(q), u) => SameBar(FoldLeft(Show, s, Tail(q)), FoldLeft(Show, s, q), u)
  <1>1. PICK h, r, t : h = Head(q) /\ r = Tail(q) /\ t = Show(s, h)
    OBVIOUS
  <1>2. h \in BoardEvent /\ r \in Seq(BoardEvent) /\ t \in Screen
    BY <1>1, ShowIs
  <1>3. FoldLeft(Show, s, q) = FoldLeft(Show, t, r)
    BY <1>1, ShownFirst
  <1>4. ASSUME NEW o, h.about # o PROVE SameScores(FoldLeft(Show, s, r), FoldLeft(Show, t, r), o)
    <2>1. SameScores(s, t, o)
      BY <1>1, <1>2, <1>4, OtherScores
    <2> QED
      BY <1>2, <2>1, QueueKeeps
  <1>5. ASSUME NEW u, OfAnother(h, u) PROVE SameBar(FoldLeft(Show, s, r), FoldLeft(Show, t, r), u)
    <2>1. SameBar(s, t, u)
      BY <1>1, <1>2, <1>5, OtherBar
    <2> QED
      BY <1>2, <2>1, QueueKeeps
  <1> QED
    BY <1>1, <1>3, <1>4, <1>5

-----------------------------------------------------------------------------
(* Boards: the invariant                                                   *)

ScoreEvent == [kind : {"score"}, about : Objs, name : Viewers, value : Nat]
BoardsShape ==
    /\ board \in ScoreTables
    /\ \A o \in DOMAIN board : \A n \in DOMAIN board[o] : board[o][n] <= TopScore
    /\ bars \in Partials(BarIds, [uuid : Nat, health : Nat])
    /\ clerk \in {NoEvent} \cup ScoreEvent
    /\ stage \in [Viewers -> {"away", "scores", "bars", "play"}]
    /\ wires \in [Viewers -> Seq(BoardEvent)]
    /\ screens \in [Viewers -> Screen]
    /\ missed \in [Viewers -> SUBSET (Objs \cup BarIds)]
    /\ edits \in 0..MaxEdits
(* Events wait for a play loop, and for no more than the channel holds.    *)
WiresOK == \A v \in Viewers : Len(wires[v]) <= ChannelCap /\ (stage[v] # "play" => wires[v] = <<>>)
(* The event of a change whose mutex was let go says what the board says.  *)
ClerkOK ==
    clerk # NoEvent =>
        /\ clerk.about \in DOMAIN board /\ clerk.name \in DOMAIN board[clerk.about]
        /\ clerk.value = board[clerk.about][clerk.name]
UuidsOK ==
    \A id \in DOMAIN bars :
        bars[id].uuid \in 1..edits /\ \A other \in DOMAIN bars : bars[other].uuid = bars[id].uuid => other = id
(* An event that names the uuid of a bar is about that bar.                *)
Named(e) ==
    e.kind \in {"bar", "barHealth"} =>
        e.name <= edits /\ \A id \in DOMAIN bars : bars[id].uuid = e.name => id = e.about
PostOK == \A v \in Viewers : \A k \in 1..Len(wires[v]) : Named(wires[v][k])
ScoresShown ==
    \A v \in Viewers : stage[v] # "away" => \A o \in Objs \ missed[v] : SameAt(board, Shown(v).scores, o)
(* The screen when the events of the wire are handled, that of the clerk aside. *)
Played(v) == FoldLeft(Show, screens[v], wires[v])
BarsShown ==
    \A v \in Viewers :
        /\ stage[v] = "bars" => DOMAIN bars \subseteq missed[v]
        /\ stage[v] = "play" => \A id \in DOMAIN bars \ missed[v] :
              bars[id].uuid \in DOMAIN Played(v).bars /\ Played(v).bars[bars[id].uuid] = bars[id].health
BoardsInv == BoardsShape /\ WiresOK /\ ClerkOK /\ UuidsOK /\ PostOK /\ ScoresShown /\ BarsShown

LEMMA ComingIs ==
    ASSUME NEW s \in Screen, NEW q \in Seq(BoardEvent), NEW c \in {NoEvent} \cup ScoreEvent
    PROVE  /\ FoldLeft(Show, s, q) \in Screen
           /\ c = NoEvent => FoldLeft(Show, s, q \o (IF c = NoEvent THEN <<>> ELSE <<c>>)) = FoldLeft(Show, s, q)
           /\ c # NoEvent => /\ c \in BoardEvent
                             /\ FoldLeft(Show, s, q \o (IF c = NoEvent THEN <<>> ELSE <<c>>))
                                    = Show(FoldLeft(Show, s, q), c)
                             /\ Show(FoldLeft(Show, s, q), c) \in Screen
                             /\ Show(FoldLeft(Show, s, q), c).bars = FoldLeft(Show, s, q).bars
  <1>1. FoldLeft(Show, s, q) \in Screen
    <2>1. PICK n, f : n = Len(q) /\ f \in [0..n -> Screen] /\ FoldLeft(Show, s, q) = f[n]
      BY RunThere
    <2> QED
      BY <2>1
  <1>2. CASE c = NoEvent
    <2>1. q \o (IF c = NoEvent THEN <<>> ELSE <<c>>) = q
      BY <1>2
    <2> QED
      BY <1>1, <1>2, <2>1
  <1>3. CASE c # NoEvent
    <2>1. c \in ScoreEvent /\ c \in BoardEvent /\ c.kind = "score"
      BY <1>3 DEF ScoreEvent, BoardEvent
    <2>2. q \o (IF c = NoEvent THEN <<>> ELSE <<c>>) = Append(q, c)
      BY <1>3, <2>1
    <2>3. FoldLeft(Show, s, Append(q, c)) = Show(FoldLeft(Show, s, q), c)
      BY <2>1, ShownMore
    <2>4. Show(FoldLeft(Show, s, q), c) \in Screen
      BY <1>1, <2>1, ShowIs
    <2>5. Show(FoldLeft(Show, s, q), c).bars = FoldLeft(Show, s, q).bars
      BY <1>1, <2>1, ShowIs
    <2> QED
      BY <1>1, <1>3, <2>1, <2>2, <2>3, <2>4, <2>5
  <1> QED
    BY <1>2, <1>3

LEMMA ShownNow ==
    ASSUME BoardsShape, NEW v \in Viewers
    PROVE  /\ Played(v) \in Screen /\ Shown(v) \in Screen /\ Shown(v).bars = Played(v).bars
           /\ clerk = NoEvent => Shown(v) = Played(v)
           /\ clerk # NoEvent => clerk \in BoardEvent /\ Shown(v) = Show(Played(v), clerk)
  <1>1. PICK s, q, c : s = screens[v] /\ q = wires[v] /\ c = clerk
    OBVIOUS
  <1>2. s \in Screen /\ q \in Seq(BoardEvent) /\ c \in {NoEvent} \cup ScoreEvent
    BY <1>1 DEF BoardsShape
  <1>3. Played(v) = FoldLeft(Show, s, q)
    BY <1>1 DEF Played
  <1>4. Shown(v) = FoldLeft(Show, s, q \o (IF c = NoEvent THEN <<>> ELSE <<c>>))
    BY <1>1 DEF Shown, Coming
  <1>5. PICK p, r : p = FoldLeft(Show, s, q) /\ r = FoldLeft(Show, s, q \o (IF c = NoEvent THEN <<>> ELSE <<c>>))
    OBVIOUS
  <1>6. /\ p \in Screen /\ (c = NoEvent => r = p)
        /\ c # NoEvent => /\ c \in BoardEvent /\ r = Show(p, c)
                          /\ Show(p, c) \in Screen /\ Show(p, c).bars = p.bars
    BY <1>2, <1>5, ComingIs
  <1> QED
    BY <1>1, <1>3, <1>4, <1>5, <1>6

LEMMA ShownNext ==
    ASSUME BoardsShape', NEW v \in Viewers
    PROVE  /\ Played(v)' \in Screen /\ Shown(v)' \in Screen /\ Shown(v)'.bars = Played(v)'.bars
           /\ clerk' = NoEvent => Shown(v)' = Played(v)'
           /\ clerk' # NoEvent => clerk' \in BoardEvent /\ Shown(v)' = Show(Played(v)', clerk')
           /\ Played(v)' = FoldLeft(Show, screens'[v], wires'[v])
  <1>1. PICK s, q, c : s = screens'[v] /\ q = wires'[v] /\ c = clerk'
    OBVIOUS
  <1>2. s \in Screen /\ q \in Seq(BoardEvent) /\ c \in {NoEvent} \cup ScoreEvent
    BY <1>1 DEF BoardsShape
  <1>3. Played(v)' = FoldLeft(Show, s, q) /\ Played(v)' = FoldLeft(Show, screens'[v], wires'[v])
    BY <1>1 DEF Played
  <1>4. Shown(v)' = FoldLeft(Show, s, q \o (IF c = NoEvent THEN <<>> ELSE <<c>>))
    BY <1>1 DEF Shown, Coming
  <1>5. PICK p, r : p = FoldLeft(Show, s, q) /\ r = FoldLeft(Show, s, q \o (IF c = NoEvent THEN <<>> ELSE <<c>>))
    OBVIOUS
  <1>6. /\ p \in Screen /\ (c = NoEvent => r = p)
        /\ c # NoEvent => /\ c \in BoardEvent /\ r = Show(p, c)
                          /\ Show(p, c) \in Screen /\ Show(p, c).bars = p.bars
    BY <1>2, <1>5, ComingIs
  <1> QED
    BY <1>1, <1>3, <1>4, <1>5, <1>6

(* What an event does to the wires, whatever it says.                      *)
LEMMA BroadcastWires ==
    ASSUME BoardsInv, NEW e \in BoardEvent, Broadcast(e), UNCHANGED <<stage, screens>>
    PROVE  /\ wires' \in [Viewers -> Seq(BoardEvent)] /\ missed' \in [Viewers -> SUBSET (Objs \cup BarIds)]
           /\ stage' = stage /\ screens' = screens
           /\ WiresOK'
           /\ \A v \in Viewers : missed[v] \subseteq missed'[v] /\ (stage[v] \in {"scores", "bars"} => e.about \in missed'[v])
           /\ \A v \in Viewers : stage[v] # "play" => wires'[v] = <<>>
           /\ \A v \in Viewers : \A k \in 1..Len(wires'[v]) :
                  wires'[v][k] = e \/ \E j \in 1..Len(wires[v]) : wires'[v][k] = wires[v][j]
  <1>0. /\ wires \in [Viewers -> Seq(BoardEvent)] /\ missed \in [Viewers -> SUBSET (Objs \cup BarIds)]
        /\ stage' = stage /\ screens' = screens /\ ChannelCap \in Nat \ {0} /\ e.about \in Objs \cup BarIds
    BY BoardsAssumption, EventFields DEF BoardsInv, BoardsShape
  <1>1. ASSUME NEW v \in Viewers
        PROVE  /\ wires'[v] \in Seq(BoardEvent) /\ missed'[v] \in SUBSET (Objs \cup BarIds)
               /\ Len(wires'[v]) <= ChannelCap
               /\ missed[v] \subseteq missed'[v] /\ (stage[v] \in {"scores", "bars"} => e.about \in missed'[v])
               /\ stage[v] # "play" => wires'[v] = <<>>
               /\ \A k \in 1..Len(wires'[v]) :
                     wires'[v][k] = e \/ \E j \in 1..Len(wires[v]) : wires'[v][k] = wires[v][j]
    <2>1. PICK q : q = wires[v]
      OBVIOUS
    <2>2. q \in Seq(BoardEvent) /\ Len(q) <= ChannelCap /\ (stage[v] # "play" => q = <<>>) /\ Len(q) \in Nat
      BY <1>0, <2>1 DEF BoardsInv, WiresOK
    <2>3. CASE stage[v] # "play"
      <3>1. wires'[v] = <<>> /\ Len(<<>>) = 0
        BY <2>1, <2>2, <2>3 DEF Broadcast
      <3>2. missed'[v] = IF stage[v] = "away" THEN missed[v] ELSE missed[v] \cup {e.about}
        BY <2>3 DEF Broadcast
      <3> QED
        BY <1>0, <2>3, <3>1, <3>2
    <2>4. CASE stage[v] = "play" /\ Lags(v)
      <3>1. Len(q) = ChannelCap /\ q # <<>>
        BY <1>0, <2>1, <2>2, <2>4 DEF Lags
      <3>2. PICK t : t = Tail(q)
        OBVIOUS
      <3>3. /\ t \in Seq(BoardEvent) /\ Len(t) = Len(q) - 1 /\ \A k \in 1..Len(t) : t[k] = q[k + 1] /\ k + 1 \in 1..Len(q)
            /\ Head(q) \in BoardEvent
        BY <2>2, <3>1, <3>2
      <3>4. wires'[v] = Append(t, e)
        BY <2>1, <2>4, <3>2 DEF Broadcast
      <3>5. missed'[v] = missed[v] \cup {Head(q).about}
        BY <2>1, <2>4 DEF Broadcast
      <3>6. Head(q).about \in Objs \cup BarIds
        BY <3>3, EventFields
      <3>7. /\ Append(t, e) \in Seq(BoardEvent) /\ Len(Append(t, e)) = Len(q)
            /\ \A k \in 1..Len(Append(t, e)) : Append(t, e)[k] = e \/ (k \in 1..Len(t) /\ Append(t, e)[k] = t[k])
        BY <2>2, <3>3
      <3> QED
        BY <1>0, <2>1, <2>2, <2>4, <3>3, <3>4, <3>5, <3>6, <3>7
    <2>5. CASE stage[v] = "play" /\ ~Lags(v)
      <3>1. Len(q) < ChannelCap
        BY <1>0, <2>1, <2>2, <2>5 DEF Lags
      <3>2. wires'[v] = Append(q, e)
        BY <2>1, <2>5 DEF Broadcast
      <3>3. missed'[v] = missed[v]
        BY <2>5 DEF Broadcast
      <3>4. /\ Append(q, e) \in Seq(BoardEvent) /\ Len(Append(q, e)) = Len(q) + 1
            /\ \A k \in 1..Len(Append(q, e)) : Append(q, e)[k] = e \/ (k \in 1..Len(q) /\ Append(q, e)[k] = q[k])
        BY <2>2
      <3> QED
        BY <1>0, <2>1, <2>2, <2>5, <3>1, <3>2, <3>3, <3>4
    <2> QED
      BY <2>3, <2>4, <2>5
  <1>2. wires' = [v \in Viewers |-> wires'[v]] /\ missed' = [v \in Viewers |-> missed'[v]]
    BY DEF Broadcast
  <1>3. WiresOK'
    BY <1>0, <1>1 DEF WiresOK
  <1>4. wires' \in [Viewers -> Seq(BoardEvent)] /\ missed' \in [Viewers -> SUBSET (Objs \cup BarIds)]
    BY <1>1, <1>2
  <1> QED
    BY <1>0, <1>1, <1>3, <1>4

(* What it does to the screen of a client that plays: it finds a screen    *)
(* that shows all but what missed counts as before.                        *)
LEMMA BroadcastPlays ==
    ASSUME BoardsInv, NEW e \in BoardEvent, Broadcast(e), UNCHANGED <<stage, screens>>,
           NEW v \in Viewers, stage[v] = "play"
    PROVE  \E s \in Screen :
              /\ FoldLeft(Show, screens'[v], wires'[v]) = Show(s, e)
              /\ \A o \in Objs \ missed'[v] : SameScores(Played(v), s, o)
              /\ \A id \in DOMAIN bars \ missed'[v] : SameBar(Played(v), s, bars[id].uuid)
  <1>1. PICK q, t : q = wires[v] /\ t = screens[v] /\ t = screens'[v]
    OBVIOUS
  <1>2. q \in Seq(BoardEvent) /\ t \in Screen /\ ChannelCap \in Nat \ {0} /\ Played(v) = FoldLeft(Show, t, q)
    BY <1>1, BoardsAssumption DEF BoardsInv, BoardsShape, Played
  <1>3. CASE Lags(v)
    <2>1. q # <<>> /\ Len(q) \in Nat
      BY <1>1, <1>2, <1>3 DEF Lags
    <2>2. PICK r, h, s : r = Tail(q) /\ h = Head(q) /\ s = FoldLeft(Show, t, r)
      OBVIOUS
    <2>3. r \in Seq(BoardEvent) /\ h \in BoardEvent /\ h = q[1] /\ 1 \in 1..Len(q)
      BY <1>2, <2>1, <2>2
    <2>4. wires'[v] = Append(r, e) /\ missed'[v] = missed[v] \cup {h.about}
      BY <1>1, <1>3, <2>2 DEF Broadcast
    <2>5. s \in Screen /\ FoldLeft(Show, t, Append(r, e)) = Show(s, e)
      BY <1>2, <2>2, <2>3, ShownMore
    <2>6. ASSUME NEW o \in Objs \ missed'[v] PROVE SameScores(Played(v), s, o)
      <3>1. SameScores(s, Played(v), o)
        BY <1>2, <2>1, <2>2, <2>4, OldestLost
      <3> QED
        BY <3>1, SameAtIs DEF SameScores
    <2>7. ASSUME NEW id \in DOMAIN bars \ missed'[v] PROVE SameBar(Played(v), s, bars[id].uuid)
      <3>1. Named(h)
        BY <1>1, <2>3 DEF BoardsInv, PostOK
      <3>2. bars[id].uuid # NilUuid /\ id # h.about
        BY <2>4 DEF BoardsInv, UuidsOK, NilUuid
      <3>3. OfAnother(h, bars[id].uuid)
        BY <2>3, <3>1, <3>2, EventFields DEF Named, OfAnother
      <3>4. SameBar(s, Played(v), bars[id].uuid)
        BY <1>2, <2>1, <2>2, <3>3, OldestLost
      <3> QED
        BY <3>4, SameAtIs DEF SameBar
    <2> QED
      BY <1>1, <2>4, <2>5, <2>6, <2>7
  <1>4. CASE ~Lags(v)
    <2>1. wires'[v] = Append(q, e)
      BY <1>1, <1>4 DEF Broadcast
    <2>2. Played(v) \in Screen /\ FoldLeft(Show, t, Append(q, e)) = Show(Played(v), e)
      BY <1>2, ShownMore
    <2>3. \A o : SameScores(Played(v), Played(v), o) /\ SameBar(Played(v), Played(v), o)
      BY SameAtIs DEF SameScores, SameBar
    <2> QED
      BY <1>1, <2>1, <2>2, <2>3
  <1> QED
    BY <1>3, <1>4

(* The scoreboard as a screen, for the events to be shown on.              *)
TheBoard == [scores |-> board, bars |-> <<>>]

LEMMA TheBoardIs ==
    ASSUME BoardsShape
    PROVE  TheBoard \in Screen /\ TheBoard.scores = board
  BY NoEntries DEF BoardsShape, Screen, TheBoard

(* A change whose event is sent at once: the clients come to show it.      *)
LEMMA EditsShown ==
    ASSUME BoardsInv, BoardsShape', NEW e \in BoardEvent, Broadcast(e), UNCHANGED <<stage, screens>>,
           clerk = NoEvent, clerk' = NoEvent, \A o \in Objs : SameAt(board', Show(TheBoard, e).scores, o)
    PROVE  ScoresShown'
  <1>0. BoardsShape /\ stage' = stage /\ screens' = screens /\ screens \in [Viewers -> Screen]
    BY DEF BoardsInv, BoardsShape
  <1>1. SUFFICES ASSUME NEW v \in Viewers, stage[v] # "away", NEW o \in Objs \ missed'[v]
                 PROVE  SameAt(board', Shown(v)'.scores, o)
    BY <1>0 DEF ScoresShown
  <1>2. o \notin missed[v]
    BY <1>1, BroadcastWires
  <1>3. SameScores(TheBoard, Played(v), o) /\ Played(v) \in Screen
    BY <1>0, <1>1, <1>2, ShownNow, TheBoardIs DEF BoardsInv, ScoresShown, SameScores
  <1>4. SameAt(board', Show(TheBoard, e).scores, o)
    OBVIOUS
  <1>5. Shown(v)' = FoldLeft(Show, screens'[v], wires'[v])
    BY ShownNext
  <1>6. CASE stage[v] = "play"
    <2>1. PICK s \in Screen : Shown(v)' = Show(s, e) /\ SameScores(Played(v), s, o)
      BY <1>5, <1>6, BroadcastPlays
    <2>2. SameScores(TheBoard, s, o)
      BY <1>3, <2>1, SameAtIs DEF SameScores
    <2>3. SameScores(Show(TheBoard, e), Show(s, e), o)
      BY <1>0, <2>2, TheBoardIs, SameScoresStay
    <2> QED
      BY <1>4, <2>1, <2>3, SameAtIs DEF SameScores
  <1>7. CASE stage[v] # "play"
    <2>1. stage[v] \in {"scores", "bars"}
      BY <1>1, <1>7 DEF BoardsInv, BoardsShape
    <2>2. wires[v] = <<>> /\ wires'[v] = <<>> /\ e.about # o
      BY <1>1, <1>7, <2>1, BroadcastWires DEF BoardsInv, WiresOK
    <2>3. Shown(v)' = Played(v)
      BY <1>0, <1>5, <2>2 DEF Played
    <2>4. SameScores(TheBoard, Show(TheBoard, e), o)
      BY <1>0, <2>2, TheBoardIs, OtherScores
    <2> QED
      BY <1>3, <1>4, <2>3, <2>4, SameAtIs DEF SameScores
  <1> QED
    BY <1>6, <1>7

(* The event of a change made before.                                      *)
LEMMA TellShown ==
    ASSUME BoardsInv, BoardsShape', TellScore
    PROVE  ScoresShown'
  <1>0. /\ BoardsShape /\ stage' = stage /\ screens' = screens /\ screens \in [Viewers -> Screen]
        /\ board' = board /\ clerk # NoEvent /\ clerk' = NoEvent /\ Broadcast(clerk)
    BY DEF BoardsInv, BoardsShape, TellScore
  <1>1. SUFFICES ASSUME NEW v \in Viewers, stage[v] # "away", NEW o \in Objs \ missed'[v]
                 PROVE  SameAt(board, Shown(v)'.scores, o)
    BY <1>0 DEF ScoresShown
  <1>2. PICK e : e = clerk /\ e \in BoardEvent
    BY <1>0, <1>1, ShownNow
  <1>3. o \notin missed[v]
    BY <1>0, <1>1, <1>2, BroadcastWires
  <1>4. SameAt(board, Show(Played(v), e).scores, o) /\ Played(v) \in Screen
    BY <1>0, <1>1, <1>2, <1>3, ShownNow DEF BoardsInv, ScoresShown
  <1>5. Shown(v)' = FoldLeft(Show, screens'[v], wires'[v])
    BY <1>0, ShownNext
  <1>6. CASE stage[v] = "play"
    <2>1. PICK s \in Screen : Shown(v)' = Show(s, e) /\ SameScores(Played(v), s, o)
      BY <1>0, <1>2, <1>5, <1>6, BroadcastPlays
    <2>2. SameScores(Show(Played(v), e), Show(s, e), o)
      BY <1>2, <1>4, <2>1, SameScoresStay
    <2> QED
      BY <1>4, <2>1, <2>2, SameAtIs DEF SameScores
  <1>7. CASE stage[v] # "play"
    <2>1. stage[v] \in {"scores", "bars"}
      BY <1>0, <1>1, <1>7 DEF BoardsShape
    <2>2. wires[v] = <<>> /\ wires'[v] = <<>> /\ e.about # o
      BY <1>0, <1>1, <1>2, <1>7, <2>1, BroadcastWires DEF BoardsInv, WiresOK
    <2>3. Shown(v)' = Played(v)
      BY <1>0, <1>5, <2>2 DEF Played
    <2>4. SameScores(Played(v), Show(Played(v), e), o)
      BY <1>2, <1>4, <2>2, OtherScores
    <2> QED
      BY <1>4, <2>3, <2>4, SameAtIs DEF SameScores
  <1> QED
    BY <1>6, <1>7

(* A bar an event is not about is shown as before.                         *)
LEMMA BarKept ==
    ASSUME BoardsInv, BoardsShape', NEW e \in BoardEvent, Broadcast(e), UNCHANGED <<stage, screens>>,
           NEW v \in Viewers, stage[v] = "play", NEW id \in DOMAIN bars \ missed'[v], OfAnother(e, bars[id].uuid)
    PROVE  bars[id].uuid \in DOMAIN Played(v)'.bars /\ Played(v)'.bars[bars[id].uuid] = bars[id].health
  <1>1. PICK u : u = bars[id].uuid
    OBVIOUS
  <1>2. PICK s \in Screen : Played(v)' = Show(s, e) /\ SameBar(Played(v), s, u)
    BY <1>1, ShownNext, BroadcastPlays
  <1>3. SameBar(s, Show(s, e), u)
    BY <1>1, OtherBar
  <1>4. id \notin missed[v]
    BY BroadcastWires
  <1>5. u \in DOMAIN Played(v).bars /\ Played(v).bars[u] = bars[id].health
    BY <1>1, <1>4 DEF BoardsInv, BarsShown
  <1> QED
    BY <1>1, <1>2, <1>3, <1>5 DEF SameBar, SameAt

(* The events sent before still name the bars they are about, and the one  *)
(* sent now does.                                                          *)
LEMMA PostStays ==
    ASSUME BoardsInv, NEW e \in BoardEvent, Broadcast(e), UNCHANGED <<stage, screens>>,
           Named(e)', \A x \in BoardEvent : Named(x) => Named(x)'
    PROVE  PostOK'
  <1>1. SUFFICES ASSUME NEW v \in Viewers, NEW k \in 1..Len(wires'[v]), NEW x, x = wires'[v][k] PROVE Named(x)'
    BY DEF PostOK, Named
  <1>2. CASE x = e
    BY <1>2 DEF Named
  <1>3. CASE \E j \in 1..Len(wires[v]) : x = wires[v][j]
    <2>1. wires[v] \in Seq(BoardEvent)
      BY DEF BoardsInv, BoardsShape
    <2>2. x \in BoardEvent /\ Named(x)
      BY <1>3, <2>1 DEF BoardsInv, PostOK
    <2> QED
      BY <2>2
  <1> QED
    BY <1>1, <1>2, <1>3, BroadcastWires

(* The changes of the scoreboard                                           *)
LEMMA ScoresAre ==
    ASSUME BoardsShape, NEW o \in DOMAIN board, NEW n \in Viewers, NEW x \in Nat
    PROVE  /\ board[o] \in Partials(Viewers, Nat)
           /\ Also(board[o], n, x) \in Partials(Viewers, Nat)
           /\ [board EXCEPT ![o] = Also(@, n, x)] = Also(board, o, Also(board[o], n, x))
           /\ Also(board, o, Also(board[o], n, x)) \in ScoreTables
           /\ DOMAIN board \subseteq Objs
  <1>1. PICK f : f = board /\ f \in Partials(Objs, Partials(Viewers, Nat)) /\ o \in DOMAIN f
    BY DEF BoardsShape, ScoreTables
  <1>2. f \in [DOMAIN f -> Partials(Viewers, Nat)] /\ DOMAIN f \subseteq Objs
    BY <1>1, TableIs
  <1>3. PICK g : g = Also(f[o], n, x)
    OBVIOUS
  <1>4. f[o] \in Partials(Viewers, Nat) /\ g \in Partials(Viewers, Nat)
    BY <1>1, <1>2, <1>3, AlsoIs
  <1>5. [f EXCEPT ![o] = g] = Also(f, o, g)
    BY <1>1, ChangedIsAlso
  <1>6. [f EXCEPT ![o] = Also(@, n, x)] = [f EXCEPT ![o] = g]
    BY <1>1, <1>2, <1>3
  <1>7. Also(f, o, g) \in ScoreTables
    BY <1>1, <1>2, <1>4, AlsoIs DEF ScoreTables
  <1> QED
    BY <1>1, <1>2, <1>3, <1>4, <1>5, <1>6, <1>7

LEMMA TopStays ==
    ASSUME BoardsShape, NEW o \in DOMAIN board, NEW n \in Viewers, NEW x \in Nat, x <= TopScore,
           NEW f, f = Also(board, o, Also(board[o], n, x))
    PROVE  /\ \A p \in DOMAIN f : \A m \in DOMAIN f[p] : f[p][m] <= TopScore
           /\ o \in DOMAIN f /\ n \in DOMAIN f[o] /\ f[o][n] = x
           /\ \A p \in DOMAIN board \ {o} : p \in DOMAIN f /\ f[p] = board[p]
           /\ DOMAIN f = DOMAIN board
  <1>1. PICK g, h : g = Also(h, n, x) /\ h = board[o]
    OBVIOUS
  <1>2. DOMAIN g = DOMAIN board[o] \cup {n} /\ g[n] = x /\ \A m \in DOMAIN board[o] \ {n} : g[m] = board[o][m]
    BY <1>1 DEF Also
  <1>3. DOMAIN f = DOMAIN board \cup {o} /\ f[o] = g /\ \A p \in DOMAIN board \ {o} : f[p] = board[p]
    BY <1>1 DEF Also
  <1>4. \A p \in DOMAIN board : \A m \in DOMAIN board[p] : board[p][m] <= TopScore
    BY DEF BoardsShape
  <1>5. \A m \in DOMAIN g : g[m] <= TopScore
    BY <1>2, <1>4
  <1> QED
    BY <1>2, <1>3, <1>4, <1>5

(* Nothing of the bars changes, and the event is about none.               *)
LEMMA BarsLeft ==
    ASSUME BoardsInv, BoardsShape', NEW e \in BoardEvent, Broadcast(e), UNCHANGED <<stage, screens, bars>>,
           e.kind \in {"objective", "gone", "score"}, edits' \in {edits, edits + 1}
    PROVE  UuidsOK' /\ PostOK' /\ BarsShown'
  <1>0. edits \in Nat /\ bars' = bars /\ edits <= edits'
    BY DEF BoardsInv, BoardsShape
  <1>1. UuidsOK'
    <2>1. \A id \in DOMAIN bars : bars[id].uuid \in 1..edits'
      BY <1>0 DEF BoardsInv, UuidsOK
    <2> QED
      BY <1>0, <2>1 DEF BoardsInv, UuidsOK
  <1>2. PostOK'
    <2>1. \A x \in BoardEvent : Named(x) => Named(x)'
      BY <1>0, EventFields DEF Named
    <2>2. Named(e)'
      BY DEF Named
    <2> QED
      BY <2>1, <2>2, PostStays
  <1>3. BarsShown'
    <2>1. \A v \in Viewers : stage[v] = "bars" => DOMAIN bars \subseteq missed'[v]
      BY BroadcastWires DEF BoardsInv, BarsShown
    <2>2. \A v \in Viewers : stage[v] = "play" => \A id \in DOMAIN bars \ missed'[v] :
             bars[id].uuid \in DOMAIN Played(v)'.bars /\ Played(v)'.bars[bars[id].uuid] = bars[id].health
      BY BarKept DEF OfAnother
    <2> QED
      BY <1>0, <2>1, <2>2, BroadcastWires DEF BarsShown
  <1> QED
    BY <1>1, <1>2, <1>3

LEMMA ObjectivesKeep ==
    ASSUME BoardsInv, NEW o \in Objs, AddObjective(o) \/ RemoveObjective(o)
    PROVE  BoardsInv'
  <1> DEFINE e == IF AddObjective(o) THEN Event("objective", o, "none", 0) ELSE Event("gone", o, "none", 0)
             next == IF AddObjective(o) THEN Also(board, o, <<>>) ELSE Less(board, o)
  <1>0. /\ BoardsShape /\ clerk = NoEvent /\ clerk' = NoEvent /\ edits' = edits + 1 /\ edits < MaxEdits
        /\ bars' = bars /\ stage' = stage /\ screens' = screens /\ Broadcast(e) /\ board' = next
    BY DEF BoardsInv, AddObjective, RemoveObjective, Edit
  <1>1. e \in BoardEvent /\ e.kind \in {"objective", "gone"} /\ e.about = o
    BY DEF Event, BoardEvent
  <1>2. Show(TheBoard, e).scores = next
    <2>1. AddObjective(o) => Show(TheBoard, e).scores = Also(board, o, <<>>)
      BY <1>0, <1>1, ShowIs, TheBoardIs DEF Event
    <2>2. ~AddObjective(o) => Show(TheBoard, e).scores = Less(board, o)
      BY <1>0, <1>1, ShowIs, TheBoardIs DEF Event
    <2> QED
      BY <2>1, <2>2
  <1>3. next \in ScoreTables /\ \A p \in DOMAIN next : (p \in DOMAIN board /\ next[p] = board[p]) \/ next[p] = <<>>
    <2>1. board \in Partials(Objs, Partials(Viewers, Nat)) /\ <<>> \in Partials(Viewers, Nat)
      BY <1>0, NoEntries DEF BoardsShape, ScoreTables
    <2>2. CASE AddObjective(o)
      <3>1. PICK g : g = Also(board, o, <<>>)
        OBVIOUS
      <3>2. g \in Partials(Objs, Partials(Viewers, Nat))
        BY <2>1, <3>1, AlsoIs
      <3>3. \A p \in DOMAIN g : (p \in DOMAIN board /\ g[p] = board[p]) \/ g[p] = <<>>
        BY <3>1 DEF Also
      <3> QED
        BY <2>2, <3>1, <3>2, <3>3 DEF ScoreTables
    <2>3. CASE ~AddObjective(o)
      <3>1. PICK g : g = Less(board, o)
        OBVIOUS
      <3>2. g \in Partials(Objs, Partials(Viewers, Nat))
        BY <2>1, <3>1, LessIs
      <3>3. \A p \in DOMAIN g : p \in DOMAIN board /\ g[p] = board[p]
        BY <3>1 DEF Less
      <3> QED
        BY <2>3, <3>1, <3>2, <3>3 DEF ScoreTables
    <2> QED
      BY <2>2, <2>3
  <1> HIDE DEF e, next
  <1>4. PICK x \in BoardEvent : x = e
    BY <1>1
  <1>5. BoardsShape'
    <2>1. \A p \in DOMAIN next : \A n \in DOMAIN next[p] : next[p][n] <= TopScore
      BY <1>0, <1>3, NoEntries DEF BoardsShape
    <2>2. edits' \in 0..MaxEdits
      BY <1>0, BoardsAssumption DEF BoardsShape
    <2> QED
      BY <1>0, <1>1, <1>3, <2>1, <2>2, BroadcastWires DEF BoardsShape
  <1>6. ScoresShown'
    <2>1. \A p \in Objs : SameAt(board', Show(TheBoard, x).scores, p)
      BY <1>0, <1>2, <1>4, SameAtIs
    <2> QED
      BY <1>0, <1>4, <1>5, <2>1, EditsShown
  <1>7. UuidsOK' /\ PostOK' /\ BarsShown'
    BY <1>0, <1>1, <1>4, <1>5, BarsLeft
  <1>8. WiresOK'
    BY <1>0, <1>1, BroadcastWires
  <1>9. ClerkOK'
    BY <1>0 DEF ClerkOK
  <1> QED
    BY <1>5, <1>6, <1>7, <1>8, <1>9 DEF BoardsInv

LEMMA TellKeeps ==
    ASSUME BoardsInv, TellScore
    PROVE  BoardsInv'
  <1>0. /\ BoardsShape /\ clerk # NoEvent /\ clerk' = NoEvent /\ edits' = edits /\ board' = board
        /\ bars' = bars /\ stage' = stage /\ screens' = screens /\ Broadcast(clerk)
    BY DEF BoardsInv, TellScore
  <1>1. PICK e \in BoardEvent : e = clerk /\ e.kind = "score"
    BY <1>0 DEF BoardsShape, BoardEvent, ScoreEvent
  <1>2. BoardsShape'
    BY <1>0, <1>1, BroadcastWires DEF BoardsShape
  <1>3. ScoresShown'
    BY <1>2, TellShown
  <1>4. UuidsOK' /\ PostOK' /\ BarsShown'
    BY <1>0, <1>1, <1>2, BarsLeft
  <1>5. WiresOK' /\ ClerkOK'
    BY <1>0, <1>1, BroadcastWires DEF ClerkOK
  <1> QED
    BY <1>2, <1>3, <1>4, <1>5 DEF BoardsInv

(* Steps that send no event and show nothing.                              *)
LEMMA QuietLeft ==
    ASSUME BoardsInv, UNCHANGED <<bars, stage, wires, screens>>, edits' \in {edits, edits + 1},
           \A v \in Viewers : missed[v] \subseteq missed'[v]
    PROVE  WiresOK' /\ UuidsOK' /\ PostOK' /\ BarsShown'
  <1>0. edits \in Nat /\ edits <= edits' /\ wires \in [Viewers -> Seq(BoardEvent)]
    BY DEF BoardsInv, BoardsShape
  <1>1. WiresOK'
    BY DEF BoardsInv, WiresOK
  <1>2. UuidsOK'
    <2>1. \A id \in DOMAIN bars : bars[id].uuid \in 1..edits'
      BY <1>0 DEF BoardsInv, UuidsOK
    <2> QED
      BY <1>0, <2>1 DEF BoardsInv, UuidsOK
  <1>3. PostOK'
    <2>1. SUFFICES ASSUME NEW v \in Viewers, NEW k \in 1..Len(wires[v]), NEW x, x = wires[v][k] PROVE Named(x)'
      BY DEF PostOK, Named
    <2>2. x \in BoardEvent /\ Named(x)
      BY <1>0, <2>1 DEF BoardsInv, PostOK
    <2> QED
      BY <1>0, <2>2, EventFields DEF Named
  <1>4. BarsShown'
    <2>1. \A v \in Viewers : Played(v)' = Played(v)
      BY DEF Played
    <2> QED
      BY <2>1 DEF BoardsInv, BarsShown
  <1> QED
    BY <1>1, <1>2, <1>3, <1>4

LEMMA ScoreKeeps ==
    ASSUME BoardsInv, NEW o \in Objs, NEW n \in Viewers, NEW new \in Nat, NEW delta, ChangeScore(o, n, new, delta)
    PROVE  BoardsInv'
  <1> DEFINE next == Also(board, o, Also(board[o], n, new))
  <1>0. PICK e : e = Event("score", o, n, new)
    OBVIOUS
  <1>1. /\ BoardsShape /\ clerk = NoEvent /\ clerk' = e /\ edits' = edits + 1 /\ edits < MaxEdits /\ o \in DOMAIN board
        /\ new <= TopScore
        /\ bars' = bars /\ stage' = stage /\ wires' = wires /\ screens' = screens /\ missed' = missed
        /\ board' = [board EXCEPT ![o] = Also(@, n, new)]
    BY <1>0 DEF BoardsInv, ChangeScore, Edit, Announced
  <1>2. board' = next /\ next \in ScoreTables
    BY <1>1, ScoresAre
  <1>3. /\ \A p \in DOMAIN next : \A m \in DOMAIN next[p] : next[p][m] <= TopScore
        /\ o \in DOMAIN next /\ n \in DOMAIN next[o] /\ next[o][n] = new
    BY <1>1, TopStays
  <1>4. /\ e \in ScoreEvent /\ e \in BoardEvent /\ e # NoEvent
        /\ e.kind = "score" /\ e.about = o /\ e.name = n /\ e.value = new
    BY <1>0 DEF Event, ScoreEvent, BoardEvent, NoEvent
  <1>5. Show(TheBoard, e).scores = next
    BY <1>1, <1>4, TheBoardIs, ShowIs
  <1> HIDE DEF next
  <1>6. BoardsShape'
    <2>1. edits' \in 0..MaxEdits
      BY <1>1, BoardsAssumption DEF BoardsShape
    <2> QED
      BY <1>1, <1>2, <1>3, <1>4, <2>1 DEF BoardsShape
  <1>7. ClerkOK'
    BY <1>1, <1>2, <1>3, <1>4 DEF ClerkOK
  <1>8. ScoresShown'
    <2>1. SUFFICES ASSUME NEW v \in Viewers, stage[v] # "away", NEW p \in Objs \ missed[v]
                   PROVE  SameAt(next, Shown(v)'.scores, p)
      BY <1>1, <1>2 DEF ScoresShown
    <2>2. SameScores(TheBoard, Played(v), p) /\ Played(v) \in Screen
      BY <1>1, <2>1, ShownNow, TheBoardIs DEF BoardsInv, ScoresShown, SameScores
    <2>3. SameScores(Show(TheBoard, e), Show(Played(v), e), p)
      BY <1>1, <1>4, <2>2, TheBoardIs, SameScoresStay
    <2>4. Played(v)' = Played(v)
      BY <1>1 DEF Played
    <2>5. Shown(v)' = Show(Played(v), e)
      BY <1>1, <1>4, <1>6, <2>4, ShownNext
    <2> QED
      BY <1>5, <2>3, <2>5 DEF SameScores
  <1>9. WiresOK' /\ UuidsOK' /\ PostOK' /\ BarsShown'
    BY <1>1, QuietLeft
  <1> QED
    BY <1>6, <1>7, <1>8, <1>9 DEF BoardsInv

LEMMA TriggerKeeps ==
    ASSUME BoardsInv, NEW p \in Viewers, NEW o \in Objs, NEW add \in BOOLEAN, NEW value \in Nat, Trigger(p, o, add, value)
    PROVE  BoardsInv'
  <1> DEFINE new == IF add THEN ScoreOf(o, p) + value ELSE value
             next == Also(board, o, Also(board[o], p, new))
  <1>1. /\ BoardsShape /\ clerk = NoEvent /\ clerk' = NoEvent /\ edits' = edits + 1 /\ edits < MaxEdits /\ o \in DOMAIN board
        /\ new <= TopScore /\ Unsent(o)
        /\ bars' = bars /\ stage' = stage /\ wires' = wires /\ screens' = screens
        /\ board' = [board EXCEPT ![o] = Also(@, p, new)]
    BY DEF BoardsInv, Trigger, Edit
  <1>2. new \in Nat
    <2>1. board[o] \in Partials(Viewers, Nat)
      BY <1>1, ScoresAre
    <2>2. ScoreOf(o, p) \in Nat
      BY <2>1, TableIs DEF ScoreOf
    <2> QED
      BY <2>2
  <1> HIDE DEF new
  <1>3. board' = next /\ next \in ScoreTables
    BY <1>1, <1>2, ScoresAre
  <1>4. /\ \A q \in DOMAIN next : \A m \in DOMAIN next[q] : next[q][m] <= TopScore
        /\ \A q \in DOMAIN board \ {o} : q \in DOMAIN next /\ next[q] = board[q]
        /\ DOMAIN next = DOMAIN board
    BY <1>1, <1>2, TopStays
  <1> HIDE DEF next
  <1>5. /\ missed' \in [Viewers -> SUBSET (Objs \cup BarIds)]
        /\ \A v \in Viewers : missed[v] \subseteq missed'[v] /\ (stage[v] # "away" => o \in missed'[v])
    BY <1>1 DEF Unsent, BoardsShape
  <1>6. BoardsShape'
    <2>1. edits' \in 0..MaxEdits
      BY <1>1, BoardsAssumption DEF BoardsShape
    <2> QED
      BY <1>1, <1>3, <1>4, <1>5, <2>1 DEF BoardsShape
  <1>7. ClerkOK'
    BY <1>1 DEF ClerkOK
  <1>8. ScoresShown'
    <2>1. SUFFICES ASSUME NEW v \in Viewers, stage[v] # "away", NEW q \in Objs \ missed'[v]
                   PROVE  SameAt(next, Shown(v)'.scores, q)
      BY <1>1, <1>3 DEF ScoresShown
    <2>2. SameAt(board, Shown(v).scores, q) /\ q # o
      BY <1>5, <2>1 DEF BoardsInv, ScoresShown
    <2>3. Shown(v)' = Shown(v)
      BY <1>1 DEF Shown, Coming
    <2> QED
      BY <1>4, <2>2, <2>3 DEF SameAt
  <1>9. WiresOK' /\ UuidsOK' /\ PostOK' /\ BarsShown'
    BY <1>1, <1>5, QuietLeft
  <1> QED
    BY <1>6, <1>7, <1>8, <1>9 DEF BoardsInv

(* The steps of one client: what is to be shown of it.                     *)
Unmoved(w) == stage'[w] = stage[w] /\ wires'[w] = wires[w] /\ screens'[w] = screens[w] /\ missed'[w] = missed[w]

LEMMA ClientSteps ==
    ASSUME BoardsInv, UNCHANGED <<board, bars, clerk, edits>>, NEW v \in Viewers, \A w \in Viewers \ {v} : Unmoved(w),
           BoardsShape',
           Len(wires'[v]) <= ChannelCap, stage'[v] # "play" => wires'[v] = <<>>,
           \A k \in 1..Len(wires'[v]) : Named(wires'[v][k]),
           stage'[v] # "away" => \A o \in Objs \ missed'[v] : SameAt(board, Shown(v)'.scores, o),
           stage'[v] = "bars" => DOMAIN bars \subseteq missed'[v],
           stage'[v] = "play" => \A id \in DOMAIN bars \ missed'[v] :
              bars[id].uuid \in DOMAIN Played(v)'.bars /\ Played(v)'.bars[bars[id].uuid] = bars[id].health
    PROVE  BoardsInv'
  <1>1. ASSUME NEW w \in Viewers \ {v} PROVE Played(w)' = Played(w) /\ Shown(w)' = Shown(w)
    BY <1>1 DEF Unmoved, Played, Shown, Coming
  <1>2. WiresOK'
    BY DEF BoardsInv, WiresOK, Unmoved
  <1>3. ClerkOK' /\ UuidsOK'
    BY DEF BoardsInv, ClerkOK, UuidsOK
  <1>4. PostOK'
    <2>1. SUFFICES ASSUME NEW w \in Viewers, NEW k \in 1..Len(wires'[w]), NEW x, x = wires'[w][k] PROVE Named(x)'
      BY DEF PostOK, Named
    <2>2. Named(x)
      BY <2>1 DEF BoardsInv, PostOK, Unmoved
    <2> QED
      BY <2>2 DEF Named
  <1>5. ScoresShown'
    <2>1. SUFFICES ASSUME NEW w \in Viewers, stage'[w] # "away", NEW o \in Objs \ missed'[w]
                   PROVE  SameAt(board, Shown(w)'.scores, o)
      BY DEF ScoresShown
    <2>2. CASE w = v
      BY <2>1, <2>2
    <2>3. CASE w # v
      BY <1>1, <2>1, <2>3 DEF BoardsInv, ScoresShown, Unmoved
    <2> QED
      BY <2>2, <2>3
  <1>6. BarsShown'
    <2>1. SUFFICES ASSUME NEW w \in Viewers
                   PROVE  /\ stage'[w] = "bars" => DOMAIN bars \subseteq missed'[w]
                          /\ stage'[w] = "play" => \A id \in DOMAIN bars \ missed'[w] :
                                bars[id].uuid \in DOMAIN Played(w)'.bars
                                /\ Played(w)'.bars[bars[id].uuid] = bars[id].health
      BY DEF BarsShown
    <2>2. CASE w = v
      BY <2>1, <2>2
    <2>3. CASE w # v
      BY <1>1, <2>1, <2>3 DEF BoardsInv, BarsShown, Unmoved
    <2> QED
      BY <2>2, <2>3
  <1> QED
    BY <1>2, <1>3, <1>4, <1>5, <1>6 DEF BoardsInv

LEMMA NothingComes ==
    ASSUME BoardsShape, NEW v \in Viewers, wires[v] = <<>>
    PROVE  Played(v) = screens[v]
  BY ShownNone DEF BoardsShape, Played

LEMMA SendScoresKeeps ==
    ASSUME BoardsInv, NEW v \in Viewers, SendScores(v)
    PROVE  BoardsInv'
  <1>1. PICK s : s = [Blank EXCEPT !.scores = board]
    OBVIOUS
  <1>2. /\ BoardsShape /\ stage[v] = "away" /\ UNCHANGED <<board, bars, clerk, wires, edits>>
        /\ stage' = [stage EXCEPT ![v] = "scores"] /\ screens' = [screens EXCEPT ![v] = s]
        /\ missed' = [missed EXCEPT ![v] = {}]
    BY <1>1 DEF BoardsInv, SendScores
  <1>3. s \in Screen /\ s.scores = board
    <2>1. Blank \in Screen
      BY NoEntries DEF Blank, Screen, ScoreTables
    <2>2. board \in ScoreTables
      BY <1>2 DEF BoardsShape
    <2> QED
      BY <1>1, <2>1, <2>2, ScreenFields
  <1>4. BoardsShape'
    BY <1>2, <1>3 DEF BoardsShape
  <1>5. \A w \in Viewers \ {v} : Unmoved(w)
    BY <1>2 DEF Unmoved, BoardsShape
  <1>6. stage'[v] = "scores" /\ wires'[v] = <<>> /\ screens'[v] = s /\ Len(<<>>) = 0
    BY <1>2 DEF BoardsInv, BoardsShape, WiresOK
  <1>7. Played(v)' = s
    BY <1>3, <1>4, <1>6, ShownNext, ShownNone
  <1>8. Shown(v)'.scores = board
    <2>1. CASE clerk = NoEvent
      BY <1>2, <1>3, <1>4, <1>7, <2>1, ShownNext
    <2>2. CASE clerk # NoEvent
      <3>1. PICK e \in BoardEvent : e = clerk /\ e.kind = "score" /\ Shown(v)' = Show(s, e)
        BY <1>2, <1>4, <1>7, <2>2, ShownNext DEF BoardsShape, ScoreEvent, BoardEvent
      <3>2. e.about \in DOMAIN board /\ e.name \in DOMAIN board[e.about] /\ e.value = board[e.about][e.name]
        BY <2>2, <3>1 DEF BoardsInv, ClerkOK
      <3>3. Show(s, e).scores = Also(board, e.about, Also(board[e.about], e.name, e.value))
        BY <1>3, <3>1, <3>2, ShowIs
      <3>4. \A A, B : \A f \in Partials(A, B) : \A k \in DOMAIN f : Also(f, k, f[k]) = f
        <4>1. SUFFICES ASSUME NEW A, NEW B, NEW f \in Partials(A, B), NEW k \in DOMAIN f PROVE Also(f, k, f[k]) = f
          OBVIOUS
        <4>2. f \in [DOMAIN f -> B]
          BY TableIs
        <4> QED
          BY <4>2 DEF Also
      <3>5. board \in Partials(Objs, Partials(Viewers, Nat)) /\ board[e.about] \in Partials(Viewers, Nat)
        <4>1. board \in Partials(Objs, Partials(Viewers, Nat))
          BY <1>2 DEF BoardsShape, ScoreTables
        <4>2. board \in [DOMAIN board -> Partials(Viewers, Nat)]
          BY <4>1, TableIs
        <4> QED
          BY <3>2, <4>1, <4>2
      <3>6. Also(board[e.about], e.name, e.value) = board[e.about]
        BY <3>2, <3>4, <3>5
      <3>7. Also(board, e.about, board[e.about]) = board
        BY <3>2, <3>4, <3>5
      <3> QED
        BY <3>1, <3>3, <3>6, <3>7
    <2> QED
      BY <2>1, <2>2
  <1>9. \A o \in Objs : SameAt(board, Shown(v)'.scores, o)
    BY <1>8, SameAtIs
  <1> QED
    BY <1>2, <1>4, <1>5, <1>6, <1>9, BoardsAssumption, ClientSteps

LEMMA SendBarsKeeps ==
    ASSUME BoardsInv, NEW v \in Viewers, SendBars(v)
    PROVE  BoardsInv'
  <1>1. PICK last : /\ last \in IF bars = <<>> THEN {<<>>} ELSE {[u \in {NilUuid} |-> bars[id].health] : id \in DOMAIN bars}
                    /\ screens' = [screens EXCEPT ![v].bars = last]
    BY DEF SendBars
  <1>2. /\ BoardsShape /\ stage[v] = "scores" /\ UNCHANGED <<board, bars, clerk, wires, edits>>
        /\ stage' = [stage EXCEPT ![v] = "bars"]
        /\ missed' = [missed EXCEPT ![v] = @ \cup DOMAIN bars]
    BY DEF BoardsInv, SendBars
  <1>3. DOMAIN bars \subseteq BarIds /\ bars \in [DOMAIN bars -> [uuid : Nat, health : Nat]]
    BY <1>2, TableIs DEF BoardsShape
  <1>4. last \in Partials(Nat, Nat)
    <2>1. CASE bars = <<>>
      BY <1>1, <2>1, NoEntries
    <2>2. CASE bars # <<>>
      <3>1. PICK id \in DOMAIN bars : last = [u \in {NilUuid} |-> bars[id].health]
        BY <1>1, <2>2
      <3>2. bars[id].health \in Nat
        BY <1>3
      <3>3. DOMAIN last \subseteq Nat /\ last \in [DOMAIN last -> Nat]
        BY <3>1, <3>2 DEF NilUuid
      <3> QED
        BY <3>3, TableIs
    <2> QED
      BY <2>1, <2>2
  <1>5. PICK s, t : s = screens[v] /\ t = [s EXCEPT !.bars = last]
    OBVIOUS
  <1>6. s \in Screen /\ t \in Screen /\ t.scores = s.scores
    <2>1. s \in Screen
      BY <1>2, <1>5 DEF BoardsShape
    <2> QED
      BY <1>4, <1>5, <2>1, ScreenFields
  <1>7. screens' = [screens EXCEPT ![v] = t]
    BY <1>1, <1>2, <1>5 DEF BoardsShape
  <1>8. BoardsShape'
    BY <1>2, <1>3, <1>6, <1>7 DEF BoardsShape
  <1>9. \A w \in Viewers \ {v} : Unmoved(w)
    BY <1>2, <1>7 DEF Unmoved, BoardsShape
  <1>10. /\ stage'[v] = "bars" /\ wires[v] = <<>> /\ wires'[v] = <<>> /\ screens'[v] = t /\ Len(<<>>) = 0
         /\ missed'[v] = missed[v] \cup DOMAIN bars
    BY <1>2, <1>7 DEF BoardsInv, BoardsShape, WiresOK
  <1>11. Played(v)' = t /\ Played(v) = s
    <2>1. Played(v)' = t
      BY <1>6, <1>8, <1>10, ShownNext, ShownNone
    <2>2. Played(v) = s
      BY <1>2, <1>5, <1>10, NothingComes
    <2> QED
      BY <2>1, <2>2
  <1>12. ASSUME NEW o \in Objs \ missed'[v] PROVE SameAt(board, Shown(v)'.scores, o)
    <2>1. SameAt(board, Shown(v).scores, o)
      BY <1>2, <1>10 DEF BoardsInv, ScoresShown
    <2>2. SameScores(s, t, o)
      BY <1>6, SameAtIs DEF SameScores
    <2>3. SameScores(Shown(v), Shown(v)', o)
      <3>1. CASE clerk = NoEvent
        BY <1>2, <1>8, <1>11, <2>2, <3>1, ShownNow, ShownNext
      <3>2. CASE clerk # NoEvent
        <4>1. PICK e \in BoardEvent : e = clerk /\ Shown(v) = Show(s, e) /\ Shown(v)' = Show(t, e)
          BY <1>2, <1>8, <1>11, <3>2, ShownNow, ShownNext
        <4> QED
          BY <1>6, <2>2, <4>1, SameScoresStay
      <3> QED
        BY <3>1, <3>2
    <2> QED
      BY <2>1, <2>3, SameAtIs DEF SameScores
  <1> QED
    BY <1>2, <1>8, <1>9, <1>10, <1>12, BoardsAssumption, ClientSteps

LEMMA SubscribeKeeps ==
    ASSUME BoardsInv, NEW v \in Viewers, Subscribe0(v)
    PROVE  BoardsInv'
  <1>1. /\ BoardsShape /\ stage[v] = "bars" /\ stage' = [stage EXCEPT ![v] = "play"]
        /\ UNCHANGED <<board, bars, clerk, wires, screens, missed, edits>>
    BY DEF BoardsInv, Subscribe0
  <1>2. BoardsShape'
    BY <1>1 DEF BoardsShape
  <1>3. \A w \in Viewers \ {v} : Unmoved(w)
    BY <1>1 DEF Unmoved, BoardsShape
  <1>4. stage'[v] = "play" /\ wires'[v] = <<>> /\ Len(<<>>) = 0 /\ missed'[v] = missed[v]
    BY <1>1 DEF BoardsInv, BoardsShape, WiresOK
  <1>5. Shown(v)' = Shown(v)
    BY <1>1 DEF Shown, Coming
  <1>6. \A o \in Objs \ missed'[v] : SameAt(board, Shown(v)'.scores, o)
    BY <1>1, <1>4, <1>5 DEF BoardsInv, ScoresShown
  <1>7. DOMAIN bars \subseteq missed'[v]
    BY <1>1 DEF BoardsInv, BarsShown
  <1> QED
    BY <1>1, <1>2, <1>3, <1>4, <1>6, <1>7, BoardsAssumption, ClientSteps

LEMMA HandleKeeps ==
    ASSUME BoardsInv, NEW v \in Viewers, Handle(v)
    PROVE  BoardsInv'
  <1>1. PICK q, r, h, s, t : q = wires[v] /\ r = Tail(q) /\ h = Head(q) /\ s = screens[v] /\ t = Show(s, h)
    OBVIOUS
  <1>2. /\ BoardsShape /\ q # <<>> /\ UNCHANGED <<board, bars, clerk, stage, missed, edits>>
        /\ screens' = [screens EXCEPT ![v] = Show(@, h)] /\ wires' = [wires EXCEPT ![v] = Tail(@)]
    BY <1>1 DEF BoardsInv, Handle
  <1>3. s \in Screen /\ q \in Seq(BoardEvent)
    BY <1>1, <1>2 DEF BoardsShape
  <1>4. /\ r \in Seq(BoardEvent) /\ Len(r) = Len(q) - 1 /\ h \in BoardEvent
        /\ \A k \in 1..Len(r) : r[k] = q[k + 1] /\ k + 1 \in 1..Len(q)
    BY <1>1, <1>2, <1>3
  <1>5. t \in Screen
    BY <1>1, <1>3, <1>4, ShowIs
  <1>6. screens' = [screens EXCEPT ![v] = t] /\ wires' = [wires EXCEPT ![v] = r]
    BY <1>1, <1>2 DEF BoardsShape
  <1>7. BoardsShape'
    BY <1>2, <1>4, <1>5, <1>6, ZenonT(60) DEF BoardsShape
  <1>8. \A w \in Viewers \ {v} : Unmoved(w)
    BY <1>2, <1>6 DEF Unmoved, BoardsShape
  <1>9. stage[v] = "play" /\ stage'[v] = "play" /\ wires'[v] = r /\ screens'[v] = t /\ Len(q) <= ChannelCap
    BY <1>1, <1>2, <1>6 DEF BoardsInv, BoardsShape, WiresOK
  <1>10. Len(r) <= ChannelCap
    BY <1>3, <1>4, <1>9, BoardsAssumption
  <1>11. \A k \in 1..Len(r) : Named(r[k])
    BY <1>1, <1>4 DEF BoardsInv, PostOK
  <1>12. Played(v)' = Played(v)
    <2>1. FoldLeft(Show, s, q) = FoldLeft(Show, t, r)
      BY <1>1, <1>2, <1>3, ShownFirst
    <2>2. Played(v) = FoldLeft(Show, s, q)
      BY <1>1 DEF Played
    <2>3. Played(v)' = FoldLeft(Show, t, r)
      BY <1>7, <1>9, ShownNext
    <2> QED
      BY <2>1, <2>2, <2>3
  <1>13. Shown(v)' = Shown(v)
    <2>1. CASE clerk = NoEvent
      BY <1>2, <1>7, <1>12, <2>1, ShownNow, ShownNext
    <2>2. CASE clerk # NoEvent
      BY <1>2, <1>7, <1>12, <2>2, ShownNow, ShownNext
    <2> QED
      BY <2>1, <2>2
  <1>14. \A o \in Objs \ missed'[v] : SameAt(board, Shown(v)'.scores, o)
    BY <1>2, <1>9, <1>13 DEF BoardsInv, ScoresShown
  <1>15. \A id \in DOMAIN bars \ missed'[v] :
            bars[id].uuid \in DOMAIN Played(v)'.bars /\ Played(v)'.bars[bars[id].uuid] = bars[id].health
    BY <1>2, <1>9, <1>12 DEF BoardsInv, BarsShown
  <1> QED
    BY <1>2, <1>7, <1>8, <1>9, <1>10, <1>11, <1>14, <1>15, ClientSteps

LEMMA GoAwayKeeps ==
    ASSUME BoardsInv, NEW v \in Viewers, GoAway(v)
    PROVE  BoardsInv'
  <1>1. /\ BoardsShape /\ UNCHANGED <<board, bars, clerk, edits>>
        /\ stage' = [stage EXCEPT ![v] = "away"] /\ wires' = [wires EXCEPT ![v] = <<>>]
        /\ screens' = [screens EXCEPT ![v] = Blank] /\ missed' = [missed EXCEPT ![v] = {}]
    BY DEF BoardsInv, GoAway
  <1>2. BoardsShape'
    <2>1. Blank \in Screen
      BY NoEntries DEF Blank, Screen, ScoreTables
    <2> QED
      BY <1>1, <2>1 DEF BoardsShape
  <1>3. \A w \in Viewers \ {v} : Unmoved(w)
    BY <1>1 DEF Unmoved, BoardsShape
  <1>4. stage'[v] = "away" /\ wires'[v] = <<>> /\ Len(<<>>) = 0
    BY <1>1 DEF BoardsShape
  <1> QED
    BY <1>1, <1>2, <1>3, <1>4, BoardsAssumption, ClientSteps

-----------------------------------------------------------------------------
(* Boards: the boss bars                                                   *)

(* What every change of the bars leaves alone; what its event is about is  *)
(* shown by the change's own lemma.                                        *)
LEMMA BarChanges ==
    ASSUME BoardsInv, NEW e \in BoardEvent, Broadcast(e), UNCHANGED <<board, clerk, stage, screens>>,
           clerk = NoEvent, edits' = edits + 1, edits < MaxEdits, e.kind \in {"bar", "barHealth", "barGone"},
           bars' \in Partials(BarIds, [uuid : Nat, health : Nat]), DOMAIN bars' \subseteq DOMAIN bars \cup {e.about},
           UuidsOK', Named(e)', \A x \in BoardEvent : Named(x) => Named(x)',
           BoardsShape' => \A v \in Viewers : stage[v] = "play" => \A id \in DOMAIN bars' \ missed'[v] :
              bars'[id].uuid \in DOMAIN Played(v)'.bars /\ Played(v)'.bars[bars'[id].uuid] = bars'[id].health
    PROVE  BoardsInv'
  <1>1. BoardsShape'
    <2>1. edits' \in 0..MaxEdits
      BY BoardsAssumption DEF BoardsInv, BoardsShape
    <2> QED
      BY <2>1, BroadcastWires DEF BoardsInv, BoardsShape
  <1>2. WiresOK' /\ ClerkOK' /\ PostOK'
    BY BroadcastWires, PostStays DEF ClerkOK
  <1>3. ScoresShown'
    <2>1. Show(TheBoard, e).scores = board
      BY TheBoardIs, ShowIs DEF BoardsInv
    <2>2. \A o \in Objs : SameAt(board', Show(TheBoard, e).scores, o)
      BY <2>1, SameAtIs
    <2> QED
      BY <1>1, <2>2, EditsShown
  <1>4. BarsShown'
    <2>1. \A v \in Viewers : stage[v] = "bars" => DOMAIN bars' \subseteq missed'[v]
      BY BroadcastWires DEF BoardsInv, BarsShown
    <2> QED
      BY <1>1, <2>1 DEF BarsShown
  <1> QED
    BY <1>1, <1>2, <1>3, <1>4 DEF BoardsInv

LEMMA AddBarKeeps ==
    ASSUME BoardsInv, NEW id \in BarIds, AddBar(id)
    PROVE  BoardsInv'
  <1>1. PICK e, x, u : e = Event("bar", id, u, 1) /\ x = [uuid |-> u, health |-> 1] /\ u = edits + 1
    OBVIOUS
  <1>2. /\ BoardsShape /\ clerk = NoEvent /\ edits' = u /\ edits < MaxEdits /\ edits \in Nat /\ bars' = Also(bars, id, x)
        /\ Broadcast(e) /\ UNCHANGED <<board, clerk, stage, screens>>
    BY <1>1 DEF BoardsInv, BoardsShape, AddBar, Edit
  <1>3. e \in BoardEvent /\ e.kind = "bar" /\ e.about = id /\ e.name = u /\ e.value = 1 /\ u \in Nat
    BY <1>1, <1>2 DEF Event, BoardEvent
  <1>4. bars' \in Partials(BarIds, [uuid : Nat, health : Nat])
    <2>1. x \in [uuid : Nat, health : Nat] /\ bars \in Partials(BarIds, [uuid : Nat, health : Nat])
      BY <1>1, <1>2, <1>3 DEF BoardsShape
    <2> QED
      BY <1>2, <2>1, AlsoIs
  <1>5. /\ DOMAIN bars' = DOMAIN bars \cup {id} /\ bars'[id].uuid = u /\ bars'[id].health = 1
        /\ \A other \in DOMAIN bars \ {id} : bars'[other] = bars[other]
    BY <1>1, <1>2 DEF Also
  <1>6. \A other \in DOMAIN bars : bars[other].uuid \in 1..edits /\ bars[other].uuid # u
    BY <1>1, <1>2 DEF BoardsInv, UuidsOK
  <1>7. UuidsOK'
    <2>1. SUFFICES ASSUME NEW a \in DOMAIN bars'
                   PROVE  /\ bars'[a].uuid \in 1..u
                          /\ \A b \in DOMAIN bars' : bars'[b].uuid = bars'[a].uuid => b = a
      BY <1>2 DEF UuidsOK
    <2>2. CASE a = id
      BY <1>1, <1>2, <1>5, <1>6, <2>2
    <2>3. CASE a # id
      <3>1. a \in DOMAIN bars /\ bars'[a].uuid = bars[a].uuid /\ bars[a].uuid \in 1..edits /\ bars[a].uuid # u
        BY <1>5, <1>6, <2>3
      <3>2. \A b \in DOMAIN bars' : bars'[b].uuid = bars'[a].uuid => b = a
        BY <1>5, <3>1 DEF BoardsInv, UuidsOK
      <3> QED
        BY <1>1, <1>2, <3>1, <3>2
    <2> QED
      BY <2>2, <2>3
  <1>8. Named(e)'
    BY <1>2, <1>3, <1>5, <1>6 DEF Named
  <1>9. ASSUME NEW y \in BoardEvent, Named(y) PROVE Named(y)'
    BY <1>1, <1>2, <1>5, <1>9, EventFields DEF Named
  <1>10. ASSUME BoardsShape', NEW v \in Viewers, stage[v] = "play", NEW a \in DOMAIN bars' \ missed'[v]
         PROVE  bars'[a].uuid \in DOMAIN Played(v)'.bars /\ Played(v)'.bars[bars'[a].uuid] = bars'[a].health
    <2>1. CASE a = id
      <3>1. PICK s \in Screen : Played(v)' = Show(s, e)
        BY <1>2, <1>3, <1>10, ShownNext, BroadcastPlays
      <3>2. Played(v)'.bars = Also(s.bars, u, 1)
        BY <1>3, <3>1, ShowIs
      <3>3. \A f : u \in DOMAIN Also(f, u, 1) /\ Also(f, u, 1)[u] = 1
        BY DEF Also
      <3> QED
        BY <1>5, <2>1, <3>2, <3>3
    <2>2. CASE a # id
      <3>1. a \in DOMAIN bars \ missed'[v] /\ bars'[a] = bars[a]
        BY <1>5, <1>10, <2>2
      <3>2. OfAnother(e, bars[a].uuid)
        BY <1>3, <1>6, <3>1 DEF OfAnother
      <3> QED
        BY <1>2, <1>3, <1>10, <3>1, <3>2, BarKept
    <2> QED
      BY <2>1, <2>2
  <1> QED
    BY <1>1, <1>2, <1>3, <1>4, <1>5, <1>7, <1>8, <1>9, <1>10, BarChanges

LEMMA RemoveBarKeeps ==
    ASSUME BoardsInv, NEW id \in BarIds, RemoveBar(id)
    PROVE  BoardsInv'
  <1>1. PICK e : e = Event("barGone", id, NilUuid, 0)
    OBVIOUS
  <1>2. /\ BoardsShape /\ clerk = NoEvent /\ edits' = edits + 1 /\ edits < MaxEdits /\ edits \in Nat
        /\ bars' = Less(bars, id) /\ Broadcast(e) /\ UNCHANGED <<board, clerk, stage, screens>>
    BY <1>1 DEF BoardsInv, BoardsShape, RemoveBar, Edit
  <1>3. e \in BoardEvent /\ e.kind = "barGone" /\ e.about = id /\ e.name = 0
    BY <1>1 DEF Event, BoardEvent, NilUuid
  <1>4. bars' \in Partials(BarIds, [uuid : Nat, health : Nat])
    BY <1>2, LessIs DEF BoardsShape
  <1>5. DOMAIN bars' = DOMAIN bars \ {id} /\ \A other \in DOMAIN bars \ {id} : bars'[other] = bars[other]
    BY <1>2 DEF Less
  <1>6. \A other \in DOMAIN bars : bars[other].uuid \in 1..edits'
    BY <1>2 DEF BoardsInv, UuidsOK
  <1>7. UuidsOK'
    BY <1>5, <1>6 DEF BoardsInv, UuidsOK
  <1>8. Named(e)'
    BY <1>3 DEF Named
  <1>9. ASSUME NEW y \in BoardEvent, Named(y) PROVE Named(y)'
    BY <1>2, <1>5, <1>9, EventFields DEF Named
  <1>10. ASSUME BoardsShape', NEW v \in Viewers, stage[v] = "play", NEW a \in DOMAIN bars' \ missed'[v]
         PROVE  bars'[a].uuid \in DOMAIN Played(v)'.bars /\ Played(v)'.bars[bars'[a].uuid] = bars'[a].health
    <2>1. a \in DOMAIN bars \ missed'[v] /\ bars'[a] = bars[a] /\ bars[a].uuid # 0
      BY <1>5, <1>6, <1>10
    <2>2. OfAnother(e, bars[a].uuid)
      BY <1>3, <2>1 DEF OfAnother
    <2> QED
      BY <1>2, <1>3, <1>10, <2>1, <2>2, BarKept
  <1> QED
    BY <1>2, <1>3, <1>4, <1>5, <1>7, <1>8, <1>9, <1>10, BarChanges

LEMMA SetBarKeeps ==
    ASSUME BoardsInv, NEW id \in BarIds, NEW health \in Nat, SetBar(id, health)
    PROVE  BoardsInv'
  <1>0. /\ BoardsShape /\ clerk = NoEvent /\ edits' = edits + 1 /\ edits < MaxEdits /\ edits \in Nat /\ id \in DOMAIN bars
        /\ bars' = [bars EXCEPT ![id].health = health]
        /\ Broadcast(Event("barHealth", id, bars[id].uuid, health)) /\ UNCHANGED <<board, clerk, stage, screens>>
    BY DEF BoardsInv, BoardsShape, SetBar, Edit
  <1>1. PICK e, u : e = Event("barHealth", id, u, health) /\ u = bars[id].uuid
    OBVIOUS
  <1>2. bars \in [DOMAIN bars -> [uuid : Nat, health : Nat]] /\ DOMAIN bars \subseteq BarIds /\ u \in Nat
    <2>1. bars \in Partials(BarIds, [uuid : Nat, health : Nat])
      BY <1>0 DEF BoardsShape
    <2>2. bars \in [DOMAIN bars -> [uuid : Nat, health : Nat]] /\ DOMAIN bars \subseteq BarIds
      BY <2>1, TableIs
    <2> QED
      BY <1>0, <1>1, <2>2
  <1>3. e \in BoardEvent /\ e.kind = "barHealth" /\ e.about = id /\ e.name = u /\ e.value = health
    BY <1>1, <1>2 DEF Event, BoardEvent
  <1>4. /\ DOMAIN bars' = DOMAIN bars /\ bars'[id].uuid = u /\ bars'[id].health = health
        /\ \A other \in DOMAIN bars \ {id} : bars'[other] = bars[other]
        /\ bars' \in [DOMAIN bars -> [uuid : Nat, health : Nat]]
    BY <1>0, <1>1, <1>2
  <1>5. bars' \in Partials(BarIds, [uuid : Nat, health : Nat])
    BY <1>2, <1>4, TableIs
  <1>6. \A a \in DOMAIN bars : bars'[a].uuid = bars[a].uuid
    BY <1>1, <1>4
  <1>7. UuidsOK'
    <2>1. \A a \in DOMAIN bars : bars[a].uuid \in 1..edits'
      BY <1>0 DEF BoardsInv, UuidsOK
    <2> QED
      BY <1>4, <1>6, <2>1 DEF BoardsInv, UuidsOK
  <1>8. Named(e)'
    <2>1. u <= edits' /\ \A a \in DOMAIN bars : bars[a].uuid = u => a = id
      BY <1>0, <1>1 DEF BoardsInv, UuidsOK
    <2> QED
      BY <1>3, <1>4, <1>6, <2>1 DEF Named
  <1>9. ASSUME NEW y \in BoardEvent, Named(y) PROVE Named(y)'
    BY <1>0, <1>4, <1>6, <1>9, EventFields DEF Named
  <1>10. ASSUME BoardsShape', NEW v \in Viewers, stage[v] = "play", NEW a \in DOMAIN bars' \ missed'[v]
         PROVE  bars'[a].uuid \in DOMAIN Played(v)'.bars /\ Played(v)'.bars[bars'[a].uuid] = bars'[a].health
    <2>1. CASE a = id
      <3>1. PICK s \in Screen : Played(v)' = Show(s, e) /\ SameBar(Played(v), s, u)
        <4>1. id \in DOMAIN bars \ missed'[v]
          BY <1>0, <1>10, <2>1
        <4>2. PICK s \in Screen : /\ FoldLeft(Show, screens'[v], wires'[v]) = Show(s, e)
                                 /\ SameBar(Played(v), s, bars[id].uuid)
          BY <1>0, <1>1, <1>3, <1>10, <4>1, BroadcastPlays
        <4> QED
          BY <1>1, <1>10, <4>2, ShownNext
      <3>2. id \in DOMAIN bars \ missed[v]
        BY <1>0, <1>1, <1>3, <1>10, <2>1, BroadcastWires
      <3>3. u \in DOMAIN s.bars
        BY <1>1, <1>10, <3>1, <3>2 DEF BoardsInv, BarsShown, SameBar, SameAt
      <3>4. Played(v)'.bars = Also(s.bars, u, health)
        BY <1>3, <3>1, <3>3, ShowIs
      <3>5. \A f : u \in DOMAIN Also(f, u, health) /\ Also(f, u, health)[u] = health
        BY DEF Also
      <3> QED
        BY <1>4, <2>1, <3>4, <3>5
    <2>2. CASE a # id
      <3>1. a \in DOMAIN bars \ missed'[v] /\ bars'[a] = bars[a]
        BY <1>4, <1>10, <2>2
      <3>2. bars[a].uuid # u
        BY <1>0, <1>1, <2>2, <3>1 DEF BoardsInv, UuidsOK
      <3>3. OfAnother(e, bars[a].uuid)
        BY <1>3, <3>2 DEF OfAnother
      <3> QED
        BY <1>0, <1>1, <1>3, <1>10, <3>1, <3>3, BarKept
    <2> QED
      BY <2>1, <2>2
  <1> QED
    BY <1>0, <1>1, <1>3, <1>4, <1>5, <1>7, <1>8, <1>9, <1>10, BarChanges

-----------------------------------------------------------------------------
(* Boards: the theorems                                                    *)

LEMMA BoardsStart == BoardsInit => BoardsInv
  <1> SUFFICES ASSUME BoardsInit PROVE BoardsInv
    OBVIOUS
  <1>1. BoardsShape
    <2>1. Blank \in Screen /\ DOMAIN <<>> = {} /\ \A A, B : <<>> \in Partials(A, B)
      BY NoEntries DEF Blank, Screen, ScoreTables
    <2>2. 0 \in 0..MaxEdits
      BY BoardsAssumption
    <2>3. board = <<>> /\ bars = <<>> /\ DOMAIN board = {}
      BY <2>1 DEF BoardsInit
    <2> QED
      BY <2>1, <2>2, <2>3 DEF BoardsInit, BoardsShape, ScoreTables
  <1>2. WiresOK /\ PostOK
    <2>1. \A v \in Viewers : wires[v] = <<>> /\ Len(<<>>) = 0
      BY DEF BoardsInit
    <2> QED
      BY <2>1, BoardsAssumption DEF WiresOK, PostOK
  <1>3. ClerkOK /\ UuidsOK
    <2>1. DOMAIN bars = {}
      BY NoEntries DEF BoardsInit
    <2> QED
      BY <2>1 DEF BoardsInit, ClerkOK, UuidsOK
  <1>4. ScoresShown /\ BarsShown
    BY DEF BoardsInit, ScoresShown, BarsShown
  <1> QED
    BY <1>1, <1>2, <1>3, <1>4 DEF BoardsInv

LEMMA BoardsStep == BoardsInv /\ [BoardsNext]_boards_vars => BoardsInv'
  <1> SUFFICES ASSUME BoardsInv, [BoardsNext]_boards_vars PROVE BoardsInv'
    OBVIOUS
  <1>1. ASSUME NEW o \in Objs, AddObjective(o) \/ RemoveObjective(o) PROVE BoardsInv'
    BY <1>1, ObjectivesKeep
  <1>2. ASSUME NEW o \in Objs, NEW n \in Viewers, NEW k \in 1..TopScore, SetScore(o, n, k) PROVE BoardsInv'
    <2>1. k \in Nat /\ ChangeScore(o, n, k, k)
      BY <1>2 DEF SetScore
    <2> QED
      BY <2>1, ScoreKeeps
  <1>3. ASSUME NEW o \in Objs, NEW n \in Viewers, NEW k \in 1..TopScore, AddScore(o, n, k) PROVE BoardsInv'
    <2>1. o \in DOMAIN board /\ ChangeScore(o, n, ScoreOf(o, n) + k, k)
      BY <1>3 DEF AddScore
    <2>2. board[o] \in Partials(Viewers, Nat)
      BY <2>1, ScoresAre DEF BoardsInv
    <2>3. ScoreOf(o, n) \in Nat
      BY <2>2, TableIs DEF ScoreOf
    <2>4. ScoreOf(o, n) + k \in Nat
      BY <2>3
    <2> QED
      BY <2>1, <2>4, ScoreKeeps
  <1>4. ASSUME NEW o \in Objs, NEW p \in Viewers, NEW add \in BOOLEAN, NEW k \in 1..TopScore, Trigger(p, o, add, k)
        PROVE  BoardsInv'
    BY <1>4, TriggerKeeps
  <1>5. CASE TellScore
    BY <1>5, TellKeeps
  <1>6. ASSUME NEW id \in BarIds, AddBar(id) PROVE BoardsInv'
    BY <1>6, AddBarKeeps
  <1>7. ASSUME NEW id \in BarIds, RemoveBar(id) PROVE BoardsInv'
    BY <1>7, RemoveBarKeeps
  <1>8. ASSUME NEW id \in BarIds, NEW h \in 0..1, SetBar(id, h) PROVE BoardsInv'
    BY <1>8, SetBarKeeps
  <1>9. ASSUME NEW v \in Viewers, SendScores(v) PROVE BoardsInv'
    BY <1>9, SendScoresKeeps
  <1>10. ASSUME NEW v \in Viewers, SendBars(v) PROVE BoardsInv'
    BY <1>10, SendBarsKeeps
  <1>11. ASSUME NEW v \in Viewers, Subscribe0(v) PROVE BoardsInv'
    BY <1>11, SubscribeKeeps
  <1>12. ASSUME NEW v \in Viewers, Handle(v) PROVE BoardsInv'
    BY <1>12, HandleKeeps
  <1>13. ASSUME NEW v \in Viewers, GoAway(v) PROVE BoardsInv'
    BY <1>13, GoAwayKeeps
  <1>14. CASE UNCHANGED boards_vars
    <2>1. UNCHANGED <<board, bars, clerk, stage, wires, screens, missed, edits>>
      BY <1>14 DEF boards_vars
    <2>2. BoardsShape' /\ WiresOK' /\ ClerkOK' /\ UuidsOK'
      BY <2>1 DEF BoardsInv, BoardsShape, WiresOK, ClerkOK, UuidsOK
    <2>3. PostOK'
      BY <2>1 DEF BoardsInv, PostOK, Named
    <2>4. ScoresShown' /\ BarsShown'
      BY <2>1 DEF BoardsInv, ScoresShown, BarsShown, Shown, Coming, Played
    <2> QED
      BY <2>2, <2>3, <2>4 DEF BoardsInv
  <1> QED
    BY <1>1, <1>2, <1>3, <1>4, <1>5, <1>6, <1>7, <1>8, <1>9, <1>10, <1>11, <1>12, <1>13, <1>14 DEF BoardsNext

LEMMA BoardsSafe == BoardsInv => BoardsTypeOK /\ BoardFollows
  <1> SUFFICES ASSUME BoardsInv PROVE BoardsTypeOK /\ BoardFollows
    OBVIOUS
  <1>1. BoardsTypeOK
    <2>1. board \in [DOMAIN board -> Partials(Viewers, Nat)] /\ DOMAIN board \subseteq Objs
      BY TableIs DEF BoardsInv, BoardsShape, ScoreTables
    <2>2. DOMAIN bars \subseteq BarIds
      BY TableIs DEF BoardsInv, BoardsShape
    <2>3. \A o \in DOMAIN board : \A n \in DOMAIN board[o] : n \in Viewers /\ board[o][n] \in 0..TopScore
      <3>1. SUFFICES ASSUME NEW o \in DOMAIN board, NEW n \in DOMAIN board[o]
                     PROVE  n \in Viewers /\ board[o][n] \in 0..TopScore
        OBVIOUS
      <3>2. board[o] \in Partials(Viewers, Nat)
        BY <2>1
      <3>3. n \in Viewers /\ board[o][n] \in Nat
        BY <3>2, TableIs
      <3> QED
        BY <3>3, BoardsAssumption DEF BoardsInv, BoardsShape
    <2> QED
      BY <2>1, <2>2, <2>3 DEF BoardsInv, BoardsShape, WiresOK, BoardsTypeOK
  <1>2. BoardFollows
    <2>1. SUFFICES ASSUME NEW v \in Viewers, stage[v] = "play"
                   PROVE  /\ \A o \in Objs \ missed[v] : SameAt(board, Shown(v).scores, o)
                          /\ \A id \in DOMAIN bars \ missed[v] :
                                bars[id].uuid \in DOMAIN Shown(v).bars /\ Shown(v).bars[bars[id].uuid] = bars[id].health
      BY DEF BoardFollows, SameAt
    <2>2. Shown(v).bars = Played(v).bars
      BY ShownNow DEF BoardsInv
    <2> QED
      BY <2>1, <2>2 DEF BoardsInv, ScoresShown, BarsShown
  <1> QED
    BY <1>1, <1>2

(* The boards hold names, scores and bars of the kinds they should, and no *)
(* client is behind by more events than its channel holds: the registries  *)
(* and the broadcast channel of main.rs.                                   *)
THEOREM BoardsTypeCorrect == BoardsSpec => []BoardsTypeOK
  <1> QED
    BY BoardsStart, BoardsStep, BoardsSafe, PTL DEF BoardsSpec

(* However many players, objectives, bars and changes there are and        *)
(* however small the channel is, a client in its play loop comes to show   *)
(* every objective and every bar as it is, those aside of which a change   *)
(* was not sent, or was sent before it subscribed, or was lost because it  *)
(* was too slow: the events of /scoreboard and /bossbar.                   *)
THEOREM ClientsFollowBoards == BoardsSpec => []BoardFollows
  <1> QED
    BY BoardsStart, BoardsStep, BoardsSafe, PTL DEF BoardsSpec
=================================================================================
