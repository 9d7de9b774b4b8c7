-------------------------------- MODULE Descent --------------------------------
(***************************************************************************)
(* Induction by descent: a set of natural numbers that has no least element *)
(* is empty.  The recursive functions and folds that other modules define  *)
(* are what their recursion says only if the recursion has a solution: that *)
(* is proved here.                                                         *)
(***************************************************************************)
EXTENDS Integers, WellFoundedInduction, FiniteSetTheorems, TLAPS

-----------------------------------------------------------------------------
(* Descent                                                                 *)

(* No bad case, if each comes with a smaller one.                          *)
LEMMA NoneBad ==
    ASSUME NEW Bad \in SUBSET Nat, \A n \in Bad : \E m \in Bad : m < n
    PROVE  Bad = {}
  <1> SUFFICES ASSUME Bad # {} PROVE FALSE
    OBVIOUS
  <1>1. PICK R : R = OpToRel(<, Nat)
    OBVIOUS
  <1>2. \A x, y \in Nat : <<x, y>> \in R <=> x < y
    BY <1>1 DEF OpToRel
  <1>3. IsWellFoundedOn(R, Nat)
    BY <1>1, NatLessThanWellFounded
  <1>4. PICK n \in Bad : \A m \in Bad : ~(<<m, n>> \in R)
    BY <1>3, WFMin
  <1> QED
    BY <1>2, <1>4

-----------------------------------------------------------------------------
(* A fold: one element after the other is chosen and taken out.            *)

IsChoice(ch, S) == \A s \in (SUBSET S) \ {{}} : ch[s] \in s
FoldStep(F, ch, base, it, s) == IF s = {} THEN base ELSE F[ch[s]][it[s \ {ch[s]}]]
Folds(it, F, ch, base, T) == DOMAIN it = T /\ \A s \in T : it[s] = FoldStep(F, ch, base, it, s)

(* The subsets with at most n elements.                                    *)
Small(S, n) == {s \in SUBSET S : Cardinality(s) <= n}

LEMMA Smaller ==
    ASSUME NEW S, IsFiniteSet(S), NEW s \in SUBSET S, NEW x \in s
    PROVE  /\ Cardinality(s) \in Nat \ {0} /\ s \ {x} \in SUBSET S
           /\ Cardinality(s \ {x}) = Cardinality(s) - 1
  <1>1. IsFiniteSet(s)
    BY FS_Subset
  <1>2. Cardinality(s) \in Nat /\ Cardinality(s \ {x}) = Cardinality(s) - 1
    BY <1>1, FS_RemoveElement, FS_CardinalityType
  <1>3. Cardinality(s \ {x}) \in Nat
    BY <1>1, FS_RemoveElement, FS_CardinalityType
  <1> QED
    BY <1>2, <1>3

LEMMA FoldExists ==
    ASSUME NEW S, IsFiniteSet(S), NEW V, NEW base \in V, NEW ch, IsChoice(ch, S), NEW F \in [S -> [V -> V]]
    PROVE  \E it \in [SUBSET S -> V] : Folds(it, F, ch, base, SUBSET S)
  <1> DEFINE Part(n, it) == it \in [Small(S, n) -> V] /\ Folds(it, F, ch, base, Small(S, n))
             Bad == {n \in Nat : ~ \E it : Part(n, it)}
  <1>1. ASSUME NEW n \in Bad PROVE \E m \in Bad : m < n
    <2>1. CASE n = 0
      <3>1. Small(S, 0) = {{}}
        <4>1. \A s \in SUBSET S : s = {} \/ Cardinality(s) \in Nat \ {0}
          BY Smaller
        <4>2. {} \in Small(S, 0)
          BY FS_EmptySet DEF Small
        <4>3. \A s \in SUBSET S : Cardinality(s) <= 0 => s = {}
          BY <4>1
        <4>4. Small(S, 0) \subseteq {{}}
          BY <4>3 DEF Small
        <4> QED
          BY <4>2, <4>4
      <3>2. Part(0, [s \in Small(S, 0) |-> base])
        BY <3>1 DEF Folds, FoldStep
      <3> QED
        BY <2>1, <3>2
    <2>2. CASE n # 0
      <3>1. n - 1 \in Nat /\ n - 1 < n
        BY <2>2
      <3>2. SUFFICES ASSUME n - 1 \notin Bad PROVE FALSE
        BY <3>1
      <3>3. PICK it : Part(n - 1, it)
        BY <3>1, <3>2
      <3>4. PICK more : more = [s \in Small(S, n) |-> FoldStep(F, ch, base, it, s)]
        OBVIOUS
      <3>5. ASSUME NEW s \in Small(S, n), s # {}
            PROVE  ch[s] \in S /\ s \ {ch[s]} \in Small(S, n - 1)
        <4>1. ch[s] \in s /\ s \in SUBSET S /\ Cardinality(s) <= n
          BY <3>5 DEF IsChoice, Small
        <4> QED
          BY <3>1, <4>1, Smaller DEF Small
      <3>6. Small(S, n - 1) \subseteq Small(S, n)
        <4>1. \A s \in SUBSET S : IsFiniteSet(s)
          BY FS_Subset
        <4>2. \A s \in SUBSET S : Cardinality(s) \in Nat
          BY <4>1, FS_CardinalityType
        <4> QED
          BY <3>1, <4>2 DEF Small
      <3>7. \A s \in Small(S, n) : FoldStep(F, ch, base, it, s) \in V
        BY <3>3, <3>5 DEF FoldStep
      <3>8. \A s \in Small(S, n - 1) : more[s] = it[s]
        BY <3>3, <3>4, <3>6 DEF Folds
      <3>9. \A s \in Small(S, n) : more[s] = FoldStep(F, ch, base, more, s)
        BY <3>4, <3>5, <3>8 DEF FoldStep
      <3>10. Part(n, more)
        BY <3>4, <3>7, <3>9 DEF Folds
      <3> QED
        BY <3>10
    <2> QED
      BY <2>1, <2>2
  <1>2. Bad = {}
    <2> HIDE DEF Part
    <2>1. Bad \in SUBSET Nat
      OBVIOUS
    <2> HIDE DEF Bad
    <2> QED
      BY <1>1, <2>1, NoneBad
  <1>3. Cardinality(S) \in Nat
    BY FS_CardinalityType
  <1>4. Small(S, Cardinality(S)) = SUBSET S
    BY FS_Subset DEF Small
  <1>5. PICK it : Part(Cardinality(S), it)
    BY <1>2, <1>3
  <1> QED
    BY <1>4, <1>5

(* Whatever satisfies the recursion is the fold.                           *)
KeepsFold(other, F, ch, base, S, V) ==
    /\ other[{}] = base
    /\ \A s \in (SUBSET S) \ {{}} : other[s \ {ch[s]}] \in V => other[s] = F[ch[s]][other[s \ {ch[s]}]]

LEMMA FoldUnique ==
    ASSUME NEW S, IsFiniteSet(S), NEW V, NEW base \in V, NEW ch, IsChoice(ch, S), NEW F \in [S -> [V -> V]],
           NEW it \in [SUBSET S -> V], Folds(it, F, ch, base, SUBSET S),
           NEW other, KeepsFold(other, F, ch, base, S, V)
    PROVE  \A s \in SUBSET S : other[s] = it[s]
  <1> DEFINE Bad == {n \in Nat : \E s \in SUBSET S : Cardinality(s) = n /\ other[s] # it[s]}
  <1>1. ASSUME NEW n \in Bad PROVE \E m \in Bad : m < n
    <2>1. PICK s \in SUBSET S : Cardinality(s) = n /\ other[s] # it[s]
      OBVIOUS
    <2>2. s # {}
      BY <2>1 DEF Folds, FoldStep, KeepsFold
    <2>3. ch[s] \in s
      BY <2>2 DEF IsChoice
    <2>4. s \ {ch[s]} \in SUBSET S /\ Cardinality(s \ {ch[s]}) = n - 1 /\ n \in Nat \ {0}
      BY <2>1, <2>3, Smaller
    <2>5. it[s] = F[ch[s]][it[s \ {ch[s]}]] /\ it[s \ {ch[s]}] \in V
      BY <2>2, <2>4 DEF Folds, FoldStep
    <2>6. other[s \ {ch[s]}] # it[s \ {ch[s]}]
      BY <2>1, <2>2, <2>5 DEF KeepsFold
    <2> QED
      BY <2>4, <2>6
  <1>2. Bad = {}
    BY <1>1, NoneBad
  <1>3. \A s \in SUBSET S : Cardinality(s) \in Nat
    BY FS_Subset, FS_CardinalityType
  <1> QED
    BY <1>2, <1>3

-----------------------------------------------------------------------------
(* Functions on the natural numbers, each value from the one before        *)

(* It begins with `base`, and goes on by G up to n.                        *)
Runs(f, G, base, n) == f[0] = base /\ \A k \in 1..n : f[k] = G[k][f[k - 1]]

LEMMA RunsAgree ==
    ASSUME NEW n \in Nat, NEW G, NEW base, NEW f, NEW g, Runs(f, G, base, n), Runs(g, G, base, n)
    PROVE  \A k \in 0..n : f[k] = g[k]
  <1> DEFINE Bad == {k \in 0..n : f[k] # g[k]}
  <1>1. ASSUME NEW k \in Bad PROVE \E m \in Bad : m < k
    <2>1. k \in 1..n /\ k - 1 \in 0..n /\ k - 1 < k
      BY DEF Runs
    <2>2. f[k] = G[k][f[k - 1]] /\ g[k] = G[k][g[k - 1]]
      BY <2>1 DEF Runs
    <2> QED
      BY <2>1, <2>2
  <1>2. Bad \in SUBSET Nat
    OBVIOUS
  <1>3. Bad = {}
    BY <1>1, <1>2, NoneBad
  <1> QED
    BY <1>3

LEMMA PartExists ==
    ASSUME NEW V, NEW base \in V, NEW G \in [Nat -> [V -> V]], NEW n \in Nat
    PROVE  \E f \in [0..n -> V] : Runs(f, G, base, n)
  <1> DEFINE Part(m) == \E f \in [0..m -> V] : Runs(f, G, base, m)
             Bad == {m \in Nat : ~Part(m)}
  <1>1. ASSUME NEW m \in Bad PROVE \E k \in Bad : k < m
    <2>1. CASE m = 0
      <3>1. [k \in 0..0 |-> base] \in [0..0 -> V] /\ Runs([k \in 0..0 |-> base], G, base, 0)
        BY DEF Runs
      <3> QED
        BY <2>1, <3>1
    <2>2. CASE m # 0
      <3>1. m - 1 \in Nat /\ m - 1 < m /\ m \in Nat
        BY <2>2
      <3>2. SUFFICES ASSUME Part(m - 1) PROVE FALSE
        BY <3>1
      <3>3. PICK f \in [0..(m - 1) -> V] : Runs(f, G, base, m - 1)
        BY <3>2
      <3>4. PICK g : g = [k \in 0..m |-> IF k = m THEN G[m][f[m - 1]] ELSE f[k]]
        OBVIOUS
      <3>5. g \in [0..m -> V] /\ \A k \in 0..(m - 1) : g[k] = f[k]
        BY <3>1, <3>3, <3>4
      <3>6. Runs(g, G, base, m)
        <4>1. g[0] = base
          BY <3>1, <3>3, <3>5 DEF Runs
        <4>2. ASSUME NEW k \in 1..m PROVE g[k] = G[k][g[k - 1]]
          <5>1. k - 1 \in 0..(m - 1) /\ g[k - 1] = f[k - 1]
            BY <3>1, <3>5
          <5>2. CASE k = m
            BY <3>1, <3>4, <5>1, <5>2
          <5>3. CASE k # m
            BY <3>1, <3>3, <3>5, <5>1, <5>3 DEF Runs
          <5> QED
            BY <5>2, <5>3
        <4> QED
          BY <4>1, <4>2 DEF Runs
      <3> QED
        BY <3>5, <3>6
    <2> QED
      BY <2>1, <2>2
  <1>2. Bad = {}
    <2> HIDE DEF Part
    <2>1. Bad \in SUBSET Nat
      OBVIOUS
    <2> HIDE DEF Bad
    <2> QED
      BY <1>1, <2>1, NoneBad
  <1> QED
    BY <1>2

(* A recursion over all natural numbers has a solution.                    *)
LEMMA RecursionExists ==
    ASSUME NEW V, NEW base \in V, NEW G \in [Nat -> [V -> V]]
    PROVE  \E f \in [Nat -> V] : \A n \in Nat : Runs(f, G, base, n)
  <1>1. PICK part : part = [n \in Nat |-> CHOOSE f \in [0..n -> V] : Runs(f, G, base, n)]
    OBVIOUS
  <1>2. \A n \in Nat : part[n] \in [0..n -> V] /\ Runs(part[n], G, base, n)
    BY <1>1, PartExists
  <1>3. PICK f : f = [n \in Nat |-> part[n][n]]
    OBVIOUS
  <1>4. f \in [Nat -> V]
    BY <1>2, <1>3
  <1>5. f[0] = base
    BY <1>2, <1>3 DEF Runs
  <1>6. ASSUME NEW k \in Nat \ {0} PROVE f[k] = G[k][f[k - 1]]
    <2>1. k - 1 \in Nat /\ k \in 1..k /\ k - 1 \in 0..(k - 1)
      OBVIOUS
    <2>2. Runs(part[k], G, base, k - 1) /\ Runs(part[k - 1], G, base, k - 1)
      BY <1>2, <2>1 DEF Runs
    <2>3. part[k][k - 1] = part[k - 1][k - 1]
      BY <2>1, <2>2, RunsAgree
    <2>4. part[k][k] = G[k][part[k][k - 1]]
      BY <1>2, <2>1 DEF Runs
    <2> QED
      BY <1>3, <2>1, <2>3, <2>4
  <1> QED
    BY <1>4, <1>5, <1>6 DEF Runs

(* A definition by such a recursion, over all the numbers or the first:    *)
(* what heeds the equations follows them throughout.                       *)
Proceeds(f, G, base, S) == f[0] = base /\ \A i \in S \ {0} : f[i] = G[i][f[i - 1]]
Heeds(f, G, base, S, V) ==
    /\ f = [i \in S |-> f[i]] /\ f[0] = base
    /\ \A i \in S \ {0} : f[i - 1] \in V => f[i] = G[i][f[i - 1]]

LEMMA Recursive ==
    ASSUME NEW V, NEW base \in V, NEW G \in [Nat -> [V -> V]],
           NEW S \in SUBSET Nat, 0 \in S, \A i \in S \ {0} : i - 1 \in S
    PROVE  /\ \E f \in [S -> V] : Proceeds(f, G, base, S)
           /\ \A f : Heeds(f, G, base, S, V) => f \in [S -> V] /\ Proceeds(f, G, base, S)
  <1>1. PICK r \in [Nat -> V] : \A n \in Nat : Runs(r, G, base, n)
    BY RecursionExists
  <1>2. r[0] = base
    BY <1>1 DEF Runs
  <1>3. ASSUME NEW i \in S \ {0} PROVE i - 1 \in S /\ r[i] = G[i][r[i - 1]] /\ r[i] \in V
    <2>1. i \in Nat /\ i \in 1..i
      OBVIOUS
    <2> QED
      BY <1>1, <2>1 DEF Runs
  <1>4. PICK f : f = [i \in S |-> r[i]]
    OBVIOUS
  <1>5. f \in [S -> V] /\ Proceeds(f, G, base, S)
    BY <1>2, <1>3, <1>4 DEF Proceeds
  <1>6. ASSUME NEW g, Heeds(g, G, base, S, V) PROVE g \in [S -> V] /\ Proceeds(g, G, base, S)
    <2> DEFINE Bad == {i \in S : g[i] # r[i]}
    <2>1. ASSUME NEW i \in Bad PROVE \E m \in Bad : m < i
      <3>1. i \in S \ {0}
        BY <1>2, <1>6 DEF Heeds
      <3>2. i \in Nat /\ i - 1 < i
        BY <3>1
      <3>3. i - 1 \in S /\ r[i] = G[i][r[i - 1]] /\ r[i - 1] \in V
        BY <1>1, <1>3, <3>1
      <3>4. g[i - 1] \in V => g[i] = G[i][g[i - 1]]
        BY <1>6, <3>1 DEF Heeds
      <3> QED
        BY <3>2, <3>3, <3>4
    <2>2. Bad = {}
      <3>1. Bad \in SUBSET Nat
        OBVIOUS
      <3> HIDE DEF Bad
      <3> QED
        BY <2>1, <3>1, NoneBad
    <2>3. \A i \in S : g[i] = r[i]
      BY <2>2
    <2>4. g \in [S -> V]
      BY <1>1, <1>6, <2>3 DEF Heeds
    <2> QED
      BY <1>3, <1>6, <2>4 DEF Proceeds, Heeds
  <1> QED
    BY <1>5, <1>6

-----------------------------------------------------------------------------
(* A fold from the left: the last of the numbers is taken out first.       *)

LastOf(s) == CHOOSE x \in s : \A y \in s : x >= y
Lasts(n) == [s \in (SUBSET (1..n)) \ {{}} |-> LastOf(s)]

LEMMA LastThere ==
    ASSUME NEW n \in Nat, NEW s \in SUBSET (1..n), s # {}
    PROVE  LastOf(s) \in s /\ \A y \in s : y <= LastOf(s)
  <1> DEFINE Bad == {k \in Nat : \E x \in s : k = n - x}
  <1>1. Bad # {}
    <2>1. PICK x \in s : TRUE
      OBVIOUS
    <2>2. x \in 1..n
      OBVIOUS
    <2>3. n - x \in Nat
      BY <2>2
    <2>4. n - x \in Bad
      BY <2>3
    <2> QED
      BY <2>4
  <1>2. Bad \in SUBSET Nat
    OBVIOUS
  <1>3. PICK k \in Bad : \A m \in Bad : ~(m < k)
    BY <1>1, <1>2, NoneBad
  <1>4. PICK x \in s : k = n - x
    OBVIOUS
  <1>5. \A y \in s : y <= x
    <2> SUFFICES ASSUME NEW y \in s PROVE y <= x
      OBVIOUS
    <2>1. y \in 1..n /\ x \in 1..n
      OBVIOUS
    <2>2. n - y \in Nat
      BY <2>1
    <2>3. n - y \in Bad
      BY <2>2
    <2>4. ~(n - y < n - x)
      BY <1>3, <1>4, <2>3
    <2> QED
      BY <2>1, <2>4
  <1> QED
    BY <1>4, <1>5 DEF LastOf

(* What satisfies the equation of such a fold over 1..n, beside the run of  *)
(* the n steps.                                                            *)
Alongside(it, f, G, base, n, V) ==
    /\ base \in V /\ G \in [1..n -> [V -> V]]
    /\ f \in [0..n -> V] /\ Runs(f, G, base, n)
    /\ KeepsFold(it, G, Lasts(n), base, 1..n, V)

(* It is where n steps lead.                                               *)
LEMMA LeftFold ==
    ASSUME NEW n \in Nat, NEW V, NEW base, NEW G, NEW f, NEW it, Alongside(it, f, G, base, n, V)
    PROVE  it[1..n] = f[n]
  <1> USE DEF Alongside
  <1> DEFINE Bad == {k \in 0..n : it[1..k] # f[k]}
  <1>1. ASSUME NEW k \in Bad PROVE \E m \in Bad : m < k
    <2>1. k # 0
      <3>1. 1..0 = {}
        OBVIOUS
      <3>2. it[1..0] = f[0]
        BY <3>1 DEF Runs, KeepsFold
      <3> QED
        BY <3>2
    <2>2. k \in 1..n /\ k - 1 \in 0..n /\ k - 1 < k /\ 1..k \in SUBSET (1..n) /\ 1..k # {}
      <3>1. k \in 0..n
        OBVIOUS
      <3> HIDE DEF Bad
      <3>2. k \in 1..n
        BY <2>1, <3>1
      <3>3. k - 1 \in 0..n /\ k - 1 < k /\ k \in 1..k
        BY <3>2
      <3>4. \A y \in 1..k : y \in 1..n
        BY <3>2
      <3> QED
        BY <3>2, <3>3, <3>4
    <2>3. Lasts(n)[1..k] = k
      <3>1. LastOf(1..k) \in 1..k /\ \A y \in 1..k : y <= LastOf(1..k)
        BY <2>2, LastThere
      <3>2. k \in 1..k
        BY <2>2
      <3>3. LastOf(1..k) = k
        BY <2>2, <3>1, <3>2
      <3> QED
        BY <2>2, <3>3 DEF Lasts
    <2>4. (1..k) \ {k} = 1..(k - 1)
      BY <2>2
    <2>5. SUFFICES ASSUME it[1..(k - 1)] = f[k - 1] PROVE FALSE
      BY <2>2
    <2>6. it[(1..k) \ {Lasts(n)[1..k]}] = f[k - 1] /\ f[k - 1] \in V
      BY <2>2, <2>3, <2>4, <2>5
    <2>7. it[1..k] = G[k][f[k - 1]]
      BY <2>2, <2>3, <2>6 DEF KeepsFold
    <2> QED
      BY <2>2, <2>7 DEF Runs
  <1>2. Bad \in SUBSET Nat
    OBVIOUS
  <1>3. Bad = {}
    BY <1>1, <1>2, NoneBad
  <1>4. n \in 0..n
    OBVIOUS
  <1> QED
    BY <1>3, <1>4

(* There is such a fold.                                                   *)
LEMMA LeftFoldExists ==
    ASSUME NEW n \in Nat, NEW V, NEW base \in V, NEW G \in [1..n -> [V -> V]]
    PROVE  \E it \in [SUBSET (1..n) -> V] : Folds(it, G, Lasts(n), base, SUBSET (1..n))
  <1>1. IsFiniteSet(1..n)
    BY FS_Interval
  <1>2. IsChoice(Lasts(n), 1..n)
    BY LastThere DEF IsChoice, Lasts
  <1> QED
    BY <1>1, <1>2, FoldExists
=============================================================================
