----------------------------- MODULE GameplayProofs -----------------------------
(***************************************************************************)
(* Proofs about combat, fishing, commands, the minds of mobs, the index of *)
(* mobs, the world its players are told of, and experience, for every set  *)
(* of players, mobs and things, and every value of the other constants.    *)
(***************************************************************************)
EXTENDS Combat, Husbandry, Commands, MobMinds, World, Mobs, Experience, Descent,
        FiniteSetTheorems, TLAPS

-----------------------------------------------------------------------------
(* Combat: types                                                           *)

(* What the tick loop, and a task that attacks, may have read.             *)
LoopStates ==
    {[at |-> "hit"]}
    \cup [at : {"copied"}, who : Fighters, copy : Health]
    \cup [at : {"check"}, dead : SUBSET Fighters]
    \cup [at : {"drop", "clear"}, who : Fighters, dead : SUBSET Fighters,
          left : SUBSET Stacks, id : Nat \ {0}]
DuelStates ==
    {Idle} \cup [at : {"struck"}, who : Fighters] \cup [at : {"drops"}, left : SUBSET Stacks]

LifeOK ==
    /\ health \in [Fighters -> Health] /\ lastHit \in [Fighters -> 0..CombatTicks]
    /\ now \in 0..CombatTicks /\ hits \in 0..CombatHits
ThingsOK ==
    /\ bag \in [Fighters -> SUBSET Stacks]
    /\ DOMAIN lying \subseteq Nat \ {0} /\ \A i \in DOMAIN lying : lying[i] \in Stacks \cup {Orb}
    /\ freeId \in Nat \ {0} /\ excused \subseteq Stacks
CombatInv ==
    /\ LifeOK /\ ThingsOK
    /\ loop \in LoopStates /\ duel \in [Fighters -> DuelStates]

LEMMA LoopFields ==
    ASSUME loop \in LoopStates
    PROVE  /\ loop.at \in {"hit", "copied", "check", "drop", "clear"}
           /\ loop.at = "copied" => loop.who \in Fighters /\ loop.copy \in Health
           /\ loop.at = "check" => loop.dead \subseteq Fighters
           /\ loop.at \in {"drop", "clear"} =>
                /\ loop.who \in Fighters /\ loop.dead \subseteq Fighters
                /\ loop.left \subseteq Stacks /\ loop.id \in Nat \ {0}
                /\ loop \in [at : {"drop", "clear"}, who : Fighters, dead : SUBSET Fighters,
                             left : SUBSET Stacks, id : Nat \ {0}]
  BY DEF LoopStates

LEMMA DuelFields ==
    ASSUME duel \in [Fighters -> DuelStates], NEW p \in Fighters
    PROVE  /\ duel[p].at \in {"idle", "struck", "drops"}
           /\ duel[p].at = "struck" => duel[p].who \in Fighters
           /\ duel[p].at = "drops" => duel[p] \in [at : {"drops"}, left : SUBSET Stacks]
  BY DEF DuelStates, Idle

LEMMA Hit ==
    ASSUME LifeOK, NEW p \in Fighters, NEW h \in Nat, NEW amount \in 0..FullHealth, h <= FullHealth
    PROVE  /\ Floor0(h - amount) \in Health
           /\ [health EXCEPT ![p] = Floor0(h - amount)] \in [Fighters -> Health]
  <1>1. Floor0(h - amount) \in Health
    BY CombatAssumption DEF Floor0, Health
  <1> QED
    BY <1>1 DEF LifeOK

LEMMA HealthIs ==
    ASSUME LifeOK, NEW p \in Fighters
    PROVE  health[p] \in Nat /\ health[p] <= FullHealth /\ FullHealth \in Health
  BY CombatAssumption DEF LifeOK, Health

LEMMA HitCounted ==
    ASSUME LifeOK, hits < CombatHits, hits' = hits + 1
    PROVE  hits' \in 0..CombatHits
  BY CombatAssumption DEF LifeOK

(* Where a thing is put: in a slot that may be taken.                      *)
Puts(id, thing) ==
    /\ lying' = Placed(lying, id, thing)
    /\ excused' = excused \cup Replaced(lying, {id})

LEMMA PutType ==
    ASSUME ThingsOK, NEW id \in Nat \ {0}, NEW thing \in Stacks \cup {Orb}, Puts(id, thing)
    PROVE  /\ DOMAIN lying' = DOMAIN lying \cup {id}
           /\ lying'[id] = thing /\ \A i \in DOMAIN lying \ {id} : lying'[i] = lying[i]
           /\ \A i \in DOMAIN lying' : lying'[i] \in Stacks \cup {Orb}
           /\ excused \subseteq excused' /\ excused' \subseteq Stacks
           /\ OnGround \subseteq OnGround' \cup excused'
           /\ thing # Orb => thing \in OnGround'
  <1>1. /\ DOMAIN lying' = DOMAIN lying \cup {id}
        /\ lying'[id] = thing /\ \A i \in DOMAIN lying \ {id} : lying'[i] = lying[i]
    BY DEF Puts, Placed
  <1>2. \A i \in DOMAIN lying' : lying'[i] \in Stacks \cup {Orb}
    BY <1>1 DEF ThingsOK
  <1>3. Replaced(lying, {id}) = IF id \in DOMAIN lying THEN {lying[id]} \ {Orb} ELSE {}
    BY DEF Replaced
  <1>4. excused \subseteq excused' /\ excused' \subseteq Stacks
    BY <1>3 DEF Puts, ThingsOK
  <1>5. OnGround \subseteq OnGround' \cup excused'
    <2> SUFFICES ASSUME NEW i \in DOMAIN lying, lying[i] # Orb
                 PROVE  lying[i] \in OnGround' \cup excused'
      BY DEF OnGround
    <2>1. CASE i = id
      BY <1>3, <2>1 DEF Puts
    <2>2. CASE i # id
      BY <1>1, <2>2 DEF OnGround
    <2> QED
      BY <2>1, <2>2
  <1>6. thing # Orb => thing \in OnGround'
    BY <1>1 DEF OnGround
  <1> QED
    BY <1>1, <1>2, <1>4, <1>5, <1>6

LEMMA HitTypes ==
    ASSUME CombatInv,
           \/ \E p \in Fighters : LoopCopies(p) \/ Revive(p)
           \/ \E p \in Fighters, a \in 1..FullHealth : LoopDamages(p, a) \/ Fall(p, a)
           \/ \E a \in 1..FullHealth : CopyHits(a) \/ CopyHitsUngated(a)
           \/ \E p, q \in Fighters, a \in 0..FullHealth : Attack(p, q, a)
    PROVE  /\ LifeOK' /\ loop' \in LoopStates /\ duel' \in [Fighters -> DuelStates]
           /\ UNCHANGED things /\ (loop' = loop \/ loop'.at \in {"hit", "copied"})
  <1> USE DEF CombatInv
  <1>0. /\ CombatTicks \in Nat /\ CombatHits \in Nat /\ FullHealth \in Nat
        /\ \A p \in Fighters : health[p] \in Nat /\ health[p] <= FullHealth
        /\ \A p \in Fighters : lastHit[p] \in 0..CombatTicks
        /\ Health = 0..FullHealth
    BY CombatAssumption, HealthIs DEF LifeOK, Health
  <1>1. ASSUME NEW p \in Fighters, LoopCopies(p) PROVE
        /\ LifeOK' /\ loop' \in LoopStates /\ duel' \in [Fighters -> DuelStates]
        /\ UNCHANGED things /\ loop'.at \in {"hit", "copied"}
    <2>1. health[p] \in Health
      BY DEF LifeOK
    <2>2. LifeOK'
      BY <1>0, <1>1 DEF LoopCopies, LifeOK, life
    <2>3. loop' \in LoopStates /\ loop'.at \in {"hit", "copied"}
      BY <1>1, <2>1 DEF LoopCopies, LoopStates
    <2> QED
      BY <1>1, <2>2, <2>3 DEF LoopCopies
  <1>2. ASSUME NEW p \in Fighters, Revive(p) PROVE
        LifeOK' /\ UNCHANGED things /\ loop' = loop /\ duel' = duel
    BY <1>0, <1>2 DEF Revive, LifeOK
  <1>3. ASSUME NEW p \in Fighters, NEW a \in 1..FullHealth, NEW stamp \in 0..CombatTicks,
               Damaged(p, a, stamp), hits < CombatHits, hits' = hits + 1, now' = now
        PROVE  LifeOK'
    <2>1. [health EXCEPT ![p] = Floor0(health[p] - a)] \in [Fighters -> Health]
      BY <1>0, Hit, 0 <= a
    <2> QED
      BY <1>0, <1>3, <2>1 DEF Damaged, LifeOK
  <1>4. ASSUME NEW p \in Fighters, NEW a \in 1..FullHealth, LoopDamages(p, a) PROVE
        LifeOK' /\ UNCHANGED things /\ loop' = loop /\ duel' = duel
    BY <1>3, <1>4 DEF LoopDamages
  <1>5. ASSUME NEW p \in Fighters, NEW a \in 1..FullHealth, Fall(p, a) PROVE
        LifeOK' /\ UNCHANGED things /\ loop' = loop /\ duel'= duel
    <2>1. lastHit[p] + 1 \in 0..CombatTicks
      BY <1>0, <1>5 DEF Fall
    <2> QED
      BY <1>3, <1>5, <2>1 DEF Fall
  <1>6. ASSUME NEW a \in 1..FullHealth, CopyHits(a) \/ CopyHitsUngated(a) PROVE
        /\ LifeOK' /\ loop' \in LoopStates
        /\ UNCHANGED things /\ loop'.at = "hit" /\ duel' = duel
    <2>1. loop.at = "copied" /\ loop.who \in Fighters /\ loop.copy \in Nat /\ loop.copy <= FullHealth
      BY <1>0, <1>6, LoopFields DEF CopyHits, CopyHitsUngated
    <2>2. [health EXCEPT ![loop.who] = Floor0(loop.copy - a)] \in [Fighters -> Health]
      <3>1. a \in 0..FullHealth
        BY <1>0
      <3>2. \A p \in Fighters, h \in Nat : h <= FullHealth =>
                [health EXCEPT ![p] = Floor0(h - a)] \in [Fighters -> Health]
        BY <3>1, Hit
      <3> QED
        BY <2>1, <3>2
    <2>3. LifeOK'
      BY <1>0, <1>6, <2>1, <2>2 DEF CopyHits, CopyHitsUngated, LifeOK, life
    <2>4. loop' = [at |-> "hit"]
      BY <1>6 DEF CopyHits, CopyHitsUngated
    <2> QED
      BY <1>6, <2>3, <2>4 DEF CopyHits, CopyHitsUngated, LoopStates
  <1>7. ASSUME NEW p \in Fighters, NEW q \in Fighters, NEW a \in 0..FullHealth, Attack(p, q, a)
        PROVE  /\ LifeOK' /\ duel' \in [Fighters -> DuelStates]
               /\ UNCHANGED things /\ loop' = loop
    <2>1. [health EXCEPT ![q] = Floor0(health[q] - a)] \in [Fighters -> Health]
      BY <1>0, Hit
    <2>2. LifeOK'
      BY <1>0, <1>7, <2>1 DEF Attack, LifeOK
    <2>3. duel' \in [Fighters -> DuelStates]
      <3>1. [at |-> "struck", who |-> q] \in DuelStates
        BY DEF DuelStates
      <3> QED
        BY <1>7, <3>1 DEF Attack
    <2> QED
      BY <1>7, <2>2, <2>3 DEF Attack
  <1> QED
    BY <1>1, <1>2, <1>4, <1>5, <1>6, <1>7

LEMMA ThrowTypes ==
    ASSUME CombatInv, NEW p \in Fighters, NEW s \in Stacks, Throw(p, s)
    PROVE  CombatInv' /\ Puts(freeId, s) /\ loop' = loop
  <1>1. freeId \in Nat \ {0} /\ freeId + 1 \in Nat \ {0}
    BY DEF CombatInv, ThingsOK
  <1>2. Puts(freeId, s)
    BY DEF Throw, Puts
  <1>3. ThingsOK'
    <2>1. bag' \in [Fighters -> SUBSET Stacks]
      BY DEF Throw, CombatInv, ThingsOK
    <2>2. /\ DOMAIN lying' = DOMAIN lying \cup {freeId} /\ excused' \subseteq Stacks
          /\ \A i \in DOMAIN lying' : lying'[i] \in Stacks \cup {Orb}
      <3>1. s \in Stacks \cup {Orb} /\ ThingsOK
        BY DEF CombatInv
      <3> QED
        BY <1>1, <1>2, <3>1, PutType
    <2>3. freeId' = freeId + 1
      BY DEF Throw
    <2> QED
      BY <1>1, <2>1, <2>2, <2>3 DEF CombatInv, ThingsOK
  <1>4. LifeOK'
    BY CombatAssumption DEF Throw, CombatInv, LifeOK, life
  <1> QED
    BY <1>2, <1>3, <1>4 DEF Throw, CombatInv

LEMMA PickTypes ==
    ASSUME CombatInv, NEW p \in Fighters, NEW id \in DOMAIN lying, PicksUp(p, id)
    PROVE  CombatInv' /\ lying[id] \in Stacks /\ loop' = loop
  <1>1. lying[id] \in Stacks
    BY DEF PicksUp, CombatInv, ThingsOK
  <1>2. ThingsOK'
    <2>1. bag' \in [Fighters -> SUBSET Stacks] /\ excused' \subseteq Stacks
      BY <1>1 DEF PicksUp, CombatInv, ThingsOK
    <2>2. DOMAIN lying' \subseteq DOMAIN lying /\ \A i \in DOMAIN lying' : lying'[i] = lying[i]
      BY DEF PicksUp
    <2> QED
      BY <2>1, <2>2 DEF PicksUp, CombatInv, ThingsOK
  <1>3. LifeOK'
    BY DEF PicksUp, CombatInv, LifeOK, life
  <1> QED
    BY <1>1, <1>2, <1>3 DEF PicksUp, CombatInv

LEMMA DuelTypes ==
    ASSUME CombatInv, NEW p \in Fighters, SeesDeath(p) \/ DropsOne(p)
    PROVE  /\ CombatInv' /\ loop' = loop /\ bag' = bag
           /\ UNCHANGED things \/ \E s \in Stacks : Puts(freeId, s)
  <1> USE DEF CombatInv
  <1>1. LifeOK' /\ loop' = loop
    BY DEF SeesDeath, DropsOne, LifeOK, life
  <1>2. CASE SeesDeath(p)
    <2>1. duel[p].who \in Fighters
      BY <1>2, DuelFields DEF SeesDeath
    <2>2. [at |-> "drops", left |-> bag[duel[p].who] \ (Worn \cup Cursed)] \in DuelStates
      BY <2>1 DEF DuelStates, ThingsOK
    <2>3. Idle \in DuelStates
      BY DEF DuelStates
    <2>4. duel' \in [Fighters -> DuelStates]
      BY <1>2, <2>2, <2>3 DEF SeesDeath
    <2>5. UNCHANGED things
      BY <1>2 DEF SeesDeath
    <2>6. ThingsOK' /\ bag' = bag
      BY <2>5 DEF things, ThingsOK
    <2> QED
      BY <1>1, <2>4, <2>5, <2>6
  <1>3. CASE DropsOne(p)
    <2>1. duel[p] \in [at : {"drops"}, left : SUBSET Stacks]
      BY <1>3, DuelFields DEF DropsOne
    <2>2. CASE duel[p].left = {}
      <3>1. duel' \in [Fighters -> DuelStates]
        BY <1>3, <2>2 DEF DropsOne, DuelStates
      <3>2. UNCHANGED things
        BY <1>3, <2>2 DEF DropsOne
      <3>3. ThingsOK' /\ bag' = bag
        BY <3>2 DEF things, ThingsOK
      <3> QED
        BY <1>1, <3>1, <3>2, <3>3
    <2>3. CASE duel[p].left # {}
      <3>1. PICK s \in duel[p].left :
              /\ lying' = Placed(lying, freeId, s) /\ freeId' = freeId + 1
              /\ excused' = excused \cup Replaced(lying, {freeId})
              /\ duel' = [duel EXCEPT ![p].left = @ \ {s}]
              /\ UNCHANGED bag
        BY <1>3, <2>3 DEF DropsOne
      <3>2. s \in Stacks /\ Puts(freeId, s)
        BY <2>1, <3>1 DEF Puts
      <3>3. [duel[p] EXCEPT !.left = @ \ {s}] \in [at : {"drops"}, left : SUBSET Stacks]
        BY <2>1
      <3>4. duel' \in [Fighters -> DuelStates]
        <4>1. duel' = [duel EXCEPT ![p] = [duel[p] EXCEPT !.left = @ \ {s}]]
          BY <3>1
        <4>2. [duel[p] EXCEPT !.left = @ \ {s}] \in DuelStates
          BY <3>3 DEF DuelStates
        <4> QED
          BY <4>1, <4>2
      <3>5. freeId \in Nat \ {0} /\ freeId' \in Nat \ {0}
        BY <3>1 DEF ThingsOK
      <3>6. ThingsOK'
        <4>1. /\ DOMAIN lying' = DOMAIN lying \cup {freeId} /\ excused' \subseteq Stacks
              /\ \A i \in DOMAIN lying' : lying'[i] \in Stacks \cup {Orb}
          <5>1. s \in Stacks \cup {Orb} /\ ThingsOK
            BY <3>2
          <5> QED
            BY <3>2, <3>5, <5>1, PutType
        <4> QED
          BY <3>1, <3>5, <4>1 DEF ThingsOK
      <3> QED
        BY <1>1, <3>1, <3>2, <3>4, <3>6
    <2> QED
      BY <2>2, <2>3
  <1> QED
    BY <1>2, <1>3

(* The steps of the death check.                                           *)
LEMMA CheckTypes ==
    ASSUME CombatInv,
           \/ LoopEnds \/ DropsDead \/ DropsOrb \/ Respawns \/ NextTick
           \/ \E p \in Fighters : CopiesDead(p)
    PROVE  CombatInv'
  <1> USE DEF CombatInv
  <1>1. CASE LoopEnds
    <2>1. loop' \in LoopStates
      <3>1. {p \in Fighters : health[p] = 0} \in SUBSET Fighters
        OBVIOUS
      <3> QED
        BY <1>1, <3>1 DEF LoopEnds, LoopStates
    <2> QED
      BY <1>1, <2>1 DEF LoopEnds, LifeOK, ThingsOK, life, things
  <1>2. CASE DropsDead
    <2>1. /\ loop.at = "drop" /\ loop.left \subseteq Stacks /\ loop.id \in Nat \ {0}
          /\ loop \in [at : {"drop", "clear"}, who : Fighters, dead : SUBSET Fighters,
                       left : SUBSET Stacks, id : Nat \ {0}]
      BY <1>2, LoopFields DEF DropsDead
    <2>2. PICK s \in loop.left :
            /\ lying' = Placed(lying, loop.id, s)
            /\ excused' = excused \cup Replaced(lying, {loop.id})
            /\ loop' = [loop EXCEPT !.left = @ \ {s}, !.id = @ + 1]
      BY <1>2 DEF DropsDead
    <2>3. loop.id + 1 \in Nat \ {0} /\ loop.left \ {s} \in SUBSET Stacks
      BY <2>1
    <2>4. loop' \in LoopStates
      BY <2>1, <2>2, <2>3 DEF LoopStates
    <2>5. ThingsOK /\ s \in Stacks \cup {Orb} /\ Puts(loop.id, s)
      BY <2>1, <2>2 DEF Puts
    <2>6. /\ DOMAIN lying' = DOMAIN lying \cup {loop.id} /\ excused' \subseteq Stacks
          /\ \A i \in DOMAIN lying' : lying'[i] \in Stacks \cup {Orb}
      BY <2>1, <2>5, PutType
    <2>7. ThingsOK'
      BY <1>2, <2>1, <2>6 DEF DropsDead, ThingsOK
    <2> QED
      BY <1>2, <2>4, <2>7 DEF DropsDead, LifeOK, life
  <1>3. CASE DropsOrb
    <2>1. /\ loop.at = "drop" /\ loop.id \in Nat \ {0}
          /\ loop \in [at : {"drop", "clear"}, who : Fighters, dead : SUBSET Fighters,
                       left : SUBSET Stacks, id : Nat \ {0}]
      BY <1>3, LoopFields DEF DropsOrb
    <2>2. loop' \in LoopStates
      BY <1>3, <2>1 DEF DropsOrb, LoopStates
    <2>3. ThingsOK /\ Orb \in Stacks \cup {Orb} /\ Puts(loop.id, Orb)
      BY <1>3 DEF Puts, DropsOrb
    <2>4. /\ DOMAIN lying' = DOMAIN lying \cup {loop.id} /\ excused' \subseteq Stacks
          /\ \A i \in DOMAIN lying' : lying'[i] \in Stacks \cup {Orb}
      BY <2>1, <2>3, PutType
    <2>5. loop.id + 1 \in Nat \ {0} /\ freeId' = loop.id + 1
      BY <1>3, <2>1 DEF DropsOrb
    <2>6. ThingsOK'
      BY <1>3, <2>1, <2>4, <2>5 DEF DropsOrb, ThingsOK
    <2> QED
      BY <1>3, <2>2, <2>6 DEF DropsOrb, LifeOK, life
  <1>4. CASE Respawns
    <2>1. loop.who \in Fighters /\ loop.dead \subseteq Fighters
      BY <1>4, LoopFields DEF Respawns
    <2>2. loop' \in LoopStates
      BY <1>4, <2>1 DEF Respawns, LoopStates
    <2>3. health' \in [Fighters -> Health]
      BY <1>4, <2>1, HealthIs DEF Respawns, LifeOK
    <2> QED
      BY <1>4, <2>2, <2>3 DEF Respawns, LifeOK, ThingsOK
  <1>5. CASE NextTick
    <2>1. now' \in 0..CombatTicks
      BY <1>5, CombatAssumption DEF NextTick, LifeOK
    <2>2. loop' \in LoopStates
      BY <1>5 DEF NextTick, LoopStates
    <2> QED
      BY <1>5, <2>1, <2>2 DEF NextTick, LifeOK, ThingsOK, life, things
  <1>6. ASSUME NEW p \in Fighters, CopiesDead(p) PROVE CombatInv'
    <2>1. loop.dead \subseteq Fighters
      BY <1>6, LoopFields DEF CopiesDead
    <2>2. loop' \in LoopStates
      BY <1>6, <2>1 DEF CopiesDead, LoopStates, ThingsOK
    <2> QED
      BY <1>6, <2>2 DEF CopiesDead, LifeOK, ThingsOK, life, things
  <1> QED
    BY <1>1, <1>2, <1>3, <1>4, <1>5, <1>6

LEMMA CombatTypes ==
    CombatInv /\ [CombatNext]_combat_vars => CombatInv'
  <1> SUFFICES ASSUME CombatInv, [CombatNext]_combat_vars PROVE CombatInv'
    OBVIOUS
  <1>1. ASSUME LifeOK', loop' \in LoopStates, duel' \in [Fighters -> DuelStates], UNCHANGED things
        PROVE  CombatInv'
    BY <1>1 DEF CombatInv, ThingsOK, things
  <1>2. CASE LoopStep
    BY <1>1, <1>2, HitTypes, CheckTypes DEF LoopStep
  <1>3. ASSUME NEW p \in Fighters, TaskStep(p) PROVE CombatInv'
    BY <1>1, <1>3, HitTypes, DuelTypes, ThrowTypes, PickTypes DEF TaskStep
  <1>4. CASE UNCHANGED combat_vars
    BY <1>4 DEF combat_vars, CombatInv, LifeOK, ThingsOK
  <1> QED
    BY <1>2, <1>3, <1>4 DEF CombatNext

(* Combat starts where the types hold, and they go on holding.             *)
LEMMA CombatStarts ==
    CombatInit => CombatInv
  <1> SUFFICES ASSUME CombatInit PROVE CombatInv
    OBVIOUS
  <1>1. LifeOK
    <2>1. /\ FullHealth \in Nat /\ Health = 0..FullHealth
          /\ CombatTicks \in Nat /\ CombatHits \in Nat
      BY CombatAssumption DEF Health
    <2>2. FullHealth \in Health
      BY <2>1
    <2> QED
      BY <2>1, <2>2 DEF CombatInit, LifeOK
  <1>2. ThingsOK
    BY CombatAssumption DEF CombatInit, ThingsOK
  <1>3. loop \in LoopStates /\ duel \in [Fighters -> DuelStates]
    BY DEF CombatInit, LoopStates, DuelStates
  <1> QED
    BY <1>1, <1>2, <1>3 DEF CombatInv

(* Health, hits and ids stay in their ranges, and what the tick loop and   *)
(* the tasks have read is about players and stacks, whatever the order of  *)
(* their hits (combat.rs, main.rs).                                        *)
THEOREM CombatTypeCorrect == CombatSpec => []CombatTypeOK
  <1>1. CombatInv => CombatTypeOK
    BY LoopFields, DuelFields DEF CombatInv, LifeOK, ThingsOK, CombatTypeOK
  <1> QED
    BY <1>1, CombatStarts, CombatTypes, PTL DEF CombatSpec

-----------------------------------------------------------------------------
(* Combat: no stack is lost without a cause                                *)

(* A stack is not only in the bag of a player that the death check is      *)
(* about to replace.                                                       *)
Elsewhere(s, p) == s \in OnGround \cup excused \/ \E q \in Fighters \ {p} : s \in bag[q]

(* Once the death check has copied a player, what the player has and the   *)
(* copy has no more is on the ground, or with somebody else.               *)
Clearing ==
    loop.at \in {"drop", "clear"} =>
        /\ loop.at = "clear" => loop.left = {}
        /\ \A s \in bag[loop.who] : s \in loop.left \/ Elsewhere(s, loop.who)

LEMMA ClearingThen ==
    ASSUME NEW p, loop'.who = p, loop'.at = "clear" => loop'.left = {},
           \A s \in bag'[p] : s \in loop'.left \/ Elsewhere(s, p)'
    PROVE  Clearing'
  BY DEF Clearing, Elsewhere

LEMMA ClearingNow ==
    ASSUME CombatInv, Clearing, loop.at \in {"drop", "clear"}
    PROVE  /\ loop.at = "clear" => loop.left = {}
           /\ \E p \in Fighters : /\ loop.who = p
                                /\ \A s \in bag[p] : s \in Stacks /\ (s \in loop.left \/ Elsewhere(s, p))
  BY LoopFields DEF Clearing, CombatInv, ThingsOK

LEMMA HeldBy ==
    ASSUME NEW s
    PROVE  s \in Held <=> \E p \in Fighters : s \in bag[p]
  BY DEF Held

(* Putting things down loses nothing without a cause.                      *)
LEMMA PuttingKeeps ==
    ASSUME CombatInv, LossesExplained, NEW id \in Nat \ {0}, NEW thing \in Stacks \cup {Orb},
           Puts(id, thing), bag' = bag
    PROVE  /\ LossesExplained'
           /\ \A p \in Fighters, s \in Stacks : Elsewhere(s, p) => Elsewhere(s, p)'
           /\ thing # Orb => \A p \in Fighters : Elsewhere(thing, p)'
  <1>1. /\ excused \subseteq excused' /\ OnGround \subseteq OnGround' \cup excused'
        /\ thing # Orb => thing \in OnGround'
    BY PutType DEF CombatInv
  <1>2. Held' = Held
    BY DEF Held
  <1> QED
    BY <1>1, <1>2 DEF LossesExplained, Elsewhere

(* Where nothing is carried and nothing dropped, nothing is lost.          *)
LEMMA StillThere ==
    ASSUME LossesExplained, UNCHANGED things
    PROVE  /\ LossesExplained' /\ \A s, p : Elsewhere(s, p) => Elsewhere(s, p)'
           /\ Clearing /\ loop' = loop => Clearing'
           /\ loop'.at \in {"hit", "copied", "check"} => Clearing'
  BY DEF things, LossesExplained, Held, OnGround, Elsewhere, Clearing

LEMMA CombatKeeps ==
    CombatInv /\ LossesExplained /\ Clearing /\ [CombatNext]_combat_vars => LossesExplained' /\ Clearing'
  <1> SUFFICES ASSUME CombatInv, LossesExplained, Clearing, [CombatNext]_combat_vars
               PROVE  LossesExplained' /\ Clearing'
    OBVIOUS
  <1>0. \A p \in Fighters : bag[p] \subseteq Stacks
    BY DEF CombatInv, ThingsOK
  <1>1. ASSUME UNCHANGED things, loop' = loop \/ loop'.at \in {"hit", "copied", "check"}
        PROVE  LossesExplained' /\ Clearing'
    BY <1>1, StillThere
  <1>2. ASSUME NEW p \in Fighters, CopiesDead(p) PROVE LossesExplained' /\ Clearing'
    <2>1. UNCHANGED things /\ loop'.at = "drop" /\ loop'.who = p /\ loop'.left = bag[p]
      BY <1>2 DEF CopiesDead
    <2>2. bag' = bag
      BY <2>1 DEF things
    <2> QED
      BY <2>1, <2>2, StillThere DEF Clearing
  <1>3. CASE LoopEnds \/ NextTick
    BY <1>1, <1>3 DEF LoopEnds, NextTick
  <1>4. CASE DropsDead
    <2>1. loop.left \subseteq Stacks /\ loop.id \in Nat \ {0} /\ loop.who \in Fighters
          /\ loop.at = "drop"
          /\ loop \in [at : {"drop", "clear"}, who : Fighters, dead : SUBSET Fighters,
                       left : SUBSET Stacks, id : Nat \ {0}]
      BY <1>4, LoopFields DEF DropsDead, CombatInv
    <2>2. PICK s \in loop.left :
            /\ lying' = Placed(lying, loop.id, s)
            /\ excused' = excused \cup Replaced(lying, {loop.id})
            /\ loop' = [loop EXCEPT !.left = @ \ {s}, !.id = @ + 1]
      BY <1>4 DEF DropsDead
    <2>3. s \in Stacks \cup {Orb} /\ Puts(loop.id, s) /\ bag' = bag /\ s # Orb
      BY <1>4, <2>1, <2>2, CombatAssumption DEF Puts, DropsDead, Orb
    <2>4. /\ LossesExplained'
          /\ \A p \in Fighters, t \in Stacks : Elsewhere(t, p) => Elsewhere(t, p)'
          /\ \A p \in Fighters : Elsewhere(s, p)'
      BY <2>1, <2>3, PuttingKeeps
    <2>5. loop'.at = "drop" /\ loop'.who = loop.who /\ loop'.left = loop.left \ {s}
      BY <2>1, <2>2
    <2>6. PICK p \in Fighters : /\ loop.who = p
                               /\ \A t \in bag[p] : t \in Stacks /\ (t \in loop.left \/ Elsewhere(t, p))
      BY <2>1, ClearingNow
    <2>7. \A t \in bag'[p] : t \in loop'.left \/ Elsewhere(t, p)'
      BY <2>3, <2>4, <2>5, <2>6
    <2> QED
      BY <2>4, <2>5, <2>6, <2>7, ClearingThen
  <1>5. CASE DropsOrb
    <2>1. loop.left = {} /\ loop.id \in Nat \ {0} /\ loop.who \in Fighters /\ loop.at = "drop"
          /\ loop \in [at : {"drop", "clear"}, who : Fighters, dead : SUBSET Fighters,
                       left : SUBSET Stacks, id : Nat \ {0}]
      BY <1>5, LoopFields DEF DropsOrb, CombatInv
    <2>2. Orb \in Stacks \cup {Orb} /\ Puts(loop.id, Orb) /\ bag' = bag
      BY <1>5 DEF Puts, DropsOrb
    <2>3. /\ LossesExplained'
          /\ \A p \in Fighters, t \in Stacks : Elsewhere(t, p) => Elsewhere(t, p)'
      BY <2>1, <2>2, PuttingKeeps
    <2>4. loop'.at = "clear" /\ loop'.who = loop.who /\ loop'.left = loop.left
      BY <1>5, <2>1 DEF DropsOrb
    <2>5. PICK p \in Fighters : /\ loop.who = p
                               /\ \A t \in bag[p] : t \in Stacks /\ (t \in loop.left \/ Elsewhere(t, p))
      BY <2>1, ClearingNow
    <2>6. \A t \in bag'[p] : Elsewhere(t, p)'
      BY <2>1, <2>2, <2>3, <2>5
    <2> QED
      BY <2>1, <2>3, <2>4, <2>5, <2>6, ClearingThen
  <1>6. CASE Respawns
    <2>1. loop.at = "clear" /\ loop.who \in Fighters /\ loop'.at = "check"
      BY <1>6, LoopFields DEF Respawns, CombatInv
    <2>2. /\ bag' = [bag EXCEPT ![loop.who] = {}] /\ OnGround' = OnGround /\ excused' = excused
          /\ DOMAIN bag = Fighters
      BY <1>6 DEF Respawns, OnGround, CombatInv, ThingsOK
    <2>3. ASSUME NEW s \in UNION {Bag[p] : p \in Fighters} PROVE s \in Held' \cup OnGround' \cup excused'
      <3>1. CASE s \in OnGround \cup excused
        BY <2>2, <3>1
      <3>2. ASSUME NEW q \in Fighters \ {loop.who}, s \in bag[q] PROVE s \in Held'
        BY <2>2, <3>2 DEF Held
      <3>3. CASE s \in bag[loop.who]
        BY <2>1, <3>1, <3>2, <3>3 DEF Clearing, Elsewhere
      <3> QED
        BY <3>1, <3>2, <3>3, HeldBy DEF LossesExplained
    <2> QED
      BY <2>1, <2>3 DEF LossesExplained, Clearing
  <1>7. ASSUME NEW p \in Fighters, NEW s \in Stacks, Throw(p, s) PROVE LossesExplained' /\ Clearing'
    <2>1. Puts(freeId, s) /\ loop' = loop /\ freeId \in Nat \ {0} /\ s # Orb /\ s \in Stacks \cup {Orb}
      BY <1>7, ThrowTypes, CombatAssumption DEF CombatInv, ThingsOK, Orb
    <2>2. /\ excused \subseteq excused' /\ OnGround \subseteq OnGround' \cup excused' /\ s \in OnGround'
      BY <2>1, PutType DEF CombatInv
    <2>3. /\ \A q \in Fighters : \A t \in bag[q] : t \in bag'[q] \/ t = s
          /\ \A q \in Fighters : bag'[q] \subseteq bag[q]
      BY <1>7 DEF Throw, CombatInv, ThingsOK
    <2>4. \A q \in Fighters, t \in Stacks : Elsewhere(t, q) => Elsewhere(t, q)'
      BY <2>2, <2>3 DEF Elsewhere
    <2>5. LossesExplained'
      BY <2>2, <2>3 DEF LossesExplained, Held
    <2>6. Clearing'
      <3> SUFFICES ASSUME loop.at \in {"drop", "clear"} PROVE Clearing'
        BY <2>1 DEF Clearing
      <3>1. loop.at = "clear" => loop.left = {}
        BY DEF Clearing
      <3>2. PICK q \in Fighters : /\ loop.who = q
                                 /\ \A t \in bag[q] : t \in Stacks /\ (t \in loop.left \/ Elsewhere(t, q))
        BY ClearingNow
      <3>3. \A t \in bag'[q] : t \in loop'.left \/ Elsewhere(t, q)'
        BY <2>1, <2>3, <2>4, <3>2
      <3> QED
        BY <2>1, <3>1, <3>2, <3>3, ClearingThen
    <2> QED
      BY <2>5, <2>6
  <1>8. ASSUME NEW p \in Fighters, NEW id \in DOMAIN lying, PicksUp(p, id) PROVE LossesExplained' /\ Clearing'
    <2>1. loop' = loop /\ lying[id] \in Stacks
      BY <1>8, PickTypes
    <2>2. /\ \A q \in Fighters : bag[q] \subseteq bag'[q]
          /\ \A q \in Fighters \ {p} : bag'[q] = bag[q]
          /\ bag'[p] = bag[p] \cup {lying[id]}
      BY <1>8 DEF PicksUp, CombatInv, ThingsOK
    <2>3. OnGround \subseteq OnGround' \cup {lying[id]} /\ excused \subseteq excused'
      <3>1. \A i \in DOMAIN lying \ {id} : i \in DOMAIN lying' /\ lying'[i] = lying[i]
        BY <1>8 DEF PicksUp
      <3>2. \A i \in DOMAIN lying : lying[i] # Orb => lying[i] \in OnGround' \cup {lying[id]}
        BY <3>1 DEF OnGround
      <3>3. excused \subseteq excused'
        BY <1>8 DEF PicksUp
      <3> QED
        BY <3>2, <3>3 DEF OnGround
    <2>4. LossesExplained'
      BY <2>2, <2>3 DEF LossesExplained, Held
    <2>5. Clearing'
      <3> SUFFICES ASSUME loop.at \in {"drop", "clear"} PROVE Clearing'
        BY <2>1 DEF Clearing
      <3>1. loop.at = "clear" => loop.left = {}
        BY DEF Clearing
      <3>2. PICK q \in Fighters : /\ loop.who = q
                                 /\ \A t \in bag[q] : t \in Stacks /\ (t \in loop.left \/ Elsewhere(t, q))
        BY ClearingNow
      <3>3. CASE q = p
        <4>1. lying[id] \in excused'
          BY <1>8, <3>2, <3>3 DEF PicksUp
        <4>2. \A t \in bag'[q] : t \in loop'.left \/ Elsewhere(t, q)'
          BY <2>1, <2>2, <2>3, <3>2, <3>3, <4>1 DEF Elsewhere
        <4> QED
          BY <2>1, <3>1, <3>2, <4>2, ClearingThen
      <3>4. CASE q # p
        <4>1. \A t \in bag'[q] : t \in loop'.left \/ Elsewhere(t, q)'
          BY <2>1, <2>2, <2>3, <3>2, <3>4 DEF Elsewhere
        <4> QED
          BY <2>1, <3>1, <3>2, <4>1, ClearingThen
      <3> QED
        BY <3>3, <3>4
    <2> QED
      BY <2>4, <2>5
  <1>9. ASSUME NEW p \in Fighters, SeesDeath(p) \/ DropsOne(p) PROVE LossesExplained' /\ Clearing'
    <2>1. /\ loop' = loop /\ bag' = bag
          /\ UNCHANGED things \/ \E s \in Stacks : Puts(freeId, s)
      BY <1>9, DuelTypes
    <2>2. ASSUME NEW s \in Stacks, Puts(freeId, s) PROVE LossesExplained' /\ Clearing'
      <3>1. freeId \in Nat \ {0} /\ s \in Stacks \cup {Orb}
        BY DEF CombatInv, ThingsOK
      <3>2. /\ LossesExplained'
            /\ \A q \in Fighters, t \in Stacks : Elsewhere(t, q) => Elsewhere(t, q)'
        BY <2>1, <2>2, <3>1, PuttingKeeps
      <3>3. Clearing'
        <4> SUFFICES ASSUME loop.at \in {"drop", "clear"} PROVE Clearing'
          BY <2>1 DEF Clearing
        <4>1. loop.at = "clear" => loop.left = {}
          BY DEF Clearing
        <4>2. PICK q \in Fighters : /\ loop.who = q
                                   /\ \A t \in bag[q] : t \in Stacks /\ (t \in loop.left \/ Elsewhere(t, q))
          BY ClearingNow
        <4>3. \A t \in bag'[q] : t \in loop'.left \/ Elsewhere(t, q)'
          BY <2>1, <3>2, <4>2
        <4> QED
          BY <2>1, <4>1, <4>2, <4>3, ClearingThen
      <3> QED
        BY <3>2, <3>3
    <2> QED
      BY <1>1, <2>1, <2>2
  <1>10. CASE LoopStep
    BY <1>1, <1>2, <1>3, <1>4, <1>5, <1>6, <1>10, HitTypes DEF LoopStep
  <1>11. ASSUME NEW p \in Fighters, TaskStep(p) PROVE LossesExplained' /\ Clearing'
    BY <1>1, <1>7, <1>8, <1>9, <1>11, HitTypes DEF TaskStep
  <1>12. CASE UNCHANGED combat_vars
    BY <1>1, <1>12 DEF combat_vars, things
  <1> QED
    BY <1>10, <1>11, <1>12 DEF CombatNext

(* Every stack the players started with is with a player or on the ground, *)
(* or its loss has one of the two known causes: deaths drop everything     *)
(* else, though the death check works on copies and shares the id counter  *)
(* with the tasks (main.rs, death check).                                  *)
THEOREM DeathDropsEverything == CombatSpec => []LossesExplained
  <1>1. CombatInit => LossesExplained /\ Clearing
    BY DEF CombatInit, LossesExplained, Held, Clearing
  <1> QED
    BY <1>1, CombatStarts, CombatTypes, CombatKeeps, PTL DEF CombatSpec

-----------------------------------------------------------------------------
(* Fishing: every bobber is on one line, or abandoned                      *)

LinesOK ==
    /\ cast0 \in 0..Bobbers /\ line \in [Anglers -> 0..cast0]
    /\ angling \in [Anglers -> [at : {"shore", "cast", "reel"}, bobber : 0..cast0]]
    /\ DOMAIN bobbers \subseteq 1..cast0 /\ \A b \in DOMAIN bobbers : bobbers[b] \in Nat
    /\ catches \in [1..Bobbers -> Nat]

(* How far the task is tells what the line and the manager have.           *)
TiedUp(p) ==
    /\ angling[p].at = "shore" => angling[p].bobber = 0
    /\ angling[p].at = "cast" => line[p] = 0 /\ angling[p].bobber \in DOMAIN bobbers
    /\ angling[p].at = "reel" => /\ line[p] = angling[p].bobber /\ line[p] # 0
                                 /\ line[p] \notin DOMAIN bobbers
    /\ line[p] # 0 /\ angling[p].at # "reel" => line[p] \in DOMAIN bobbers

(* No bobber is at two players' hands.                                     *)
Untangled ==
    \A p, q \in Anglers :
        p # q => {line[p], angling[p].bobber} \cap {line[q], angling[q].bobber} \subseteq {0}

HeldOrLeft == \A b \in DOMAIN bobbers \ abandoned : \E p \in Anglers : Holds(p, b)

(* A bobber gives one catch at most, and none while it is out, or before.  *)
CaughtOnce ==
    \A b \in 1..Bobbers : catches[b] <= 1 /\ (b \in DOMAIN bobbers \/ b > cast0 => catches[b] = 0)

FishInv == LinesOK /\ (\A p \in Anglers : TiedUp(p)) /\ Untangled /\ HeldOrLeft /\ CaughtOnce

LEMMA OneHolder ==
    FishInv => BobbersAccounted
  <1> SUFFICES ASSUME FishInv PROVE BobbersAccounted
    OBVIOUS
  <1>1. ASSUME NEW b \in DOMAIN bobbers \ abandoned
        PROVE  Cardinality({p \in Anglers : Holds(p, b)}) = 1
    <2>1. PICK p \in Anglers : Holds(p, b)
      BY DEF FishInv, HeldOrLeft
    <2>2. b # 0
      BY DEF FishInv, LinesOK
    <2>3. \A q \in Anglers : Holds(q, b) => q = p
      BY <2>1, <2>2 DEF FishInv, Untangled, Holds
    <2>4. {q \in Anglers : Holds(q, b)} = {p}
      BY <2>1, <2>3
    <2> QED
      BY <2>4, FS_Singleton
  <1> QED
    BY <1>1 DEF FishInv, TiedUp, CaughtOnce, BobbersAccounted

LEMMA FishStarts ==
    HusbandryInit => FishInv
  BY HusbandryAssumption
     DEF HusbandryInit, FishInv, LinesOK, TiedUp, Untangled, HeldOrLeft, CaughtOnce, Ashore

LEMMA CastKeeps ==
    ASSUME FishInv, NEW p \in Anglers, NEW wait \in 1..LongestWait, Cast(p, wait)
    PROVE  FishInv'
  <1> DEFINE n == cast0 + 1
  <1>1. /\ cast0 \in Nat /\ cast0 < Bobbers /\ Bobbers \in Nat /\ n \in 1..Bobbers /\ cast0' = n
        /\ wait \in Nat
    BY HusbandryAssumption DEF Cast, FishInv, LinesOK
  <1>2. /\ DOMAIN bobbers' = DOMAIN bobbers \cup {n} /\ bobbers'[n] = wait
        /\ \A b \in DOMAIN bobbers : b # n => bobbers'[b] = bobbers[b]
        /\ n \notin DOMAIN bobbers
    BY <1>1 DEF Cast, FishInv, LinesOK
  <1>3. /\ angling[p] = Ashore /\ line[p] = 0 /\ line' = line /\ abandoned' = abandoned /\ catches' = catches
        /\ angling'[p] = [at |-> "cast", bobber |-> n]
        /\ \A q \in Anglers \ {p} : angling'[q] = angling[q]
    BY DEF Cast, FishInv, LinesOK
  <1>4. \A q \in Anglers : /\ line[q] \in 0..cast0 /\ angling[q].bobber \in 0..cast0
                           /\ angling[q] \in [at : {"shore", "cast", "reel"}, bobber : 0..cast0]
                           /\ line[q] # n /\ angling[q].bobber # n
    BY <1>1 DEF FishInv, LinesOK
  <1>5. LinesOK'
    <2>1. line' \in [Anglers -> 0..n]
      BY <1>1, <1>3 DEF FishInv, LinesOK
    <2>2. angling' \in [Anglers -> [at : {"shore", "cast", "reel"}, bobber : 0..n]]
      <3>1. \A q \in Anglers : angling'[q] \in [at : {"shore", "cast", "reel"}, bobber : 0..n]
        BY <1>1, <1>3, <1>4
      <3> QED
        BY <3>1 DEF Cast, FishInv, LinesOK
    <2>3. DOMAIN bobbers' \subseteq 1..n /\ \A b \in DOMAIN bobbers' : bobbers'[b] \in Nat
      BY <1>1, <1>2 DEF FishInv, LinesOK
    <2> QED
      BY <1>1, <1>3, <2>1, <2>2, <2>3 DEF FishInv, LinesOK
  <1> HIDE DEF n
  <1>6. ASSUME NEW q \in Anglers PROVE TiedUp(q)'
    <2>1. CASE q = p
      BY <1>2, <1>3, <2>1 DEF TiedUp
    <2>2. CASE q # p
      BY <1>2, <1>3, <1>4, <2>2 DEF FishInv, TiedUp
    <2> QED
      BY <2>1, <2>2
  <1>7. Untangled'
    BY <1>3, <1>4 DEF FishInv, Untangled, Ashore
  <1>8. HeldOrLeft'
    <2> SUFFICES ASSUME NEW b \in DOMAIN bobbers' \ abandoned PROVE \E q \in Anglers : Holds(q, b)'
      BY <1>3 DEF HeldOrLeft
    <2>1. CASE b = n
      BY <1>3, <2>1 DEF Holds
    <2>2. CASE b # n
      <3>1. PICK q \in Anglers : Holds(q, b)
        BY <1>2, <2>2 DEF FishInv, HeldOrLeft
      <3>2. b # 0
        BY <1>2, <2>2 DEF FishInv, LinesOK
      <3>3. q # p
        BY <1>3, <3>1, <3>2 DEF Holds, Ashore
      <3> QED
        BY <1>3, <3>1, <3>3 DEF Holds
    <2> QED
      BY <2>1, <2>2
  <1>9. CaughtOnce'
    BY <1>1, <1>2, <1>3 DEF FishInv, CaughtOnce, n
  <1> QED
    BY <1>5, <1>6, <1>7, <1>8, <1>9 DEF FishInv

LEMMA ReelKeeps ==
    ASSUME FishInv, NEW p \in Anglers, ReelIn(p)
    PROVE  FishInv'
  <1>1. PICK n : n = line[p]
    OBVIOUS
  <1>2. /\ n \in DOMAIN bobbers /\ n \in 1..Bobbers /\ n # 0 /\ n \in 0..cast0 /\ cast0 \in 0..Bobbers
        /\ Bobbers \in Nat /\ catches[n] = 0
    BY <1>1, HusbandryAssumption DEF ReelIn, FishInv, LinesOK, TiedUp, Ashore, CaughtOnce
  <1>3. /\ DOMAIN bobbers' = DOMAIN bobbers \ {n} /\ \A b \in DOMAIN bobbers' : bobbers'[b] = bobbers[b]
        /\ catches' = [catches EXCEPT ![n] = catches[n] + Caught(n).loot]
        /\ Caught(n).loot \in {0, 1}
    BY <1>1 DEF ReelIn, Caught
  <1>4. /\ angling[p] = Ashore /\ line' = line /\ abandoned' = abandoned /\ cast0' = cast0
        /\ angling'[p] = [at |-> "reel", bobber |-> n]
        /\ \A q \in Anglers \ {p} : angling'[q] = angling[q]
    BY <1>1 DEF ReelIn, FishInv, LinesOK
  <1>5. \A q \in Anglers \ {p} : n \notin {line[q], angling[q].bobber}
    BY <1>1, <1>2 DEF FishInv, Untangled
  <1>6. LinesOK'
    <2>1. angling' \in [Anglers -> [at : {"shore", "cast", "reel"}, bobber : 0..cast0]]
      BY <1>1, <1>2 DEF ReelIn, FishInv, LinesOK
    <2>2. catches' \in [1..Bobbers -> Nat] /\ catches'[n] <= 1
          /\ \A b \in 1..Bobbers : b # n => catches'[b] = catches[b]
      BY <1>2, <1>3 DEF FishInv, LinesOK
    <2> QED
      BY <1>3, <1>4, <2>1, <2>2 DEF FishInv, LinesOK
  <1>7. ASSUME NEW q \in Anglers PROVE TiedUp(q)'
    <2>1. CASE q = p
      BY <1>1, <1>2, <1>3, <1>4, <2>1 DEF TiedUp
    <2>2. CASE q # p
      BY <1>3, <1>4, <1>5, <2>2 DEF FishInv, TiedUp
    <2> QED
      BY <2>1, <2>2
  <1>8. Untangled'
    BY <1>1, <1>4, <1>5 DEF FishInv, Untangled, Ashore
  <1>9. HeldOrLeft'
    <2> SUFFICES ASSUME NEW b \in DOMAIN bobbers \ abandoned, b # n PROVE \E q \in Anglers : Holds(q, b)'
      BY <1>3, <1>4 DEF HeldOrLeft
    <2>1. PICK q \in Anglers : Holds(q, b)
      BY DEF FishInv, HeldOrLeft
    <2>2. b # 0
      BY DEF FishInv, LinesOK
    <2>3. q # p
      BY <1>1, <1>4, <2>1, <2>2 DEF Holds, Ashore
    <2> QED
      BY <1>4, <2>1, <2>3 DEF Holds
  <1>10. CaughtOnce'
    <2>1. \A b \in 1..Bobbers : b # n => catches'[b] = catches[b]
      BY <1>3 DEF FishInv, LinesOK
    <2>2. catches'[n] \in {0, 1}
      BY <1>2, <1>3 DEF FishInv, LinesOK
    <2> QED
      BY <1>2, <1>3, <1>4, <2>1, <2>2 DEF FishInv, CaughtOnce, LinesOK
  <1> QED
    BY <1>6, <1>7, <1>8, <1>9, <1>10 DEF FishInv

(* The other steps of a player: the manager is as it was.                  *)
LEMMA HandKeeps ==
    ASSUME FishInv, NEW p \in Anglers, SetLine(p) \/ ClearLine(p) \/ Leave(p)
    PROVE  FishInv'
  <1>1. /\ bobbers' = bobbers /\ cast0' = cast0 /\ catches' = catches
        /\ angling' = [angling EXCEPT ![p] = Ashore]
        /\ \E n \in {0, angling[p].bobber} : line' = [line EXCEPT ![p] = n]
    BY DEF SetLine, ClearLine, Leave
  <1>2. /\ angling'[p] = Ashore /\ line'[p] \in {0, angling[p].bobber}
        /\ \A q \in Anglers \ {p} : angling'[q] = angling[q] /\ line'[q] = line[q]
        /\ angling[p].bobber \in 0..cast0 /\ cast0 \in Nat
    BY <1>1 DEF FishInv, LinesOK
  <1>3. LinesOK'
    <2>1. Ashore \in [at : {"shore", "cast", "reel"}, bobber : 0..cast0]
      BY <1>2 DEF Ashore
    <2>2. angling' \in [Anglers -> [at : {"shore", "cast", "reel"}, bobber : 0..cast0]]
      BY <1>1, <2>1 DEF FishInv, LinesOK
    <2>3. line' \in [Anglers -> 0..cast0]
      BY <1>1, <1>2 DEF FishInv, LinesOK
    <2> QED
      BY <1>1, <2>2, <2>3 DEF FishInv, LinesOK
  <1>4. line'[p] # 0 => SetLine(p) /\ line'[p] = angling[p].bobber /\ angling[p].at = "cast"
    BY DEF SetLine, ClearLine, Leave, FishInv, LinesOK
  <1>5. ASSUME NEW q \in Anglers PROVE TiedUp(q)'
    <2>1. CASE q = p
      BY <1>1, <1>2, <1>4, <2>1 DEF FishInv, TiedUp, Ashore
    <2>2. CASE q # p
      BY <1>1, <1>2, <2>2 DEF FishInv, TiedUp
    <2> QED
      BY <2>1, <2>2
  <1>6. Untangled'
    BY <1>2 DEF FishInv, Untangled, Ashore
  <1>7. HeldOrLeft'
    <2> SUFFICES ASSUME NEW b \in DOMAIN bobbers \ abandoned' PROVE \E q \in Anglers : Holds(q, b)'
      BY <1>1 DEF HeldOrLeft
    <2>1. b \notin abandoned /\ b # 0
      BY DEF SetLine, ClearLine, Leave, FishInv, LinesOK
    <2>2. PICK q \in Anglers : Holds(q, b)
      BY <2>1 DEF FishInv, HeldOrLeft
    <2>3. CASE q # p
      BY <1>2, <2>2, <2>3 DEF Holds
    <2>4. CASE q = p
      <3>1. ~ClearLine(p) /\ ~Leave(p)
        BY <2>2, <2>4 DEF Holds, ClearLine, Leave
      <3>2. b = angling[p].bobber /\ line'[p] = b
        BY <2>1, <2>2, <2>4, <3>1 DEF Holds, SetLine, FishInv, LinesOK, TiedUp
      <3> QED
        BY <1>2, <2>4, <3>2 DEF Holds, Ashore
    <2> QED
      BY <2>3, <2>4
  <1>8. CaughtOnce'
    BY <1>1 DEF FishInv, CaughtOnce
  <1> QED
    BY <1>3, <1>5, <1>6, <1>7, <1>8 DEF FishInv

LEMMA FishKeeps ==
    FishInv /\ [HusbandryNext]_husbandry_vars => FishInv'
  <1> SUFFICES ASSUME FishInv, [HusbandryNext]_husbandry_vars PROVE FishInv'
    OBVIOUS
  <1>1. ASSUME UNCHANGED <<line, angling, cast0, abandoned, catches>>, DOMAIN bobbers' = DOMAIN bobbers,
               \A b \in DOMAIN bobbers' : bobbers'[b] \in Nat
        PROVE  FishInv'
    BY <1>1 DEF FishInv, LinesOK, TiedUp, Untangled, HeldOrLeft, Holds, CaughtOnce
  <1>2. CASE Bite
    <2>1. DOMAIN bobbers' = DOMAIN bobbers
      BY <1>2 DEF Bite
    <2>2. \A b \in DOMAIN bobbers' : bobbers'[b] \in Nat
      BY <1>2 DEF Bite, FishInv, LinesOK
    <2> QED
      BY <1>1, <1>2, <2>1, <2>2 DEF Bite
  <1>3. CASE Decay \/ \E p \in Anglers : OpenTrade(p)
    BY <1>1, <1>3 DEF Decay, OpenTrade, FishInv, LinesOK
  <1>4. CASE UNCHANGED husbandry_vars
    BY <1>1, <1>4 DEF husbandry_vars, FishInv, LinesOK
  <1> QED
    BY <1>2, <1>3, <1>4, CastKeeps, ReelKeeps, HandKeeps DEF HusbandryNext

(* Each bobber the manager still ticks is on one player's line or on its   *)
(* way to it, or its player left; a line in the water has its bobber, and  *)
(* none is caught from twice, wherever tasks end between their packets     *)
(* (fishing.rs, and the use of a rod in play_loop.rs).                     *)
THEOREM BobbersStayTied == HusbandrySpec => []BobbersAccounted
  BY OneHolder, FishStarts, FishKeeps, PTL DEF HusbandrySpec

-----------------------------------------------------------------------------
(* The minds of mobs: attacks keep their distance                          *)

Moods == {"idle", "wanders", "chases", "fuse"}
Firsts == {h[1] : h \in Habits}
Seconds == {h[2] : h \in Habits} \cup {"gatherer"}
Minds ==
    [first : Firsts, second : Seconds, age : 0..OldAge, timer : 0..Pause, cooldown : 0..Gap, mood : Moods,
     hp : 0..2, fuse : 0..1, primed : BOOLEAN, tame : BOOLEAN, sits : BOOLEAN, shoots : BOOLEAN,
     since : 0..Gap, close : BOOLEAN]

(* The cooldown still covers what is missing since the last attack.        *)
Spaced(m) == m \in Minds /\ m.since + m.cooldown >= Gap /\ ~m.close

LEMMA Bounds ==
    /\ Gap \in Nat \ {0} /\ Pause \in Nat \ {0} /\ OldAge \in Nat \ {0}
    /\ \A n \in Nat : Lower(n) \in 0..n
    /\ \A top \in Nat : \A n \in 0..top : Upper(n, top) \in 0..top
    /\ \A n \in 0..2 : Lower(n) \in 0..2
  BY MindsAssumption DEF Lower, Upper

(* What the branches put into a mob, one field at a time.                  *)
LEMMA Rested ==
    ASSUME NEW m, Spaced(m)
    PROVE  Spaced(Rests(m))
  <1>1. Pause \in 0..Pause
    BY Bounds
  <1> QED
    BY <1>1 DEF Spaced, Minds, Rests

LEMMA Moved ==
    ASSUME NEW m, Spaced(m), NEW mood \in Moods
    PROVE  Spaced(Moody(m, mood))
  BY DEF Spaced, Minds, Moody

LEMMA HealthMoved ==
    ASSUME NEW m, Spaced(m), NEW n \in 0..2
    PROVE  Spaced([m EXCEPT !.hp = n])
  BY DEF Spaced, Minds

LEMMA Struck ==
    ASSUME NEW m, Spaced(m), NEW shoots \in BOOLEAN, NEW n \in Strikes(m, shoots)
    PROVE  Spaced(n)
  <1>1. /\ m.cooldown = 0 /\ m.since \in 0..Gap /\ ~(m.since < Gap) /\ Gap \in 0..Gap /\ 0 \in 0..Gap
        /\ Gap \in Nat
    BY Bounds DEF Strikes, Spaced, Minds
  <1>2. n = [m EXCEPT !.cooldown = Gap, !.shoots = shoots, !.close = m.close \/ m.since < Gap, !.since = 0]
    BY <1>1 DEF Strikes
  <1>3. (m.close \/ m.since < Gap) = FALSE
    BY <1>1 DEF Spaced
  <1>4. n = [m EXCEPT !.cooldown = Gap, !.shoots = shoots, !.close = FALSE, !.since = 0]
    BY <1>2, <1>3
  <1>5. n \in Minds
    BY <1>1, <1>4 DEF Spaced, Minds
  <1>6. n.since = 0 /\ n.cooldown = Gap /\ n.close = FALSE
    BY <1>4 DEF Spaced, Minds
  <1> QED
    BY <1>1, <1>5, <1>6 DEF Spaced

LEMMA Tamer ==
    ASSUME NEW m, Spaced(m)
    PROVE  /\ \A shoots \in BOOLEAN : Spaced([m EXCEPT !.shoots = shoots])
           /\ \A fuse \in 0..1 : Spaced([m EXCEPT !.fuse = fuse])
  BY DEF Spaced, Minds

LEMMA Grown ==
    ASSUME NEW m, Spaced(m)
    PROVE  Spaced([m EXCEPT !.second = "gatherer", !.hp = 2])
  <1>1. "gatherer" \in Seconds
    BY DEF Seconds
  <1>2. m.since + m.cooldown >= Gap /\ ~m.close /\ m \in Minds /\ 2 \in 0..2
    BY DEF Spaced
  <1>3. [m EXCEPT !.second = "gatherer", !.hp = 2] \in Minds
    BY <1>1, <1>2 DEF Minds
  <1>4. /\ [m EXCEPT !.second = "gatherer", !.hp = 2].since = m.since
        /\ [m EXCEPT !.second = "gatherer", !.hp = 2].cooldown = m.cooldown
        /\ [m EXCEPT !.second = "gatherer", !.hp = 2].close = m.close
    BY <1>2 DEF Minds
  <1> QED
    BY <1>2, <1>3, <1>4 DEF Spaced

LEMMA Health2 ==
    ASSUME NEW m, Spaced(m)
    PROVE  /\ Lower(m.hp) \in 0..2 /\ Upper(m.hp, 2) \in 0..2 /\ Lower(m.fuse) \in 0..1
           /\ m.fuse \in 0..1 /\ m.mood \in Moods
  <1>1. m.hp \in 0..2 /\ m.fuse \in 0..1 /\ m.mood \in Moods
    BY DEF Spaced, Minds
  <1> QED
    BY <1>1 DEF Lower, Upper

LEMMA AgedOK ==
    ASSUME NEW m, Spaced(m)
    PROVE  Spaced(Aged(m))
  <1>1. /\ m.age \in 0..OldAge /\ m.cooldown \in 0..Gap /\ m.since \in 0..Gap
        /\ OldAge \in Nat /\ Gap \in Nat
    BY Bounds DEF Spaced, Minds
  <1>2. PICK age, cooldown, since : age = Upper(m.age, OldAge) /\ cooldown = Lower(m.cooldown) /\ since = Upper(m.since, Gap)
    OBVIOUS
  <1>3. age \in 0..OldAge /\ cooldown \in 0..Gap /\ since \in 0..Gap
    BY <1>1, <1>2 DEF Upper, Lower
  <1>4. since + cooldown >= Gap
    BY <1>1, <1>2 DEF Spaced, Upper, Lower
  <1>5. Aged(m) = [m EXCEPT !.age = age, !.cooldown = cooldown, !.since = since, !.shoots = FALSE]
    BY <1>2 DEF Aged
  <1>6. Aged(m) \in Minds
    BY <1>3, <1>5 DEF Spaced, Minds
  <1>7. Aged(m).since = since /\ Aged(m).cooldown = cooldown /\ Aged(m).close = m.close
    BY <1>5 DEF Spaced, Minds
  <1> QED
    BY <1>4, <1>6, <1>7 DEF Spaced

LEMMA RoamsOK ==
    ASSUME NEW m, Spaced(m), NEW sight, NEW n \in Roams(m, sight)
    PROVE  Spaced(n)
  <1>1. CASE n = m \/ n \in Walks(m) \/ n \in Swims(m)
    BY <1>1, Rested DEF Walks, Swims
  <1>2. CASE n \in Peddles(m, sight)
    <2>1. Spaced(Rests(m)) /\ 0 \in 0..2
      BY Rested
    <2>2. Spaced([Rests(m) EXCEPT !.hp = 0])
      BY <2>1, HealthMoved
    <2> QED
      BY <1>2, <2>1, <2>2 DEF Peddles
  <1>3. CASE n \in Ticks(m)
    <2>1. Rests(m).fuse = m.fuse
      BY DEF Rests, Spaced, Minds
    <2>2. n = [Rests(m) EXCEPT !.fuse = IF m.primed THEN Lower(m.fuse) ELSE m.fuse]
      BY <1>3, <2>1 DEF Ticks
    <2>3. (IF m.primed THEN Lower(m.fuse) ELSE m.fuse) \in 0..1
      BY Health2
    <2> QED
      BY <2>2, <2>3, Rested, Tamer
  <1>4. CASE n \in Bites(m)
    BY <1>4, Rested, Struck DEF Bites
  <1> QED
    BY <1>1, <1>2, <1>3, <1>4 DEF Roams

LEMMA RestsHp ==
    ASSUME NEW m, Spaced(m)
    PROVE  /\ Rests(m).hp = m.hp /\ Rests(m).shoots = m.shoots
           /\ Spaced([Rests(m) EXCEPT !.hp = Upper(@, 2)]) /\ Spaced([m EXCEPT !.hp = Lower(@)])
           /\ Spaced([Rests(m) EXCEPT !.shoots = TRUE])
  <1>1. Rests(m).hp = m.hp /\ Rests(m).shoots = m.shoots
    BY DEF Rests, Spaced, Minds
  <1>2. Spaced(Rests(m)) /\ Upper(m.hp, 2) \in 0..2 /\ Lower(m.hp) \in 0..2
    BY Rested, Health2
  <1>3. Spaced([Rests(m) EXCEPT !.hp = Upper(m.hp, 2)])
    BY <1>2, HealthMoved
  <1>4. Spaced([m EXCEPT !.hp = Lower(m.hp)])
    BY <1>2, HealthMoved
  <1>5. Spaced([Rests(m) EXCEPT !.shoots = TRUE])
    BY <1>2, Tamer
  <1> QED
    BY <1>1, <1>2, <1>3, <1>4, <1>5

LEMMA HuntsOK ==
    ASSUME NEW m, Spaced(m), NEW sight, NEW n \in Hunts(m, sight)
    PROVE  Spaced(n)
  <1>1. CASE n \in Lights(m, sight)
    BY <1>1, Moved, Rested DEF Lights, Moods
  <1>2. CASE n \in Shoots(m, sight)
    BY <1>2, Struck, Rested DEF Shoots
  <1>3. CASE n \in Charges(m)
    BY <1>3, Struck, Rested, Moved DEF Charges, Moods
  <1>4. CASE n \in Casts(m)
    BY <1>4, RestsHp DEF Casts
  <1>5. CASE n \in Slams(m)
    BY <1>5, Struck, Rested, Moved DEF Slams, Moods
  <1>6. CASE n \in Haunts(m)
    BY <1>6, Rested, RestsHp DEF Haunts
  <1>7. CASE n = m \/ n \in Chases(m)
    BY <1>7, Rested, Moved DEF Chases, Moods
  <1> QED
    BY <1>1, <1>2, <1>3, <1>4, <1>5, <1>6, <1>7 DEF Hunts

LEMMA DecidesOK ==
    ASSUME NEW m, Spaced(m), NEW sight, NEW n \in Decides(m, sight)
    PROVE  Spaced(n)
  <1>1. m.tame \in BOOLEAN /\ m.sits \in BOOLEAN
    BY DEF Spaced, Minds
  <1>2. n \in {Rests(m)} \/ n \in Roams(m, sight) \/ n = Looms(m) \/ n \in Hunts(m, sight)
    BY <1>1 DEF Decides, Heels
  <1> QED
    BY <1>2, Rested, RoamsOK, HuntsOK, RestsHp DEF Looms

LEMMA BehavesOK ==
    ASSUME NEW m, Spaced(m), NEW sight, NEW n \in Behaves(m, sight)
    PROVE  Spaced(n)
  <1>0. \A k \in Wanders(m) : Spaced(k)
    BY Moved DEF Wanders, Moods
  <1>1. CASE n = m \/ n \in Grazes(m) \/ n \in Dives(m) \/ n \in Naps(m)
    BY <1>0, <1>1, Moved DEF Grazes, Dives, Naps, Moods
  <1>2. CASE n \in Brawls(m, sight)
    <2>1. PICK s, mood : s \in Strikes(m, FALSE) /\ mood \in {"chases", m.mood} /\ n = Moody(s, mood)
      BY <1>2 DEF Brawls, Strikes
    <2>2. mood \in Moods
      BY <2>1, Health2 DEF Moods
    <2>3. Spaced(s)
      BY <2>1, Struck
    <2> QED
      BY <2>1, <2>2, <2>3, Moved
  <1>3. CASE n \in Lobs(m, sight)
    BY <1>3, Struck DEF Lobs
  <1>4. CASE n \in Guards(m, sight)
    BY <1>0, <1>4, Struck, RestsHp DEF Guards
  <1>5. CASE n \in Gathers(m)
    <2>1. PICK grown : grown = IF m.age = OldAge THEN [m EXCEPT !.second = "gatherer", !.hp = 2] ELSE m
      OBVIOUS
    <2>2. Spaced(grown)
      BY <2>1, Grown
    <2>3. n \in Wanders(m) \/ n \in {Moody(m, "idle"), grown, Moody(grown, "wanders")}
      BY <1>5, <2>1 DEF Gathers
    <2> QED
      BY <1>0, <2>2, <2>3, Moved DEF Moods
  <1> QED
    BY <1>1, <1>2, <1>3, <1>4, <1>5 DEF Behaves

MindsInv == DOMAIN mind = Minded /\ \A i \in Minded : Spaced(mind[i])

LEMMA OneMind ==
    ASSUME MindsInv, NEW i \in Minded, NEW n, Spaced(n), mind' = [mind EXCEPT ![i] = n]
    PROVE  MindsInv'
  BY DEF MindsInv

LEMMA MindsStart ==
    MindsInit => MindsInv
  <1> SUFFICES ASSUME MindsInit PROVE MindsInv
    OBVIOUS
  <1>1. PICK h \in [Minded -> Habits], tame \in BOOLEAN :
         mind = [i \in Minded |->
                   [first |-> h[i][1], second |-> h[i][2], age |-> 0, timer |-> 0, cooldown |-> 0, mood |-> "idle",
                    hp |-> 2, fuse |-> 1, primed |-> FALSE, tame |-> tame, sits |-> FALSE, shoots |-> FALSE,
                    since |-> Gap, close |-> FALSE]]
    BY DEF MindsInit
  <1>2. ASSUME NEW i \in Minded PROVE Spaced(mind[i])
    <2>1. h[i][1] \in Firsts /\ h[i][2] \in Seconds
      BY DEF Firsts, Seconds
    <2>2. Gap \in 0..Gap /\ 0 \in 0..Gap /\ 0 \in 0..Pause /\ 0 \in 0..OldAge /\ Gap \in Nat
      BY Bounds
    <2> QED
      BY <1>1, <2>1, <2>2 DEF Spaced, Minds, Moods
  <1> QED
    BY <1>1, <1>2 DEF MindsInv

LEMMA MindsKeep ==
    MindsInv /\ [MindsNext]_minds_vars => MindsInv'
  <1> SUFFICES ASSUME MindsInv, [MindsNext]_minds_vars PROVE MindsInv'
    OBVIOUS
  <1>1. ASSUME NEW i \in Minded, NEW sight \in Sights, Think(i, sight) PROVE MindsInv'
    <2>1. PICK m : m = Aged(mind[i])
      OBVIOUS
    <2>2. Spaced(m) /\ Lower(m.timer) \in 0..Pause
      <3>1. Spaced(m)
        BY <2>1, AgedOK DEF MindsInv
      <3>2. m.timer \in 0..Pause /\ Pause \in Nat
        BY <3>1, Bounds DEF Spaced, Minds
      <3> QED
        BY <3>1, <3>2 DEF Lower
    <2>3. PICK n \in (IF sight = "nobody" THEN {m}
                      ELSE IF m.timer > 0 THEN {[m EXCEPT !.timer = Lower(@)]}
                      ELSE Decides(m, sight)) : mind' = [mind EXCEPT ![i] = n]
      BY <1>1, <2>1 DEF Think
    <2>4. Spaced([m EXCEPT !.timer = Lower(m.timer)])
      BY <2>2 DEF Spaced, Minds
    <2>5. Spaced(n)
      BY <2>2, <2>3, <2>4, DecidesOK
    <2> QED
      BY <2>3, <2>5, OneMind
  <1>2. ASSUME NEW i \in Minded, NEW sight \in Sights, Behave(i, sight) PROVE MindsInv'
    <2>1. PICK m : m = [mind[i] EXCEPT !.shoots = FALSE]
      OBVIOUS
    <2>2. Spaced(m)
      BY <2>1, Tamer DEF MindsInv
    <2>3. PICK n \in Behaves(m, sight) : mind' = [mind EXCEPT ![i] = n]
      BY <1>2, <2>1 DEF Behave
    <2> QED
      BY <2>2, <2>3, BehavesOK, OneMind
  <1>3. ASSUME NEW i \in Minded, LookForPrey(i) PROVE MindsInv'
    <2>1. mind' = mind \/ mind' = [mind EXCEPT ![i] = Moody(mind[i], "wanders")]
      BY <1>3 DEF LookForPrey
    <2>2. Spaced(Moody(mind[i], "wanders"))
      BY Moved DEF MindsInv, Moods
    <2> QED
      BY <2>1, <2>2, OneMind DEF MindsInv
  <1>4. ASSUME NEW i \in Minded, Sit(i) PROVE MindsInv'
    <2>1. mind[i].sits \in BOOLEAN /\ Spaced(mind[i])
      BY DEF MindsInv, Spaced, Minds
    <2>2. Spaced([mind[i] EXCEPT !.sits = ~mind[i].sits])
      <3>1. (~mind[i].sits) \in BOOLEAN
        BY <2>1
      <3> QED
        BY <2>1, <3>1 DEF Spaced, Minds
    <2>3. mind' = [mind EXCEPT ![i] = [mind[i] EXCEPT !.sits = ~mind[i].sits]]
      BY <1>4 DEF Sit
    <2> QED
      BY <2>2, <2>3, OneMind
  <1>5. CASE mind' = mind
    BY <1>5 DEF MindsInv
  <1>6. ASSUME \/ BeginTick \/ NextPass \/ Fly \/ UNCHANGED minds_vars
               \/ \E kind \in {"arrow", "trident"}, loyal \in BOOLEAN : Launch(kind, loyal)
        PROVE  mind' = mind
    BY <1>6 DEF BeginTick, NextPass, Fly, Launch, minds_vars
  <1> QED
    BY <1>1, <1>2, <1>3, <1>4, <1>5, <1>6 DEF MindsNext

(* Whatever habits the two passes read out of a mob's number, a mob whose  *)
(* attacks have a cooldown attacks once in that many ticks (mob.rs,        *)
(* attack_cooldown): both passes start the cooldown wherever they strike.  *)
THEOREM StrikesKeepApart == MindsSpec => []StrikesSpaced
  <1>1. MindsInv => StrikesSpaced
    BY DEF MindsInv, Spaced, StrikesSpaced
  <1> QED
    BY <1>1, MindsStart, MindsKeep, PTL DEF MindsSpec

-----------------------------------------------------------------------------
(* Commands: answers name whom they reached                                *)

Answering == Stopping \cup Counting

(* While one of these commands walks through its targets, it has counted   *)
(* exactly the players whose entry took the change.                        *)
DeskCounts ==
    /\ DOMAIN desk = {"by", "kind", "sel", "sources", "src", "left", "copy", "named", "reached"}
    /\ desk.kind \in Answering => desk.named = desk.reached
AnswerInv == DeskCounts /\ AnswersTrue

LEMMA KindsApart ==
    /\ Answering \cap Assuming = {}
    /\ "none" \notin Answering /\ "stuck" \notin Answering
    /\ Answering \cap Copying \subseteq Unnamed
  BY DEF Answering, Stopping, Counting, Assuming, Copying, Unnamed

LEMMA NothingSaid ==
    ASSUME NEW kind, NEW ok \in BOOLEAN, said' = [NoAnswer EXCEPT !.kind = kind, !.ok = ok]
    PROVE  AnswersTrue'
  BY DEF NoAnswer, AnswersTrue

LEMMA SaidNothing ==
    said' = NoAnswer => AnswersTrue'
  BY KindsApart DEF NoAnswer, AnswersTrue, Answering

LEMMA SaidAsBefore ==
    AnswersTrue /\ said' = said => AnswersTrue'
  BY DEF AnswersTrue

LEMMA AnswerKeeps ==
    ASSUME AnswerInv, NEW ok \in BOOLEAN, Answer(ok)
    PROVE  AnswerInv'
  <1>1. /\ said'.kind = desk.kind /\ said'.ok = ok /\ said'.reached = desk.reached
        /\ said'.named = IF ok THEN desk.named ELSE {}
    BY DEF Answer
  <1>2. AnswersTrue'
    BY <1>1 DEF AnswerInv, DeskCounts, AnswersTrue, Answering
  <1>3. DeskCounts'
    BY DEF Answer, DeskCounts, Desk0
  <1> QED
    BY <1>2, <1>3 DEF AnswerInv

LEMMA ReadKeeps ==
    ASSUME AnswerInv, ReadTarget
    PROVE  AnswerInv'
  <1>1. PICK rest, copy, named :
            /\ desk' = [desk EXCEPT !.copy = copy] \/ desk' = [desk EXCEPT !.left = rest, !.named = named]
            /\ desk.kind \in Unnamed => named = desk.named
    <2>1. CASE \E r : desk' = [desk EXCEPT !.copy = <<folk[r]>>]
      BY <2>1
    <2>2. CASE \E t : desk' = [desk EXCEPT !.left = Tail(@), !.named = IF desk.kind \in Unnamed THEN @ ELSE @ \cup {t}]
      BY <2>2
    <2> QED
      BY <2>1, <2>2 DEF ReadTarget
  <1>2. desk.kind \in Answering => desk.kind \in Unnamed
    BY KindsApart DEF ReadTarget
  <1>3. DeskCounts'
    BY <1>1, <1>2 DEF AnswerInv, DeskCounts
  <1> QED
    BY <1>3, SaidAsBefore DEF AnswerInv, ReadTarget

LEMMA ChangeKeeps ==
    ASSUME AnswerInv, ChangeTarget
    PROVE  AnswerInv'
  <1>1. PICK t : t = TargetOf
    OBVIOUS
  <1>2. CASE t \in DOMAIN folk
    <2>1. PICK rest, more : /\ said' = said
                            /\ desk' = [desk EXCEPT !.left = rest, !.copy = <<>>,
                                          !.named = @ \cup more, !.reached = @ \cup more]
      <3>1. CASE Takes(desk.kind, folk[t])
        BY <1>1, <1>2, <3>1 DEF ChangeTarget
      <3>2. CASE ~Takes(desk.kind, folk[t])
        <4>1. desk' = [desk EXCEPT !.left = Tail(@), !.copy = <<>>, !.named = @ \cup {}, !.reached = @ \cup {}]
          BY <1>1, <1>2, <3>2 DEF ChangeTarget
        <4> QED
          BY <1>1, <1>2, <4>1 DEF ChangeTarget
      <3> QED
        BY <3>1, <3>2
    <2>2. DeskCounts'
      BY <2>1 DEF AnswerInv, DeskCounts
    <2> QED
      BY <2>1, <2>2, SaidAsBefore DEF AnswerInv
  <1>3. CASE t \notin DOMAIN folk
    <2>1. Missed(t)
      BY <1>1, <1>3 DEF ChangeTarget
    <2>2. CASE desk.kind \in Stopping
      BY <2>1, <2>2, AnswerKeeps DEF Missed
    <2>3. CASE desk.kind \notin Stopping
      <3>1. PICK rest, named : /\ said' = said /\ desk' = [desk EXCEPT !.left = rest, !.copy = <<>>, !.named = named]
                               /\ desk.kind \notin Assuming => named = desk.named
        BY <2>1, <2>3 DEF Missed
      <3>2. DeskCounts'
        BY <3>1, KindsApart DEF AnswerInv, DeskCounts
      <3> QED
        BY <3>1, <3>2, SaidAsBefore DEF AnswerInv
    <2> QED
      BY <2>2, <2>3
  <1> QED
    BY <1>2, <1>3

LEMMA DeskKeeps ==
    ASSUME AnswerInv, BeginRun \/ Unlock \/ \E q \in Callers, c \in Typed : Dispatch(q, c[1], c[2], c[3])
    PROVE  AnswerInv'
  <1>1. CASE BeginRun
    <2>1. PICK src, rest, left :
            \/ /\ said' = [NoAnswer EXCEPT !.kind = desk.kind, !.ok = FALSE]
               /\ desk' = [desk EXCEPT !.sources = rest]
            \/ /\ desk' = [desk EXCEPT !.sources = rest, !.src = src, !.left = left]
               /\ said' = said
      BY <1>1 DEF BeginRun
    <2>2. DeskCounts'
      BY <2>1 DEF AnswerInv, DeskCounts
    <2> QED
      BY <2>1, <2>2, NothingSaid, SaidAsBefore DEF AnswerInv
  <1>2. CASE Unlock
    BY <1>2, SaidAsBefore, KindsApart DEF Unlock, AnswerInv, DeskCounts, Desk0
  <1>3. ASSUME NEW q \in Callers, NEW c \in Typed, Dispatch(q, c[1], c[2], c[3]) PROVE AnswerInv'
    <2>1. PICK sources :
            /\ desk' = [Desk0 EXCEPT !.by = q, !.kind = c[1], !.sel = c[2], !.sources = sources]
            /\ \/ said' = [NoAnswer EXCEPT !.kind = c[1], !.ok = FALSE]
               \/ said' = NoAnswer
      BY <1>3 DEF Dispatch
    <2>2. DeskCounts'
      BY <2>1 DEF DeskCounts, Desk0
    <2> QED
      BY <2>1, <2>2, NothingSaid, SaidNothing DEF AnswerInv
  <1> QED
    BY <1>1, <1>2, <1>3

(* Commands of one step, the remote console, and players meanwhile.        *)
LEMMA OthersKeep ==
    ASSUME AnswerInv,
           \/ \E q \in Callers :
                \/ \E p \in Subjects : BanIp(q, p) \/ PardonIp(q, p)
                \/ \E action \in {"add", "remove", "on", "off"}, p \in Subjects : Whitelist(q, action, p)
                \/ \E C \in SUBSET Plots : Fill(q, C)
                \/ \E c, d \in Plots : Clone(q, c, d)
                \/ \E kind \in Reports \cup DisplayOnly \cup NoManager : Report(q, kind)
                \/ SaveAll(q)
           \/ \E right \in BOOLEAN : Authenticate(right)
           \/ HangUp
           \/ \E p \in Subjects : Depart(p) \/ ComeIn(p) \/ HurtMeanwhile(p)
    PROVE  AnswerInv'
  <1>1. ASSUME desk' = desk PROVE DeskCounts'
    BY <1>1 DEF AnswerInv, DeskCounts
  <1>2. ASSUME desk' = desk, said' = said PROVE AnswerInv'
    BY <1>1, <1>2, SaidAsBefore DEF AnswerInv
  <1>3. ASSUME NEW kind, NEW ok \in BOOLEAN, desk' = desk, Says(kind, ok) PROVE AnswerInv'
    BY <1>1, <1>3, NothingSaid DEF AnswerInv, Says
  <1>4. ASSUME NEW q \in Callers, NEW c \in Plots, NEW d \in Plots, Clone(q, c, d) PROVE AnswerInv'
    <2>1. CASE HasStore(q) /\ {c, d} \subseteq DOMAIN plots
      <3>1. desk' = [Desk0 EXCEPT !.by = q, !.kind = "stuck"] /\ said' = said
        BY <1>4, <2>1 DEF Clone
      <3>2. DeskCounts'
        BY <3>1, KindsApart DEF DeskCounts, Desk0
      <3> QED
        BY <3>1, <3>2, SaidAsBefore DEF AnswerInv
    <2>2. CASE ~(HasStore(q) /\ {c, d} \subseteq DOMAIN plots)
      <3>1. HasStore(q) \in BOOLEAN
        BY DEF HasStore
      <3>2. desk' = desk /\ Says("clone", HasStore(q))
        BY <1>4, <2>2 DEF Clone
      <3> QED
        BY <1>3, <3>1, <3>2
    <2> QED
      BY <2>1, <2>2
  <1>5. ASSUME NEW q \in Callers, NEW p \in Subjects, BanIp(q, p) PROVE AnswerInv'
    BY <1>3, <1>5 DEF BanIp
  <1>6. ASSUME NEW q \in Callers, NEW p \in Subjects, PardonIp(q, p) PROVE AnswerInv'
    <2>1. CASE p \in lists.banned
      <3>1. desk' = desk /\ Says("pardon-ip", TRUE)
        BY <1>6, <2>1 DEF PardonIp
      <3> QED
        BY <1>3, <3>1
    <2>2. CASE ~(p \in lists.banned)
      <3>0. (p \in lists.banned) = FALSE
        BY <2>2
      <3>1. desk' = desk /\ Says("pardon-ip", FALSE)
        BY <1>6, <3>0 DEF PardonIp
      <3> QED
        BY <1>3, <3>1
    <2> QED
      BY <2>1, <2>2
  <1>7. ASSUME NEW q \in Callers, NEW a, NEW p \in Subjects, Whitelist(q, a, p) PROVE AnswerInv'
    BY <1>3, <1>7 DEF Whitelist
  <1>8. ASSUME NEW q \in Callers, NEW C, Fill(q, C) PROVE AnswerInv'
    <2>1. HasStore(q) \in BOOLEAN
      BY DEF HasStore
    <2>2. desk' = desk /\ Says("fill", HasStore(q))
      BY <1>8 DEF Fill
    <2> QED
      BY <1>3, <2>1, <2>2
  <1>9. ASSUME NEW q \in Callers, NEW kind, Report(q, kind) PROVE AnswerInv'
    BY <1>3, <1>9 DEF Report
  <1>10. ASSUME NEW q \in Callers, SaveAll(q) PROVE AnswerInv'
    <2>1. HasStore(q) \in BOOLEAN
      BY DEF HasStore
    <2>2. desk' = desk /\ Says("save-all", HasStore(q))
      BY <1>10 DEF SaveAll
    <2> QED
      BY <1>3, <2>1, <2>2
  <1>11. ASSUME \/ \E right \in BOOLEAN : Authenticate(right)
                \/ HangUp
                \/ \E p \in Subjects : Depart(p) \/ ComeIn(p) \/ HurtMeanwhile(p)
         PROVE  AnswerInv'
    BY <1>2, <1>11 DEF Authenticate, HangUp, Depart, ComeIn, HurtMeanwhile
  <1> QED
    BY <1>4, <1>5, <1>6, <1>7, <1>8, <1>9, <1>10, <1>11

LEMMA CommandsKeep ==
    AnswerInv /\ [CommandsNext]_commands_vars => AnswerInv'
  <1> SUFFICES ASSUME AnswerInv, [CommandsNext]_commands_vars PROVE AnswerInv'
    OBVIOUS
  <1>1. CASE EndRun
    BY <1>1, AnswerKeeps DEF EndRun
  <1>2. CASE UNCHANGED commands_vars
    BY <1>2, SaidAsBefore DEF commands_vars, AnswerInv, DeskCounts
  <1> QED
    BY <1>1, <1>2, ReadKeeps, ChangeKeeps, DeskKeeps, OthersKeep DEF CommandsNext

(* The answer of a command that stops at an error, or that counts, names   *)
(* the players whose entry took the change, whoever left or came while it  *)
(* walked through its targets (commands.rs).                               *)
THEOREM AnswersHold == CommandsSpec => []AnswersTrue
  <1>1. CommandsInit => AnswerInv
    BY KindsApart DEF CommandsInit, AnswerInv, DeskCounts, AnswersTrue, Answering, Desk0, NoAnswer
  <1>2. AnswerInv => AnswersTrue
    BY DEF AnswerInv
  <1> QED
    BY <1>1, <1>2, CommandsKeep, PTL DEF CommandsSpec

-----------------------------------------------------------------------------
(* World: the inductive invariant                                          *)

PulseStages ==
    {"wait", "time", "sky", "tellSky", "strike", "harm", "hung", "portals", "switch", "tellDim", "border", "push"}
Crossings == Seq(Roamers \X Dims)
CopiesOf == Seq(Roamers \X Grounds \X (0..Full))
PulseType == [at : PulseStages, n : 0..(Second - 1), sky : Skies, todo : Crossings \cup CopiesOf,
              bound : BOOLEAN, holds : SUBSET Roamers]
PulseOK ==
    /\ pulse \in PulseType /\ pulse.holds \subseteq Here
    /\ pulse.at \in {"switch", "tellDim"} => pulse.todo \in Crossings
    /\ pulse.at = "tellDim" => pulse.todo # <<>>
    /\ pulse.at = "push" => pulse.todo \in CopiesOf

WorldType == [time : 0..(Day - 1), daytime : 0..(Day - 1), sky : Skies, timer : 0..LongestSky,
              rules : SUBSET Rules, frozen : BOOLEAN, narrow : BOOLEAN]
Entry == [spot : Grounds, dim : Dims, hp : 0..Full, valid : Grounds, suspected : 0..(TrustLimit - 1)]
Letter == [what : {"sky"}, now : Skies, who : {"all"}] \cup [what : {"dim"}, now : Dims, who : Roamers]
Shows == [sky : Skies, dim : Dims]
PlayersOK ==
    /\ world \in WorldType /\ wsteps \in 0..WorldSteps
    /\ Here \subseteq Roamers /\ roamers \in [Here -> Entry]
    /\ hands \in [Here -> {"idle", "atPortal"} \cup Dims]
    /\ views \in [Here -> Shows] /\ forgiven \in [Here -> SUBSET {"sky", "dim"}]
    /\ mail \in [Here -> Seq(Letter)] /\ \A p \in Here : Len(mail[p]) <= MailCap

Tells(e, p, what) == e.what = what /\ MeantFor(p, e)

(* A client that shows `shows` and handles the mail q shows v in the end.  *)
EndsWith(q, p, what, shows, v) ==
    /\ \A i \in 1..Len(q) :
        Tells(q[i], p, what) /\ (\A j \in (i + 1)..Len(q) : ~Tells(q[j], p, what)) => q[i].now = v
    /\ (\A i \in 1..Len(q) : ~Tells(q[i], p, what)) => shows = v

SkyOK ==
    \A p \in Here : "sky" \in forgiven[p] \/
        IF pulse.at = "tellSky" THEN pulse.sky = world.sky
        ELSE EndsWith(mail[p], p, "sky", views[p].sky, world.sky)
DimOK ==
    \A p \in Here : "dim" \in forgiven[p] \/
        IF Untold(p) THEN roamers[p].dim = pulse.todo[1][2]
        ELSE EndsWith(mail[p], p, "dim", views[p].dim, roamers[p].dim)

WorldInv == PulseOK /\ PlayersOK /\ SkyOK /\ DimOK

LEMMA WorldNumbers ==
    /\ Day \in Nat \ {0} /\ Second \in Nat \ {0} /\ TrustLimit \in Nat \ {0} /\ LongestSky \in Nat \ {0}
    /\ MailCap \in Nat \ {0} /\ WorldSteps \in Nat
  BY WorldAssumption

(* A set of players' things can be put in some order.                      *)
LEMMA Ordered ==
    ASSUME NEW S, IsFiniteSet(S)
    PROVE  SetToSeq(S) \in Seq(S)
  <1>1. Cardinality(S) \in Nat
    BY FS_CardinalityType
  <1>2. PICK f \in [1..Cardinality(S) -> S] : \A a, b \in DOMAIN f : f[a] = f[b] => a = b
    BY FS_NatBijection, FS_CardinalityType DEF ExistsBijection, Bijection, Injection, IsInjective
  <1>3. IsInjective(f)
    BY <1>2 DEF IsInjective
  <1>4. SetToSeq(S) \in [1..Cardinality(S) -> S]
    BY <1>2, <1>3 DEF SetToSeq
  <1> QED
    BY <1>1, <1>4

LEMMA OrderedIn ==
    ASSUME NEW S, IsFiniteSet(S), NEW T, S \subseteq T
    PROVE  SetToSeq(S) \in Seq(T)
  <1>1. PICK s \in Seq(S) : s = SetToSeq(S)
    BY Ordered
  <1>2. s \in Seq(T)
    BY <1>1
  <1> QED
    BY <1>1, <1>2

LEMMA TailIn ==
    ASSUME NEW S, NEW q \in Seq(S), q # <<>>
    PROVE  /\ Tail(q) \in Seq(S) /\ q[1] \in S /\ 1 \in 1..Len(q)
           /\ Len(Tail(q)) = Len(q) - 1 /\ Len(q) \in Nat \ {0}
           /\ \A i \in 1..(Len(q) - 1) : Tail(q)[i] = q[i + 1]
  OBVIOUS

LEMMA AppendIn ==
    ASSUME NEW S, NEW q \in Seq(S), NEW e \in S
    PROVE  /\ Append(q, e) \in Seq(S) /\ Len(Append(q, e)) = Len(q) + 1 /\ Len(q) \in Nat
           /\ Append(q, e)[Len(q) + 1] = e /\ Append(q, e) # <<>>
           /\ \A i \in 1..Len(q) : Append(q, e)[i] = q[i]
  OBVIOUS

(* One entry written, or every entry.                                      *)
LEMMA EntryWritten ==
    ASSUME PlayersOK, NEW p \in Here, NEW e \in Entry, Set(p, e)
    PROVE  Here' = Here /\ roamers' \in [Here -> Entry]
  BY DEF PlayersOK, Set, Here

LEMMA EntryFields ==
    ASSUME PlayersOK, NEW p \in Here
    PROVE  /\ roamers[p] \in Entry /\ p \in Roamers
           /\ roamers[p].spot \in Grounds /\ roamers[p].dim \in Dims /\ roamers[p].hp \in 0..Full
           /\ roamers[p].valid \in Grounds /\ roamers[p].suspected \in 0..(TrustLimit - 1)
           /\ views[p] \in Shows /\ hands[p] \in {"idle", "atPortal"} \cup Dims
           /\ forgiven[p] \subseteq {"sky", "dim"}
           /\ mail[p] \in Seq(Letter) /\ Len(mail[p]) \in 0..MailCap
  BY DEF PlayersOK, Entry

LEMMA PulseFields ==
    ASSUME PulseOK
    PROVE  /\ pulse \in PulseType /\ pulse.at \in PulseStages /\ pulse.n \in 0..(Second - 1) /\ pulse.sky \in Skies
           /\ pulse.todo \in Crossings \cup CopiesOf /\ pulse.bound \in BOOLEAN /\ pulse.holds \subseteq Here
  BY DEF PulseOK, PulseType

LEMMA Wounds ==
    ASSUME NEW e \in Entry
    PROVE  Wounded(e, 1) \in Entry /\ Wounded(e, 1).dim = e.dim
  BY DEF Wounded, Entry, Full

LEMMA Validation ==
    ASSUME NEW e \in Entry, NEW to \in Grounds, NEW how \in {"within", "withinCalm", "above", "beyond"}
    PROVE  Validated(e, to, how) \in Entry /\ Validated(e, to, how).dim = e.dim
  <1>1. CASE how \in {"within", "withinCalm"}
    <2>1. Validated(e, to, how) = [e EXCEPT !.spot = to, !.valid = to,
                                      !.suspected = IF how = "withinCalm" /\ @ > 0 THEN @ - 1 ELSE @]
      BY <1>1 DEF Validated
    <2>2. \A n \in 0..(TrustLimit - 1) : (IF how = "withinCalm" /\ n > 0 THEN n - 1 ELSE n) \in 0..(TrustLimit - 1)
      BY WorldNumbers
    <2> QED
      BY <2>1, <2>2 DEF Entry
  <1>2. CASE how = "above"
    BY <1>2 DEF Validated, Entry
  <1>3. CASE how = "beyond" /\ e.suspected + 1 >= TrustLimit
    <2>1. Validated(e, to, how) = [e EXCEPT !.spot = e.valid, !.suspected = 0]
      BY <1>3 DEF Validated
    <2>2. 0 \in 0..(TrustLimit - 1)
      BY WorldNumbers
    <2> QED
      BY <2>1, <2>2 DEF Entry
  <1>4. CASE how = "beyond" /\ ~(e.suspected + 1 >= TrustLimit)
    <2>1. Validated(e, to, how) = [e EXCEPT !.suspected = @ + 1]
      BY <1>4 DEF Validated
    <2>2. e.suspected + 1 \in 0..(TrustLimit - 1)
      BY <1>4, WorldNumbers DEF Entry
    <2> QED
      BY <2>1, <2>2 DEF Entry
  <1> QED
    BY <1>1, <1>2, <1>3, <1>4

LEMMA LaterIs ==
    ASSUME NEW w \in WorldType, NEW ticks \in Nat
    PROVE  Later(w, ticks) \in WorldType /\ Later(w, ticks).sky = w.sky
  <1>1. (w.time + ticks) % Day \in 0..(Day - 1)
    BY WorldNumbers DEF WorldType
  <1> QED
    BY <1>1 DEF Later, WorldType

(* What a step leaves of an event sent to everybody's receiver.            *)
LEMMA SentTypes ==
    ASSUME PlayersOK, NEW e \in Letter, Sent(e)
    PROVE  /\ mail' \in [Here -> Seq(Letter)] /\ \A p \in Here : Len(mail'[p]) <= MailCap
           /\ forgiven' \in [Here -> SUBSET {"sky", "dim"}]
  <1>1. ASSUME NEW p \in Here
        PROVE  /\ Post(e)[p] \in Seq(Letter) /\ Len(Post(e)[p]) <= MailCap
               /\ Missing(p) \subseteq {"sky", "dim"}
    <2> DEFINE q == Append(mail[p], e)
    <2>1. /\ mail[p] \in Seq(Letter) /\ Len(mail[p]) \in 0..MailCap /\ DOMAIN mail = Here
      BY EntryFields DEF PlayersOK
    <2>2. q \in Seq(Letter) /\ Len(q) = Len(mail[p]) + 1 /\ q # <<>>
      BY <2>1, AppendIn
    <2>3. Tail(q) \in Seq(Letter) /\ Len(Tail(q)) = Len(mail[p])
      <3> HIDE DEF q
      <3> QED
        BY <2>1, <2>2, TailIn
    <2>4. Post(e)[p] = IF Len(q) > MailCap THEN Tail(q) ELSE q
      BY <2>1 DEF Post
    <2>5. Post(e)[p] \in Seq(Letter) /\ Len(Post(e)[p]) <= MailCap
      <3> HIDE DEF q
      <3> QED
        BY <2>1, <2>2, <2>3, <2>4, WorldNumbers
    <2>6. Len(mail[p]) = MailCap => mail[p][1] \in Letter
      BY <2>1, WorldNumbers
    <2>7. Missing(p) \subseteq {"sky", "dim"}
      BY <2>6 DEF Missing, Letter
    <2> QED
      BY <2>5, <2>7
  <1>2. mail' = [p \in Here |-> Post(e)[p]]
    BY DEF Sent, Post, PlayersOK
  <1>3. forgiven' = [p \in Here |-> forgiven[p] \cup Missing(p)]
    BY DEF Sent, PlayersOK
  <1>4. \A p \in Here : forgiven[p] \subseteq {"sky", "dim"}
    BY EntryFields
  <1> QED
    BY <1>1, <1>2, <1>3, <1>4

(* A pulse with another stage.                                             *)
LEMMA StageType ==
    ASSUME PulseOK, NEW at \in PulseStages, Loop(at)
    PROVE  /\ pulse' \in PulseType /\ pulse'.at = at /\ pulse'.n = pulse.n /\ pulse'.sky = pulse.sky
           /\ pulse'.todo = pulse.todo /\ pulse'.holds = pulse.holds /\ pulse'.bound = pulse.bound
  BY DEF PulseOK, PulseType, Loop

LEMMA LoopStaysTyped ==
    ASSUME PulseOK, PlayersOK,
           \/ ReadControl \/ AddTime \/ TickWeather \/ TellWeather \/ Strike \/ TickEnvironmentalDamage
    PROVE  PulseOK' /\ PlayersOK'
  <1>1. CASE ReadControl
    <2>1. (pulse.n + 1) % Second \in 0..(Second - 1)
      BY PulseFields, WorldNumbers
    <2>2. PulseOK'
      BY <1>1, <2>1 DEF ReadControl, PulseOK, PulseType, PulseStages, Here
    <2> QED
      BY <1>1, <2>2 DEF ReadControl, PlayersOK, Here
  <1>2. CASE AddTime
    <2>1. world' \in WorldType
      BY <1>2, LaterIs DEF AddTime, PlayersOK
    <2>2. PICK at \in {"sky", "wait"} : Loop(at)
      BY <1>2 DEF AddTime
    <2>3. PulseOK'
      BY <1>2, <2>2, StageType DEF AddTime, PulseOK, Here, PulseStages
    <2> QED
      BY <1>2, <2>1, <2>3 DEF AddTime, PlayersOK, Here
  <1>3. CASE TickWeather
    <2> DEFINE w == CountedDown(world)
    <2>1. world \in WorldType /\ world.sky \in Skies /\ NextSky[world.sky] \in Skies
      BY DEF PlayersOK, WorldType, Skies, NextSky
    <2>2. w \in WorldType
      BY <2>1, WorldNumbers DEF CountedDown, WorldType
    <2>3. \A t \in 1..LongestSky : [w EXCEPT !.sky = NextSky[@], !.timer = t] \in WorldType
      <3>1. w.sky = world.sky
        BY <2>1 DEF CountedDown, WorldType
      <3>2. NextSky[w.sky] \in Skies /\ \A t \in 1..LongestSky : t \in 0..LongestSky
        BY <2>1, <3>1, WorldNumbers
      <3> HIDE DEF w
      <3> QED
        BY <2>2, <3>2 DEF WorldType
    <2>4. world' \in WorldType
      <3> HIDE DEF w
      <3>1. \/ \E t \in 1..LongestSky : world' = [w EXCEPT !.sky = NextSky[@], !.timer = t]
            \/ world' = w \/ world' = world
        BY <1>3 DEF TickWeather, w
      <3> QED
        BY <3>1, <2>1, <2>2, <2>3
    <2>5. PICK at \in {"tellSky", "strike"}, sky \in Skies : pulse' = [pulse EXCEPT !.at = at, !.sky = sky]
      BY <1>3, <2>1 DEF TickWeather
    <2>6. PulseOK'
      BY <1>3, <2>5 DEF TickWeather, PulseOK, PulseType, PulseStages, Here
    <2>7. forgiven' \in [Here -> SUBSET {"sky", "dim"}]
      <3>1. \A p \in Here : forgiven[p] \subseteq {"sky", "dim"} /\ forgiven[p] \ {"sky"} \subseteq {"sky", "dim"}
        BY EntryFields
      <3>2. CASE forgiven' = Forgive("sky")
        BY <3>1, <3>2 DEF Forgive, PlayersOK
      <3>3. CASE UNCHANGED forgiven
        BY <3>3 DEF PlayersOK
      <3> QED
        BY <1>3, <3>2, <3>3 DEF TickWeather
    <2> QED
      BY <1>3, <2>4, <2>6, <2>7 DEF TickWeather, PlayersOK, Here
  <1>4. CASE TellWeather
    <2>1. SkyEvent(pulse.sky) \in Letter
      BY PulseFields DEF SkyEvent, Letter
    <2>2. PulseOK'
      BY <1>4, StageType DEF TellWeather, PulseOK, Here, PulseStages
    <2>3. Sent(SkyEvent(pulse.sky))
      BY <1>4 DEF TellWeather
    <2> QED
      BY <1>4, <2>1, <2>2, <2>3, SentTypes DEF TellWeather, PlayersOK, Here
  <1>5. CASE Strike
    <2>1. CASE Loop("harm") /\ UNCHANGED roamers
      <3>1. PulseOK'
        BY <2>1, StageType DEF PulseOK, Here, PulseStages
      <3> QED
        BY <1>5, <2>1, <3>1 DEF Strike, PlayersOK, Here
    <2>2. CASE \E p \in Here : /\ Set(p, Wounded(roamers[p], 1))
                               /\ pulse' = [pulse EXCEPT !.at = "hung", !.holds = {p}]
      <3>1. PICK p \in Here : /\ Set(p, Wounded(roamers[p], 1))
                              /\ pulse' = [pulse EXCEPT !.at = "hung", !.holds = {p}]
        BY <2>2
      <3>2. Here' = Here /\ roamers' \in [Here -> Entry]
        BY <3>1, Wounds, EntryFields, EntryWritten
      <3>3. PulseOK'
        <4>1. p \in Roamers /\ {p} \subseteq Here
          BY EntryFields
        <4>2. pulse' \in PulseType
          BY <3>1, <4>1, PulseFields DEF PulseType, PulseStages
        <4>3. pulse'.at = "hung" /\ pulse'.holds = {p}
          BY <3>1, PulseFields DEF PulseType
        <4> QED
          BY <3>2, <4>1, <4>2, <4>3 DEF PulseOK
      <3> QED
        BY <1>5, <3>2, <3>3 DEF Strike, PlayersOK
    <2> QED
      BY <1>5, <2>1, <2>2 DEF Strike
  <1>6. CASE TickEnvironmentalDamage
    <2>1. PICK S \in SUBSET Here : \/ roamers' = [p \in Here |-> IF p \in S THEN Wounded(roamers[p], 1) ELSE roamers[p]]
                                   \/ UNCHANGED roamers
      BY <1>6 DEF TickEnvironmentalDamage
    <2>2. roamers' \in [Here -> Entry] /\ Here' = Here
      <3>1. \A p \in Here : Wounded(roamers[p], 1) \in Entry /\ roamers[p] \in Entry
        BY EntryFields, Wounds
      <3> QED
        BY <2>1, <3>1 DEF Here, PlayersOK
    <2>3. PICK at \in {"portals", "hung"} : Loop(at)
      BY <1>6 DEF TickEnvironmentalDamage, Loop
    <2>4. PulseOK'
      BY <2>2, <2>3, StageType DEF PulseOK, PulseStages
    <2> QED
      BY <1>6, <2>2, <2>4 DEF TickEnvironmentalDamage, PlayersOK
  <1> QED
    BY <1>1, <1>2, <1>3, <1>4, <1>5, <1>6

LEMMA CrossersOrdered ==
    ASSUME PlayersOK
    PROVE  /\ SetToSeq({<<p, Across(roamers[p].dim)>> : p \in InPortals}) \in Crossings
           /\ \A S \in SUBSET Here : Copies(S) \in CopiesOf
  <1>1. IsFiniteSet(Here)
    BY FS_Subset, WorldAssumption DEF PlayersOK
  <1>2. \A S \in SUBSET Here : IsFiniteSet(S)
    BY <1>1, FS_Subset
  <1>3. SetToSeq({<<p, Across(roamers[p].dim)>> : p \in InPortals}) \in Crossings
    <2> DEFINE T == {<<p, Across(roamers[p].dim)>> : p \in InPortals}
    <2>1. IsFiniteSet(InPortals) /\ InPortals \subseteq Here
      BY <1>2 DEF InPortals
    <2>2. IsFiniteSet(T)
      <3> DEFINE f == [p \in InPortals |-> <<p, Across(roamers[p].dim)>>]
      <3>1. f \in Surjection(InPortals, T)
        BY DEF Surjection
      <3> QED
        BY <2>1, <3>1, FS_Surjection DEF ExistsSurjection
    <2>3. T \subseteq Roamers \X Dims
      BY <2>1, EntryFields DEF Across, Dims
    <2> HIDE DEF T
    <2>4. SetToSeq(T) \in Seq(Roamers \X Dims)
      BY <2>2, <2>3, OrderedIn
    <2> QED
      BY <2>4 DEF T, Crossings
  <1>4. ASSUME NEW S \in SUBSET Here
        PROVE  Copies(S) \in CopiesOf
    <2> DEFINE T == {<<p, roamers[p].spot, roamers[p].hp>> : p \in S}
    <2>1. IsFiniteSet(T)
      <3> DEFINE f == [p \in S |-> <<p, roamers[p].spot, roamers[p].hp>>]
      <3>1. f \in Surjection(S, T)
        BY DEF Surjection
      <3> QED
        BY <1>2, <3>1, FS_Surjection DEF ExistsSurjection
    <2>2. T \subseteq Roamers \X Grounds \X (0..Full)
      BY EntryFields
    <2> HIDE DEF T
    <2>3. SetToSeq(T) \in Seq(Roamers \X Grounds \X (0..Full))
      BY <2>1, <2>2, OrderedIn
    <2> QED
      BY <2>3 DEF T, Copies, CopiesOf
  <1> QED
    BY <1>3, <1>4

LEMMA TodoType ==
    ASSUME PulseOK, NEW at \in PulseStages, NEW todo,
           todo \in (IF at = "push" THEN CopiesOf ELSE IF at \in {"switch", "tellDim"} THEN Crossings ELSE CopiesOf \cup Crossings),
           at = "tellDim" => todo # <<>>,
           pulse' = [pulse EXCEPT !.at = at, !.todo = todo], Here' = Here
    PROVE  PulseOK'
  <1>1. pulse' \in PulseType
    BY PulseFields DEF PulseType
  <1>2. pulse'.at = at /\ pulse'.todo = todo /\ pulse'.holds = pulse.holds
    BY PulseFields DEF PulseType
  <1> QED
    BY <1>1, <1>2 DEF PulseOK

LEMMA PortalsStayTyped ==
    ASSUME PulseOK, PlayersOK,
           TickPortals \/ SwitchEntry \/ BroadcastRespawn \/ PortalsDone \/ CopyPlayers \/ PushBack
    PROVE  PulseOK' /\ PlayersOK'
  <1>1. CASE TickPortals
    <2>1. PulseOK'
      BY <1>1, CrossersOrdered, TodoType DEF TickPortals, PulseStages, Here
    <2> QED
      BY <1>1, <2>1 DEF TickPortals, PlayersOK, Here
  <1>2. CASE SwitchEntry
    <2>1. pulse.todo \in Crossings /\ pulse.todo # <<>>
      BY <1>2 DEF SwitchEntry, PulseOK
    <2>2. pulse.todo[1] \in Roamers \X Dims
      BY <2>1, TailIn DEF Crossings
    <2>3. roamers' \in [Here -> Entry] /\ Here' = Here
      <3>1. \A q \in Here : roamers[q] \in Entry /\ [roamers[q] EXCEPT !.dim = pulse.todo[1][2]] \in Entry
        BY <2>2, EntryFields DEF Entry
      <3> QED
        BY <1>2, <3>1 DEF SwitchEntry, Here
    <2>4. PulseOK'
      BY <1>2, <2>1, <2>3, StageType DEF SwitchEntry, PulseOK, PulseStages
    <2> QED
      BY <1>2, <2>3, <2>4 DEF SwitchEntry, PlayersOK
  <1>3. CASE BroadcastRespawn
    <2>1. pulse.todo \in Crossings /\ pulse.todo # <<>>
      BY <1>3 DEF BroadcastRespawn, PulseOK
    <2>2. pulse.todo[1] \in Roamers \X Dims /\ Tail(pulse.todo) \in Crossings
      BY <2>1, TailIn DEF Crossings
    <2>3. PulseOK'
      BY <1>3, <2>2, TodoType DEF BroadcastRespawn, PulseStages, Here
    <2>4. DimEvent(pulse.todo[1][1], pulse.todo[1][2]) \in Letter
      BY <2>2 DEF DimEvent, Letter
    <2> QED
      BY <1>3, <2>3, <2>4, SentTypes DEF BroadcastRespawn, PlayersOK, Here
  <1>4. CASE PortalsDone
    <2>1. pulse' \in PulseType
      BY <1>4, PulseFields DEF PortalsDone, PlayersOK, WorldType, PulseType, PulseStages
    <2>2. pulse'.at = "border" /\ pulse'.holds = pulse.holds
      BY <1>4, PulseFields DEF PortalsDone, PulseType
    <2> QED
      BY <1>4, <2>1, <2>2 DEF PortalsDone, PulseOK, PlayersOK, Here
  <1>5. CASE CopyPlayers
    <2> DEFINE todo == IF pulse.bound THEN Copies(Here) ELSE <<>>
    <2>1. todo \in CopiesOf
      BY CrossersOrdered DEF CopiesOf
    <2>2. pulse' = [pulse EXCEPT !.at = "push", !.todo = todo]
      BY <1>5 DEF CopyPlayers
    <2> HIDE DEF todo
    <2>3. PulseOK'
      BY <1>5, <2>1, <2>2, TodoType DEF CopyPlayers, PulseStages, Here
    <2> QED
      BY <1>5, <2>3 DEF CopyPlayers, PlayersOK, Here
  <1>6. CASE PushBack
    <2>1. pulse.todo \in CopiesOf
      BY <1>6 DEF PushBack, PulseOK
    <2>2. CASE pulse.todo = <<>>
      <3>1. PulseOK'
        BY <1>6, <2>2, StageType DEF PushBack, PulseOK, PulseStages, Here
      <3> QED
        BY <1>6, <2>2, <3>1 DEF PushBack, PlayersOK, Here
    <2>3. CASE pulse.todo # <<>>
      <3>1. pulse.todo[1] \in Roamers \X Grounds \X (0..Full) /\ Tail(pulse.todo) \in CopiesOf
        BY <2>1, <2>3, TailIn DEF CopiesOf
      <3>2. Here' = Here /\ roamers' \in [Here -> Entry]
        <4>1. PICK spot \in {"outside", "field"}, deep \in BOOLEAN :
                 LET p == pulse.todo[1][1]
                     hp == pulse.todo[1][3]
                 IN IF p \in Here /\ pulse.todo[1][2] = "outside"
                    THEN Set(p, [roamers[p] EXCEPT !.spot = spot,
                                 !.hp = IF ~deep THEN @ ELSE IF hp > 1 THEN hp - 1 ELSE 0])
                    ELSE UNCHANGED roamers
          BY <1>6, <2>3 DEF PushBack
        <4>2. PICK p \in Roamers, hp \in 0..Full : p = pulse.todo[1][1] /\ hp = pulse.todo[1][3]
          BY <3>1
        <4>3. CASE p \in Here /\ pulse.todo[1][2] = "outside"
          <5> DEFINE e == [roamers[p] EXCEPT !.spot = spot,
                                 !.hp = IF ~deep THEN @ ELSE IF hp > 1 THEN hp - 1 ELSE 0]
          <5>1. (IF hp > 1 THEN hp - 1 ELSE 0) \in 0..Full /\ spot \in Grounds
            BY DEF Full, Grounds
          <5>2. e \in Entry
            BY <4>3, <5>1, EntryFields DEF Entry
          <5>3. Set(p, e)
            BY <4>1, <4>2, <4>3
          <5> HIDE DEF e
          <5> QED
            BY <4>3, <5>2, <5>3, EntryWritten
        <4>4. CASE ~(p \in Here /\ pulse.todo[1][2] = "outside")
          BY <4>1, <4>2, <4>4 DEF PlayersOK, Here
        <4> QED
          BY <4>3, <4>4
      <3>3. pulse' = [pulse EXCEPT !.at = "push", !.todo = Tail(pulse.todo)]
        BY <1>6, <2>3, PulseFields DEF PushBack, PulseType
      <3>4. PulseOK'
        BY <3>1, <3>2, <3>3, TodoType DEF PulseStages
      <3> QED
        BY <1>6, <3>2, <3>4 DEF PushBack, PlayersOK
    <2> QED
      BY <2>2, <2>3
  <1> QED
    BY <1>1, <1>2, <1>3, <1>4, <1>5, <1>6

(* A step of p's task that changes p's entry and where its task is.        *)
LEMMA OwnStepType ==
    ASSUME PulseOK, PlayersOK, NEW p \in Here, NEW e \in Entry,
           NEW h \in {"idle", "atPortal"} \cup Dims, NEW shows \in Shows,
           Set(p, e), hands' = [hands EXCEPT ![p] = h], views' = [views EXCEPT ![p] = shows],
           pulse' = pulse, mail' = mail, world' \in WorldType, wsteps' \in 0..WorldSteps,
           forgiven' \in [Here -> SUBSET {"sky", "dim"}]
    PROVE  PulseOK' /\ PlayersOK'
  <1>1. Here' = Here /\ roamers' \in [Here -> Entry]
    BY EntryWritten
  <1>2. PulseOK'
    BY <1>1 DEF PulseOK
  <1>3. hands' \in [Here -> {"idle", "atPortal"} \cup Dims] /\ views' \in [Here -> Shows]
    BY DEF PlayersOK
  <1> QED
    BY <1>1, <1>2, <1>3 DEF PlayersOK

LEMMA MailTail ==
    ASSUME PlayersOK, NEW p \in Here, mail[p] # <<>>
    PROVE  /\ mail[p][1] \in Letter /\ Tail(mail[p]) \in Seq(Letter)
           /\ Len(Tail(mail[p])) <= MailCap
           /\ Handle0(views[p], p, mail[p][1]) \in Shows
  <1>1. mail[p] \in Seq(Letter) /\ Len(mail[p]) \in 0..MailCap /\ views[p] \in Shows
    BY EntryFields
  <1>2. mail[p][1] \in Letter /\ Tail(mail[p]) \in Seq(Letter) /\ Len(Tail(mail[p])) = Len(mail[p]) - 1
    BY <1>1, TailIn
  <1>3. Handle0(views[p], p, mail[p][1]) \in Shows
    <2>1. PICK e \in Letter : e = mail[p][1]
      BY <1>2
    <2>2. /\ e.what \in {"sky", "dim"}
          /\ e.what = "sky" => e.now \in Skies
          /\ e.what = "dim" => e.now \in Dims
      BY DEF Letter
    <2>3. PICK v \in Shows : v = views[p]
      BY <1>1
    <2>4. e.what = "sky" => [v EXCEPT !.sky = e.now] \in Shows
      BY <2>2 DEF Shows
    <2>5. e.what = "dim" => [v EXCEPT !.dim = e.now] \in Shows
      BY <2>2 DEF Shows
    <2>6. Handle0(v, p, e) \in Shows
      <3>2. CASE e.what = "sky"
        BY <2>3, <2>4, <3>2 DEF Handle0
      <3>3. CASE e.what = "dim"
        BY <2>3, <2>5, <3>3 DEF Handle0
      <3> QED
        BY <2>2, <3>2, <3>3
    <2> QED
      BY <2>1, <2>3, <2>6
  <1> QED
    BY <1>1, <1>2, <1>3, WorldNumbers

LEMMA StepTaken == wsteps \in 0..WorldSteps /\ (Step0 \/ Order0) => wsteps' \in 0..WorldSteps
  BY WorldNumbers DEF Step0, Order0

LEMMA TasksStayTyped ==
    ASSUME PulseOK, PlayersOK, NEW p \in Here,
           \/ Move(p) \/ MoveAndLook(p) \/ PortalRead(p) \/ PortalSwitch(p) \/ ComeBack(p)
           \/ HandleMail(p) \/ Sleep(p)
    PROVE  PulseOK' /\ PlayersOK'
  <1>0. /\ wsteps \in 0..WorldSteps /\ world \in WorldType /\ forgiven \in [Here -> SUBSET {"sky", "dim"}]
        /\ roamers \in [Here -> Entry] /\ hands \in [Here -> {"idle", "atPortal"} \cup Dims]
        /\ views \in [Here -> Shows]
    BY DEF PlayersOK
  <1>a. /\ Set(p, roamers[p]) <=> roamers' = roamers
        /\ hands' = hands => hands' = [hands EXCEPT ![p] = hands[p]]
        /\ views' = views => views' = [views EXCEPT ![p] = views[p]]
    BY <1>0 DEF Set
  <1>b. roamers[p] \in Entry /\ hands[p] \in {"idle", "atPortal"} \cup Dims /\ views[p] \in Shows
    BY EntryFields
  <1>1. CASE Move(p)
    <2>1. PICK to \in Grounds, how \in {"within", "withinCalm", "above", "beyond"}, asked \in BOOLEAN :
              /\ Set(p, Validated(roamers[p], to, how))
              /\ hands' = [hands EXCEPT ![p] = IF asked /\ to = "portal" THEN "atPortal" ELSE "idle"]
      BY <1>1 DEF Move
    <2>2. PICK e \in Entry : Set(p, e)
      BY <1>b, <2>1, Validation
    <2>3. PICK h \in {"idle", "atPortal"} : hands' = [hands EXCEPT ![p] = h]
      BY <2>1
    <2>4. wsteps' \in 0..WorldSteps
      BY <1>1, <1>0, StepTaken DEF Move
    <2>5. world' \in WorldType /\ forgiven' \in [Here -> SUBSET {"sky", "dim"}]
      BY <1>0, <1>1 DEF Move
    <2>6. pulse' = pulse /\ mail' = mail /\ views' = [views EXCEPT ![p] = views[p]]
      BY <1>1, <1>a DEF Move
    <2> QED
      BY <1>b, <2>2, <2>3, <2>4, <2>5, <2>6, OwnStepType
  <1>2. CASE MoveAndLook(p)
    <2>1. PICK to \in Grounds : Set(p, [roamers[p] EXCEPT !.spot = to])
      BY <1>2 DEF MoveAndLook
    <2>2. [roamers[p] EXCEPT !.spot = to] \in Entry
      BY <1>b DEF Entry
    <2>4. wsteps' \in 0..WorldSteps
      BY <1>2, <1>0, StepTaken DEF MoveAndLook
    <2> QED
      BY <1>2, <1>0, <1>a, <1>b, <2>1, <2>2, <2>4, OwnStepType DEF MoveAndLook
  <1>3. CASE PortalRead(p)
    <2>1. Across(roamers[p].dim) \in {"idle", "atPortal"} \cup Dims
      BY DEF Across, Dims
    <2> QED
      BY <1>3, <1>0, <1>a, <1>b, <2>1, OwnStepType DEF PortalRead
  <1>4. CASE PortalSwitch(p)
    <2>1. hands[p] \in Dims
      BY <1>4 DEF PortalSwitch
    <2>2. [roamers[p] EXCEPT !.dim = hands[p], !.spot = "field"] \in Entry
      BY <1>b, <2>1 DEF Entry, Grounds
    <2>3. [views[p] EXCEPT !.dim = hands[p]] \in Shows
      BY <1>b, <2>1 DEF Shows
    <2>4. views' = [views EXCEPT ![p] = [views[p] EXCEPT !.dim = hands[p]]]
      BY <1>4, <1>0 DEF PortalSwitch
    <2>5. forgiven' \in [Here -> SUBSET {"sky", "dim"}]
      BY <1>4, <1>0 DEF PortalSwitch, Excuse
    <2> QED
      BY <1>4, <1>0, <2>2, <2>3, <2>4, <2>5, OwnStepType DEF PortalSwitch
  <1>5. CASE ComeBack(p)
    <2>1. [roamers[p] EXCEPT !.hp = Full] \in Entry
      BY <1>b DEF Entry, Full
    <2>2. [views[p] EXCEPT !.dim = roamers[p].dim] \in Shows
      BY <1>b DEF Shows, Entry
    <2>3. views' = [views EXCEPT ![p] = [views[p] EXCEPT !.dim = roamers[p].dim]]
      BY <1>5, <1>0 DEF ComeBack, BackIn
    <2>4. wsteps' \in 0..WorldSteps
      BY <1>5, <1>0, StepTaken DEF ComeBack
    <2>5. world' \in WorldType /\ forgiven' \in [Here -> SUBSET {"sky", "dim"}]
      BY <1>0, <1>5 DEF ComeBack
    <2>6. /\ pulse' = pulse /\ mail' = mail /\ hands' = [hands EXCEPT ![p] = hands[p]]
          /\ Set(p, [roamers[p] EXCEPT !.hp = Full])
      BY <1>5, <1>a DEF ComeBack
    <2> QED
      BY <1>b, <2>1, <2>2, <2>3, <2>4, <2>5, <2>6, OwnStepType
  <1>6. CASE HandleMail(p)
    <2>1. mail[p] # <<>>
      BY <1>6 DEF HandleMail
    <2>2. views' \in [Here -> Shows]
      <3>1. Handle0(views[p], p, mail[p][1]) \in Shows
        BY <2>1, MailTail
      <3> QED
        BY <1>6, <1>0, <3>1 DEF HandleMail
    <2>3. mail' \in [Here -> Seq(Letter)] /\ \A q \in Here : Len(mail'[q]) <= MailCap
      <3>1. Tail(mail[p]) \in Seq(Letter) /\ Len(Tail(mail[p])) <= MailCap
        BY <2>1, MailTail
      <3>2. mail' = [mail EXCEPT ![p] = Tail(mail[p])]
        BY <1>6 DEF HandleMail
      <3> QED
        BY <3>1, <3>2 DEF PlayersOK
    <2> QED
      BY <1>6, <2>2, <2>3 DEF HandleMail, PulseOK, PlayersOK, Here
  <1>7. CASE Sleep(p)
    <2>1. [roamers[p] EXCEPT !.hp = Full] \in Entry
      BY <1>b DEF Entry, Full
    <2>2. [world EXCEPT !.daytime = 0] \in WorldType
      <3>1. 0 \in 0..(Day - 1)
        BY WorldNumbers
      <3> QED
        BY <1>0, <3>1 DEF WorldType
    <2>4. wsteps' \in 0..WorldSteps
      BY <1>7, <1>0, StepTaken DEF Sleep
    <2> QED
      BY <1>7, <1>0, <1>a, <1>b, <2>1, <2>2, <2>4, OwnStepType DEF Sleep
  <1> QED
    BY <1>1, <1>2, <1>3, <1>4, <1>5, <1>6, <1>7

LEMMA VisitsStayTyped ==
    ASSUME PulseOK, PlayersOK, NEW p \in Roamers, JoinWorld(p) \/ LeaveWorld(p)
    PROVE  PulseOK' /\ PlayersOK'
  <1>1. CASE JoinWorld(p)
    <2>1. Here' = Here \cup {p}
      BY <1>1 DEF JoinWorld, Here
    <2>2. NewRoamer \in Entry
      <3>1. 0 \in 0..(TrustLimit - 1)
        BY WorldNumbers
      <3> QED
        BY <3>1 DEF NewRoamer, Entry, Full, Grounds, Dims
    <2>3. roamers' \in [Here' -> Entry]
      BY <1>1, <2>1, <2>2, EntryFields DEF JoinWorld
    <2>4. /\ hands' \in [Here' -> {"idle", "atPortal"} \cup Dims] /\ views' \in [Here' -> Shows]
      BY <1>1, <2>1, EntryFields DEF JoinWorld, Shows, Skies, Dims
    <2>5. forgiven' \in [Here' -> SUBSET {"sky", "dim"}]
      <3>1. Unheard(p) \in SUBSET {"sky", "dim"}
        BY DEF Unheard
      <3> QED
        BY <1>1, <2>1, <3>1, EntryFields DEF JoinWorld
    <2>6. mail' \in [Here' -> Seq(Letter)] /\ \A q \in Here' : Len(mail'[q]) <= MailCap
      <3>1. <<>> \in Seq(Letter) /\ Len(<<>>) = 0 /\ 0 <= MailCap
        BY WorldNumbers
      <3>2. \A q \in Here : mail[q] \in Seq(Letter) /\ Len(mail[q]) <= MailCap
        BY EntryFields DEF PlayersOK
      <3>3. mail' = [q \in Here' |-> IF q = p THEN <<>> ELSE mail[q]]
        BY <1>1, <2>1 DEF JoinWorld
      <3> QED
        BY <2>1, <3>1, <3>2, <3>3
    <2>7. wsteps' \in 0..WorldSteps
      BY <1>1, StepTaken DEF JoinWorld, PlayersOK
    <2>8. PulseOK'
      BY <1>1, <2>1 DEF JoinWorld, PulseOK
    <2> QED
      BY <1>1, <2>1, <2>3, <2>4, <2>5, <2>6, <2>7, <2>8 DEF JoinWorld, PlayersOK
  <1>2. CASE LeaveWorld(p)
    <2>1. Here' = Here \ {p} /\ p \notin pulse.holds
      BY <1>2 DEF LeaveWorld, Here, Reached
    <2>2. roamers' \in [Here' -> Entry] /\ hands' \in [Here' -> {"idle", "atPortal"} \cup Dims]
      BY <1>2, <2>1, EntryFields DEF LeaveWorld
    <2>3. views' \in [Here' -> Shows] /\ forgiven' \in [Here' -> SUBSET {"sky", "dim"}]
      BY <1>2, <2>1, EntryFields DEF LeaveWorld
    <2>4. mail' \in [Here' -> Seq(Letter)] /\ \A q \in Here' : Len(mail'[q]) <= MailCap
      <3>1. mail' = [q \in Here' |-> mail[q]]
        BY <1>2, <2>1 DEF LeaveWorld
      <3> QED
        BY <2>1, <3>1 DEF PlayersOK
    <2>5. wsteps' \in 0..WorldSteps
      BY <1>2, StepTaken DEF LeaveWorld, PlayersOK
    <2>6. PulseOK'
      BY <1>2, <2>1 DEF LeaveWorld, PulseOK
    <2> QED
      BY <1>2, <2>1, <2>2, <2>3, <2>4, <2>5, <2>6 DEF LeaveWorld, PlayersOK
  <1> QED
    BY <1>1, <1>2

WorldCommands == TimeSet \/ TimeAdd \/ Weather \/ Tick0 \/ Gamerule \/ Worldborder \/ Unread

LEMMA CommandsStayTyped ==
    ASSUME PulseOK, PlayersOK, WorldCommands
    PROVE  /\ PulseOK' /\ PlayersOK' /\ UNCHANGED <<pulse, roamers, hands, mail, views>>
           /\ (world'.sky = world.sky /\ UNCHANGED forgiven) \/ forgiven' = Excuse(Here, "sky")
  <1>0. world \in WorldType /\ wsteps \in 0..WorldSteps
    BY DEF PlayersOK
  <1>1. PICK w : Change(w) /\ w \in WorldType /\ \/ w.sky = world.sky /\ UNCHANGED forgiven
                                                 \/ forgiven' = Excuse(Here, "sky")
    <2>1. CASE TimeSet
      <3>1. PICK t \in 0..(Day - 1) : Change([world EXCEPT !.time = t, !.daytime = t]) /\ UNCHANGED forgiven
        BY <2>1 DEF TimeSet
      <3>2. [world EXCEPT !.time = t, !.daytime = t] \in WorldType
        BY <1>0 DEF WorldType
      <3>3. [world EXCEPT !.time = t, !.daytime = t].sky = world.sky
        BY <1>0 DEF WorldType
      <3> QED
        BY <3>1, <3>2, <3>3
    <2>2. CASE TimeAdd
      <3>1. PICK t \in 1..(Day - 1) : Change(Later(world, t)) /\ UNCHANGED forgiven
        BY <2>2 DEF TimeAdd
      <3>2. t \in Nat
        BY <3>1, WorldNumbers
      <3> QED
        BY <1>0, <3>1, <3>2, LaterIs
    <2>3. CASE Weather
      BY <1>0, <2>3 DEF Weather, WorldType
    <2>4. CASE Tick0
      BY <1>0, <2>4 DEF Tick0, WorldType
    <2>5. CASE Gamerule
      <3>1. PICK r \in Rules, on \in BOOLEAN :
                /\ Change([world EXCEPT !.rules = IF on THEN @ \cup {r} ELSE @ \ {r}])
                /\ UNCHANGED forgiven
        BY <2>5 DEF Gamerule
      <3>2. \A R \in SUBSET Rules : (IF on THEN R \cup {r} ELSE R \ {r}) \in SUBSET Rules
        OBVIOUS
      <3> QED
        BY <1>0, <3>1, <3>2 DEF WorldType
    <2>6. CASE Worldborder
      <3>1. PICK narrow \in BOOLEAN, later \in BOOLEAN :
                /\ Change([world EXCEPT !.narrow = IF later THEN @ ELSE narrow])
                /\ UNCHANGED forgiven
        BY <2>6 DEF Worldborder
      <3> QED
        BY <1>0, <3>1 DEF WorldType
    <2>7. CASE Unread
      BY <1>0, <2>7 DEF Unread
    <2> QED
      BY <2>1, <2>2, <2>3, <2>4, <2>5, <2>6, <2>7 DEF WorldCommands
  <1>2. wsteps' \in 0..WorldSteps /\ world' = w /\ UNCHANGED <<pulse, roamers, hands, mail, views>>
    BY <1>0, <1>1, StepTaken DEF Change
  <1>3. forgiven' \in [Here -> SUBSET {"sky", "dim"}]
    BY <1>1 DEF Excuse, PlayersOK
  <1>4. PulseOK'
    BY <1>2 DEF PulseOK, Here
  <1> QED
    BY <1>1, <1>2, <1>3, <1>4 DEF PlayersOK, Here

LEMMA WorldTypesStep ==
    ASSUME PulseOK, PlayersOK, [WorldNext]_world_vars
    PROVE  PulseOK' /\ PlayersOK'
  <1>1. CASE UNCHANGED world_vars
    BY <1>1 DEF world_vars, PulseOK, PlayersOK, Here
  <1>2. ASSUME NEW p \in Roamers, Move(p) \/ MoveAndLook(p) \/ PortalRead(p) \/ PortalSwitch(p) \/ ComeBack(p)
                                  \/ HandleMail(p) \/ Sleep(p)
        PROVE  PulseOK' /\ PlayersOK'
    <2>1. p \in Here
      BY <1>2 DEF Move, MoveAndLook, PortalRead, PortalSwitch, ComeBack, HandleMail, Sleep, Reached
    <2> QED
      BY <1>2, <2>1, TasksStayTyped
  <1> QED
    BY <1>1, <1>2, LoopStaysTyped, PortalsStayTyped, VisitsStayTyped, CommandsStayTyped DEF WorldNext, WorldCommands

-----------------------------------------------------------------------------
(* World: what a client shows in the end                                   *)

LEMMA EndsEmpty ==
    ASSUME NEW p, NEW what, NEW v
    PROVE  EndsWith(<<>>, p, what, v, v)
  BY DEF EndsWith

(* Without a word on its way, it is what is shown now.                     *)
LEMMA EndsAsShown ==
    ASSUME NEW q \in Seq(Letter), NEW p, NEW what, NEW v, \A i \in 1..Len(q) : ~Tells(q[i], p, what)
    PROVE  EndsWith(q, p, what, v, v)
  BY DEF EndsWith

LEMMA EndsOther ==
    ASSUME NEW q \in Seq(Letter), NEW e \in Letter, NEW p, NEW what, NEW shows, NEW v,
           EndsWith(q, p, what, shows, v), ~Tells(e, p, what)
    PROVE  EndsWith(Append(q, e), p, what, shows, v)
  <1> DEFINE a == Append(q, e)
  <1>1. /\ a \in Seq(Letter) /\ Len(a) = Len(q) + 1 /\ Len(q) \in Nat /\ a[Len(q) + 1] = e
        /\ \A i \in 1..Len(q) : a[i] = q[i]
    BY AppendIn
  <1> HIDE DEF a
  <1>2. ASSUME NEW i \in 1..Len(a), Tells(a[i], p, what), \A j \in (i + 1)..Len(a) : ~Tells(a[j], p, what)
        PROVE  a[i].now = v
    <2>1. i \in 1..Len(q) /\ a[i] = q[i]
      BY <1>1, <1>2
    <2>2. \A j \in (i + 1)..Len(q) : j \in (i + 1)..Len(a) /\ a[j] = q[j]
      BY <1>1, <2>1
    <2> QED
      BY <1>2, <2>1, <2>2 DEF EndsWith
  <1>3. (\A i \in 1..Len(a) : ~Tells(a[i], p, what)) => shows = v
    <2>1. \A i \in 1..Len(q) : i \in 1..Len(a) /\ a[i] = q[i]
      BY <1>1
    <2> QED
      BY <2>1 DEF EndsWith
  <1>4. EndsWith(a, p, what, shows, v)
    BY <1>2, <1>3 DEF EndsWith
  <1> QED
    BY <1>4 DEF a

LEMMA EndsTold ==
    ASSUME NEW q \in Seq(Letter), NEW e \in Letter, NEW p, NEW what, NEW shows, Tells(e, p, what)
    PROVE  EndsWith(Append(q, e), p, what, shows, e.now)
  <1> DEFINE a == Append(q, e)
  <1>1. a \in Seq(Letter) /\ Len(a) = Len(q) + 1 /\ Len(q) \in Nat /\ a[Len(q) + 1] = e
    BY AppendIn
  <1> HIDE DEF a
  <1>2. ASSUME NEW i \in 1..Len(a), \A j \in (i + 1)..Len(a) : ~Tells(a[j], p, what)
        PROVE  a[i].now = e.now
    <2>1. CASE i = Len(q) + 1
      BY <1>1, <2>1
    <2>2. CASE i # Len(q) + 1
      <3>1. Len(q) + 1 \in (i + 1)..Len(a)
        BY <1>1, <2>2
      <3> QED
        BY <1>1, <1>2, <3>1
    <2> QED
      BY <2>1, <2>2
  <1>3. Len(q) + 1 \in 1..Len(a) /\ Tells(a[Len(q) + 1], p, what)
    BY <1>1
  <1>4. EndsWith(a, p, what, shows, e.now)
    BY <1>2, <1>3 DEF EndsWith
  <1> QED
    BY <1>4 DEF a

(* The first letter is handled, or lost.                                   *)
LEMMA EndsTail ==
    ASSUME NEW q \in Seq(Letter), q # <<>>, NEW p, NEW what, NEW shows, NEW v, EndsWith(q, p, what, shows, v)
    PROVE  EndsWith(Tail(q), p, what, IF Tells(q[1], p, what) THEN q[1].now ELSE shows, v)
  <1> DEFINE t == Tail(q)
             s == IF Tells(q[1], p, what) THEN q[1].now ELSE shows
  <1>1. /\ t \in Seq(Letter) /\ Len(t) = Len(q) - 1 /\ Len(q) \in Nat \ {0}
        /\ \A i \in 1..(Len(q) - 1) : t[i] = q[i + 1]
    BY TailIn
  <1> HIDE DEF t
  <1>2. ASSUME NEW i \in 1..Len(t), Tells(t[i], p, what), \A j \in (i + 1)..Len(t) : ~Tells(t[j], p, what)
        PROVE  t[i].now = v
    <2>1. i + 1 \in 1..Len(q) /\ t[i] = q[i + 1]
      BY <1>1
    <2>2. ASSUME NEW j \in (i + 2)..Len(q)
          PROVE  ~Tells(q[j], p, what)
      <3>1. j - 1 \in (i + 1)..Len(t) /\ t[j - 1] = q[j]
        BY <1>1
      <3> QED
        BY <1>2, <3>1
    <2>3. \A j \in ((i + 1) + 1)..Len(q) : j \in (i + 2)..Len(q)
      BY <1>1
    <2> QED
      BY <1>2, <2>1, <2>2, <2>3 DEF EndsWith
  <1>3. ASSUME \A i \in 1..Len(t) : ~Tells(t[i], p, what)
        PROVE  s = v
    <2>1. ASSUME NEW j \in 2..Len(q)
          PROVE  ~Tells(q[j], p, what)
      <3>1. j - 1 \in 1..Len(t) /\ t[j - 1] = q[j]
        BY <1>1
      <3> QED
        BY <1>3, <3>1
    <2>2. 1 \in 1..Len(q) /\ \A j \in 1..Len(q) : j # 1 => j \in 2..Len(q)
      BY <1>1
    <2>3. CASE Tells(q[1], p, what)
      <3>1. \A j \in (1 + 1)..Len(q) : ~Tells(q[j], p, what)
        BY <2>1
      <3> QED
        BY <2>2, <2>3, <3>1 DEF EndsWith
    <2>4. CASE ~Tells(q[1], p, what)
      BY <2>1, <2>2, <2>4 DEF EndsWith
    <2> QED
      BY <2>3, <2>4
  <1> HIDE DEF s
  <1>4. EndsWith(t, p, what, s, v)
    BY <1>2, <1>3 DEF EndsWith
  <1> QED
    BY <1>4 DEF t, s

(* An event is sent: a receiver that is not excused goes on to where it was *)
(* going, and one that the event is meant for to what the event says.      *)
LEMMA SentEnds ==
    ASSUME PlayersOK, NEW e \in Letter, Sent(e), NEW p \in Here, NEW what, NEW shows
    PROVE  /\ ~Tells(e, p, what) =>
                \A v : EndsWith(mail[p], p, what, shows, v)
                       => what \in forgiven'[p] \/ EndsWith(mail'[p], p, what, shows, v)
           /\ Tells(e, p, what) => what \in forgiven'[p] \/ EndsWith(mail'[p], p, what, shows, e.now)
           /\ forgiven[p] \subseteq forgiven'[p]
  <1> DEFINE q == Append(mail[p], e)
  <1>1. mail[p] \in Seq(Letter) /\ Len(mail[p]) \in 0..MailCap /\ DOMAIN mail = Here /\ DOMAIN forgiven = Here
    BY EntryFields DEF PlayersOK
  <1>2. /\ q \in Seq(Letter) /\ Len(q) = Len(mail[p]) + 1 /\ q # <<>>
        /\ Len(mail[p]) = MailCap => q[1] = mail[p][1]
    BY <1>1, AppendIn, WorldNumbers
  <1>3. mail'[p] = IF Len(q) > MailCap THEN Tail(q) ELSE q
    BY <1>1 DEF Sent, Post
  <1>4. forgiven'[p] = forgiven[p] \cup Missing(p)
    BY <1>1 DEF Sent
  <1>5. /\ \A v : ~Tells(e, p, what) /\ EndsWith(mail[p], p, what, shows, v) => EndsWith(q, p, what, shows, v)
        /\ Tells(e, p, what) => EndsWith(q, p, what, shows, e.now)
    BY <1>1, EndsOther, EndsTold
  <1> HIDE DEF q
  <1>6. CASE Len(q) > MailCap
    <2>1. Len(mail[p]) = MailCap
      BY <1>1, <1>2, <1>6, WorldNumbers
    <2>2. Tells(q[1], p, what) => what \in forgiven'[p]
      BY <1>2, <1>4, <2>1 DEF Missing, Tells
    <2>3. \A v : EndsWith(q, p, what, shows, v) => what \in forgiven'[p] \/ EndsWith(mail'[p], p, what, shows, v)
      <3>1. CASE Tells(q[1], p, what)
        BY <2>2, <3>1
      <3>2. CASE ~Tells(q[1], p, what)
        BY <1>2, <1>3, <1>6, <3>2, EndsTail
      <3> QED
        BY <3>1, <3>2
    <2> QED
      BY <1>4, <1>5, <2>3
  <1>7. CASE ~(Len(q) > MailCap)
    BY <1>3, <1>4, <1>5, <1>7
  <1> QED
    BY <1>6, <1>7

-----------------------------------------------------------------------------
(* World: the weather                                                      *)

(* A step that tells nobody of the weather and does not change it.         *)
LEMMA SkyKept ==
    ASSUME PlayersOK, SkyOK, world'.sky = world.sky, Here' \subseteq Here,
           pulse.at = "tellSky" \/ pulse'.at = "tellSky" => pulse'.at = pulse.at /\ pulse'.sky = pulse.sky,
           \A p \in Here' : /\ mail'[p] = mail[p] /\ views'[p].sky = views[p].sky
                            /\ "sky" \in forgiven[p] => "sky" \in forgiven'[p]
    PROVE  SkyOK'
  <1> SUFFICES ASSUME NEW p \in Here'
               PROVE  "sky" \in forgiven'[p] \/
                      IF pulse'.at = "tellSky" THEN pulse'.sky = world'.sky
                      ELSE EndsWith(mail'[p], p, "sky", views'[p].sky, world'.sky)
    BY DEF SkyOK
  <1>1. p \in Here
    OBVIOUS
  <1> QED
    BY <1>1 DEF SkyOK

(* A step that takes nobody across and sends nobody word of it.            *)
LEMMA DimKept ==
    ASSUME PlayersOK, DimOK, Here' \subseteq Here,
           pulse.at = "tellDim" \/ pulse'.at = "tellDim" => pulse'.at = pulse.at /\ pulse'.todo = pulse.todo,
           \A p \in Here' : /\ mail'[p] = mail[p] /\ views'[p].dim = views[p].dim
                            /\ roamers'[p].dim = roamers[p].dim
                            /\ "dim" \in forgiven[p] => "dim" \in forgiven'[p]
    PROVE  DimOK'
  <1> SUFFICES ASSUME NEW p \in Here'
               PROVE  "dim" \in forgiven'[p] \/
                      IF Untold(p)' THEN roamers'[p].dim = pulse'.todo[1][2]
                      ELSE EndsWith(mail'[p], p, "dim", views'[p].dim, roamers'[p].dim)
    BY DEF DimOK
  <1>1. p \in Here /\ (Untold(p)' <=> Untold(p)) /\ (Untold(p) => pulse'.todo = pulse.todo)
    BY DEF Untold
  <1> QED
    BY <1>1 DEF DimOK

(* The stages that change neither what is shown nor the dimensions.        *)
LEMMA QuietStages ==
    ASSUME PulseOK, PlayersOK,
           \/ ReadControl \/ AddTime \/ Strike \/ TickEnvironmentalDamage
           \/ TickPortals \/ PortalsDone \/ CopyPlayers \/ PushBack
    PROVE  /\ world'.sky = world.sky /\ Here' = Here /\ UNCHANGED <<mail, views, forgiven>>
           /\ pulse.at \notin {"tellSky", "tellDim"}
           /\ \A p \in Here : roamers'[p].dim = roamers[p].dim
  <1>0. /\ roamers \in [Here -> Entry] /\ world \in WorldType
        /\ \A p \in Here : roamers[p] \in Entry /\ Wounded(roamers[p], 1).dim = roamers[p].dim
    BY EntryFields, Wounds DEF PlayersOK
  <1>1. CASE ReadControl
    BY <1>1 DEF ReadControl, Here
  <1>2. CASE AddTime
    BY <1>0, <1>2, LaterIs DEF AddTime, Here
  <1>3. CASE Strike
    <2>1. CASE UNCHANGED roamers
      BY <1>3, <2>1 DEF Strike, Here
    <2>2. CASE \E p \in Here : Set(p, Wounded(roamers[p], 1))
      BY <1>0, <1>3, <2>2 DEF Strike, Set, Here
    <2> QED
      BY <1>3, <2>1, <2>2 DEF Strike
  <1>4. CASE TickEnvironmentalDamage
    <2>1. PICK S \in SUBSET Here : \/ roamers' = [p \in Here |-> IF p \in S THEN Wounded(roamers[p], 1) ELSE roamers[p]]
                                   \/ UNCHANGED roamers
      BY <1>4 DEF TickEnvironmentalDamage
    <2>2. Here' = Here /\ \A p \in Here : roamers'[p].dim = roamers[p].dim
      BY <1>0, <2>1 DEF Here
    <2> QED
      BY <1>4, <2>2 DEF TickEnvironmentalDamage
  <1>5. CASE TickPortals \/ PortalsDone \/ CopyPlayers
    BY <1>5 DEF TickPortals, PortalsDone, CopyPlayers, Here
  <1>6. CASE PushBack
    <2>1. ASSUME NEW p \in Here, NEW spot, NEW hp, Set(p, [roamers[p] EXCEPT !.spot = spot, !.hp = hp])
          PROVE  Here' = Here /\ \A q \in Here : roamers'[q].dim = roamers[q].dim
      <3>1. [roamers[p] EXCEPT !.spot = spot, !.hp = hp].dim = roamers[p].dim
        BY <1>0 DEF Entry
      <3> QED
        BY <1>0, <2>1, <3>1 DEF Set, Here
    <2>2. \/ UNCHANGED roamers
          \/ \E p \in Here : \E spot, hp : Set(p, [roamers[p] EXCEPT !.spot = spot, !.hp = hp])
      <3>1. CASE pulse.todo = <<>>
        BY <1>6, <3>1 DEF PushBack
      <3>2. CASE pulse.todo # <<>>
        <4>1. PICK spot \in {"outside", "field"}, deep \in BOOLEAN :
                 LET p == pulse.todo[1][1]
                     hp == pulse.todo[1][3]
                 IN IF p \in Here /\ pulse.todo[1][2] = "outside"
                    THEN Set(p, [roamers[p] EXCEPT !.spot = spot,
                                 !.hp = IF ~deep THEN @ ELSE IF hp > 1 THEN hp - 1 ELSE 0])
                    ELSE UNCHANGED roamers
          BY <1>6, <3>2 DEF PushBack
        <4>2. PICK p, hp : p = pulse.todo[1][1] /\ hp = pulse.todo[1][3]
          OBVIOUS
        <4>3. CASE p \in Here /\ pulse.todo[1][2] = "outside"
          <5>1. Set(p, [roamers[p] EXCEPT !.spot = spot,
                            !.hp = IF ~deep THEN @ ELSE IF hp > 1 THEN hp - 1 ELSE 0])
            BY <4>1, <4>2, <4>3
          <5>2. PICK h : h = IF ~deep THEN roamers[p].hp ELSE IF hp > 1 THEN hp - 1 ELSE 0
            OBVIOUS
          <5>3. Set(p, [roamers[p] EXCEPT !.spot = spot, !.hp = h])
            BY <1>0, <4>3, <5>1, <5>2 DEF Entry
          <5> QED
            BY <4>3, <5>3
        <4>4. CASE ~(p \in Here /\ pulse.todo[1][2] = "outside")
          BY <4>1, <4>2, <4>4
        <4> QED
          BY <4>3, <4>4
      <3> QED
        BY <3>1, <3>2
    <2>3. Here' = Here /\ \A q \in Here : roamers'[q].dim = roamers[q].dim
      BY <2>1, <2>2 DEF Here
    <2> QED
      BY <1>6, <2>3 DEF PushBack
  <1> QED
    BY <1>1, <1>2, <1>3, <1>4, <1>5, <1>6

(* What a player's task does without its client or a portal.               *)
LEMMA QuietTasks ==
    ASSUME PlayersOK, NEW p \in Here, Move(p) \/ MoveAndLook(p) \/ PortalRead(p) \/ Sleep(p)
    PROVE  /\ world'.sky = world.sky /\ Here' = Here /\ UNCHANGED <<mail, views, forgiven, pulse>>
           /\ \A q \in Here : roamers'[q].dim = roamers[q].dim
  <1>0. roamers \in [Here -> Entry] /\ roamers[p] \in Entry /\ world \in WorldType
    BY EntryFields DEF PlayersOK
  <1>1. ASSUME NEW e, e.dim = roamers[p].dim, Set(p, e)
        PROVE  Here' = Here /\ \A q \in Here : roamers'[q].dim = roamers[q].dim
    BY <1>0, <1>1 DEF Set, Here
  <1>2. CASE Move(p)
    <2>1. PICK to \in Grounds, how \in {"within", "withinCalm", "above", "beyond"} :
              Set(p, Validated(roamers[p], to, how))
      BY <1>2 DEF Move
    <2>2. Validated(roamers[p], to, how).dim = roamers[p].dim
      BY <1>0, Validation
    <2> QED
      BY <1>1, <1>2, <2>1, <2>2 DEF Move
  <1>3. CASE MoveAndLook(p)
    <2>1. PICK to \in Grounds : Set(p, [roamers[p] EXCEPT !.spot = to])
      BY <1>3 DEF MoveAndLook
    <2>2. [roamers[p] EXCEPT !.spot = to].dim = roamers[p].dim
      BY <1>0 DEF Entry
    <2> QED
      BY <1>1, <1>3, <2>1, <2>2 DEF MoveAndLook
  <1>4. CASE PortalRead(p)
    BY <1>4 DEF PortalRead, Here
  <1>5. CASE Sleep(p)
    <2>1. [roamers[p] EXCEPT !.hp = Full].dim = roamers[p].dim /\ [world EXCEPT !.daytime = 0].sky = world.sky
      BY <1>0 DEF Entry, WorldType
    <2>2. Set(p, [roamers[p] EXCEPT !.hp = Full]) /\ world' = [world EXCEPT !.daytime = 0]
      BY <1>5 DEF Sleep
    <2> QED
      BY <1>1, <1>5, <2>1, <2>2 DEF Sleep
  <1> QED
    BY <1>2, <1>3, <1>4, <1>5

LEMMA SkyLoop ==
    ASSUME PulseOK, PlayersOK, SkyOK, TickWeather \/ TellWeather \/ SwitchEntry \/ BroadcastRespawn
    PROVE  SkyOK'
  <1>1. CASE TickWeather
    <2> DEFINE w == CountedDown(world)
    <2>0. world \in WorldType /\ w \in WorldType /\ w.sky = world.sky
      <3>1. PICK W \in WorldType : W = world
        BY DEF PlayersOK
      <3>2. CountedDown(W) \in WorldType /\ CountedDown(W).sky = W.sky
        BY WorldNumbers DEF WorldType, CountedDown
      <3> QED
        BY <3>1, <3>2
    <2>1. CASE "doWeatherCycle" \in world.rules /\ w.timer = 0
      <3>1. PICK t \in 1..LongestSky : world' = [w EXCEPT !.sky = NextSky[@], !.timer = t]
        BY <1>1, <2>1 DEF TickWeather
      <3>2. world'.sky = NextSky[world.sky]
        <4> HIDE DEF w
        <4> QED
          BY <2>0, <3>1 DEF WorldType
      <3>3. pulse' = [pulse EXCEPT !.at = "tellSky", !.sky = NextSky[world.sky]]
        BY <1>1, <2>1 DEF TickWeather
      <3>4. pulse'.at = "tellSky" /\ pulse'.sky = NextSky[world.sky]
        BY <3>3, PulseFields DEF PulseType
      <3> QED
        BY <3>2, <3>4 DEF SkyOK
    <2>2. CASE ~("doWeatherCycle" \in world.rules /\ w.timer = 0)
      <3>1. (world' = w \/ world' = world) /\ UNCHANGED <<roamers, mail, views, forgiven>> /\ pulse.at = "sky"
        BY <1>1, <2>2 DEF TickWeather
      <3>2. world'.sky = world.sky
        <4> HIDE DEF w
        <4> QED
          BY <2>0, <3>1
      <3>3. pulse'.at = "strike"
        BY <1>1, <2>2, PulseFields DEF TickWeather, PulseType
      <3> QED
        BY <3>1, <3>2, <3>3, SkyKept DEF Here
    <2> QED
      BY <2>1, <2>2
  <1>2. CASE TellWeather
    <2> DEFINE e == SkyEvent(pulse.sky)
    <2>1. e \in Letter /\ e.now = pulse.sky /\ \A p : Tells(e, p, "sky")
      BY PulseFields DEF SkyEvent, Letter, Tells, MeantFor
    <2>2. Sent(e) /\ UNCHANGED <<world, roamers, views>>
      BY <1>2 DEF TellWeather
    <2> HIDE DEF e
    <2>3. ASSUME NEW p \in Here
          PROVE  "sky" \in forgiven'[p] \/ EndsWith(mail'[p], p, "sky", views[p].sky, world.sky)
      <3>1. /\ "sky" \in forgiven'[p] \/ EndsWith(mail'[p], p, "sky", views[p].sky, pulse.sky)
            /\ forgiven[p] \subseteq forgiven'[p]
        BY <2>1, <2>2, SentEnds
      <3>2. "sky" \in forgiven[p] \/ pulse.sky = world.sky
        BY <1>2 DEF SkyOK, TellWeather
      <3> QED
        BY <3>1, <3>2
    <2>4. pulse'.at # "tellSky"
      BY <1>2, StageType DEF TellWeather, PulseStages
    <2> QED
      BY <2>2, <2>3, <2>4 DEF SkyOK, Here
  <1>3. CASE SwitchEntry
    <2>1. Here' = Here
      BY <1>3 DEF SwitchEntry, Here
    <2>2. pulse'.at = "tellDim" /\ pulse.at = "switch"
      BY <1>3, StageType DEF SwitchEntry, PulseStages
    <2> QED
      BY <1>3, <2>1, <2>2, SkyKept DEF SwitchEntry
  <1>4. CASE BroadcastRespawn
    <2> DEFINE e == DimEvent(pulse.todo[1][1], pulse.todo[1][2])
    <2>1. pulse.todo[1] \in Roamers \X Dims
      BY <1>4, TailIn DEF BroadcastRespawn, PulseOK, Crossings
    <2>2. e \in Letter /\ \A p : ~Tells(e, p, "sky")
      BY <2>1 DEF DimEvent, Letter, Tells
    <2>3. Sent(e) /\ UNCHANGED <<world, roamers, views>> /\ pulse.at = "tellDim"
      BY <1>4 DEF BroadcastRespawn
    <2> HIDE DEF e
    <2>4. ASSUME NEW p \in Here
          PROVE  "sky" \in forgiven'[p] \/ EndsWith(mail'[p], p, "sky", views[p].sky, world.sky)
      <3>1. "sky" \in forgiven[p] \/ EndsWith(mail[p], p, "sky", views[p].sky, world.sky)
        BY <2>3 DEF SkyOK
      <3> QED
        BY <2>2, <2>3, <3>1, SentEnds
    <2>5. pulse'.at # "tellSky"
      BY <1>4, PulseFields DEF BroadcastRespawn, PulseType
    <2> QED
      BY <2>3, <2>4, <2>5 DEF SkyOK, Here
  <1> QED
    BY <1>1, <1>2, <1>3, <1>4

LEMMA QuietPulse ==
    ASSUME PulseOK,
           \/ ReadControl \/ AddTime \/ Strike \/ TickEnvironmentalDamage
           \/ TickPortals \/ PortalsDone \/ CopyPlayers \/ PushBack
    PROVE  pulse'.at \notin {"tellSky", "tellDim"}
  <1>1. CASE ReadControl
    BY <1>1, PulseFields DEF ReadControl, PulseType
  <1>2. CASE AddTime
    BY <1>2, StageType DEF AddTime, PulseStages
  <1>3. CASE Strike
    <2>1. CASE Loop("harm")
      BY <2>1, StageType DEF PulseStages
    <2>2. CASE \E p \in Here : pulse' = [pulse EXCEPT !.at = "hung", !.holds = {p}]
      BY <2>2, PulseFields DEF PulseType
    <2> QED
      BY <1>3, <2>1, <2>2 DEF Strike
  <1>4. CASE TickEnvironmentalDamage
    <2>1. Loop("portals") \/ Loop("hung")
      BY <1>4 DEF TickEnvironmentalDamage, Loop
    <2> QED
      BY <2>1, StageType DEF PulseStages
  <1>5. CASE TickPortals
    BY <1>5, PulseFields DEF TickPortals, PulseType
  <1>6. CASE PortalsDone
    BY <1>6, PulseFields DEF PortalsDone, PulseType
  <1>7. CASE CopyPlayers
    BY <1>7, PulseFields DEF CopyPlayers, PulseType
  <1>8. CASE PushBack
    <2>1. CASE pulse.todo = <<>>
      BY <1>8, <2>1, StageType DEF PushBack, PulseStages
    <2>2. CASE pulse.todo # <<>>
      BY <1>8, <2>2, PulseFields DEF PushBack, PulseType
    <2> QED
      BY <2>1, <2>2
  <1> QED
    BY <1>1, <1>2, <1>3, <1>4, <1>5, <1>6, <1>7, <1>8

LEMMA DimLoop ==
    ASSUME PulseOK, PlayersOK, DimOK, TickWeather \/ TellWeather \/ SwitchEntry \/ BroadcastRespawn
    PROVE  DimOK'
  <1>1. CASE TickWeather
    <2>1. pulse'.at \in {"tellSky", "strike"} /\ pulse.at = "sky"
      BY <1>1, PulseFields DEF TickWeather, PulseType
    <2>2. \A p \in Here : "dim" \in forgiven[p] => "dim" \in forgiven'[p]
      <3>1. forgiven' = Forgive("sky") \/ forgiven' = forgiven
        BY <1>1 DEF TickWeather
      <3>2. DOMAIN forgiven = Here
        BY DEF PlayersOK
      <3>3. \A p \in Here : "dim" \in forgiven[p] => "dim" \in Forgive("sky")[p]
        BY <3>2 DEF Forgive
      <3> QED
        BY <3>1, <3>3
    <2> QED
      BY <1>1, <2>1, <2>2, DimKept DEF TickWeather, Here
  <1>2. CASE TellWeather
    <2> DEFINE e == SkyEvent(pulse.sky)
    <2>1. e \in Letter /\ \A p : ~Tells(e, p, "dim")
      BY PulseFields DEF SkyEvent, Letter, Tells
    <2>2. Sent(e) /\ UNCHANGED <<world, roamers, views>> /\ pulse.at = "tellSky"
      BY <1>2 DEF TellWeather
    <2>3. pulse'.at = "strike"
      BY <1>2, StageType DEF TellWeather, PulseStages
    <2> HIDE DEF e
    <2>4. ASSUME NEW p \in Here
          PROVE  "dim" \in forgiven'[p] \/ EndsWith(mail'[p], p, "dim", views[p].dim, roamers[p].dim)
      <3>1. "dim" \in forgiven[p] \/ EndsWith(mail[p], p, "dim", views[p].dim, roamers[p].dim)
        BY <2>2 DEF DimOK, Untold
      <3> QED
        BY <2>1, <2>2, <3>1, SentEnds
    <2> QED
      BY <2>2, <2>3, <2>4 DEF DimOK, Untold, Here
  <1>3. CASE SwitchEntry
    <2>1. pulse.todo \in Crossings /\ pulse.todo # <<>> /\ pulse.at = "switch"
      BY <1>3 DEF SwitchEntry, PulseOK
    <2>2. PICK p \in Roamers, dim \in Dims : pulse.todo[1] = <<p, dim>>
      BY <2>1, TailIn DEF Crossings
    <2>3. roamers' = [q \in Here |-> IF q = p THEN [roamers[q] EXCEPT !.dim = dim] ELSE roamers[q]]
      BY <1>3, <2>2 DEF SwitchEntry
    <2>4. pulse'.at = "tellDim" /\ pulse'.todo = pulse.todo /\ UNCHANGED <<mail, views, forgiven>>
      BY <1>3, StageType DEF SwitchEntry, PulseStages
    <2>5. ASSUME NEW q \in Here
          PROVE  "dim" \in forgiven[q] \/
                 IF q = p THEN roamers'[q].dim = dim
                 ELSE EndsWith(mail[q], q, "dim", views[q].dim, roamers'[q].dim)
      <3>1. CASE q = p
        BY <2>3, <3>1, EntryFields DEF Entry
      <3>2. CASE q # p
        BY <2>1, <2>3, <3>2 DEF DimOK, Untold
      <3> QED
        BY <3>1, <3>2
    <2> QED
      BY <2>2, <2>3, <2>4, <2>5 DEF DimOK, Untold, Here
  <1>4. CASE BroadcastRespawn
    <2> DEFINE e == DimEvent(pulse.todo[1][1], pulse.todo[1][2])
    <2>1. pulse.todo \in Crossings /\ pulse.todo # <<>> /\ pulse.at = "tellDim"
      BY <1>4 DEF BroadcastRespawn, PulseOK
    <2>2. PICK p \in Roamers, dim \in Dims : pulse.todo[1] = <<p, dim>>
      BY <2>1, TailIn DEF Crossings
    <2>3. e \in Letter /\ e.now = dim /\ \A q \in Roamers : Tells(e, q, "dim") <=> q = p
      BY <2>2, WorldAssumption DEF DimEvent, Letter, Tells, MeantFor
    <2>4. Sent(e) /\ UNCHANGED <<world, roamers, views>>
      BY <1>4 DEF BroadcastRespawn
    <2>5. pulse'.at = "switch"
      BY <1>4, PulseFields DEF BroadcastRespawn, PulseType
    <2> HIDE DEF e
    <2>6. ASSUME NEW q \in Here
          PROVE  "dim" \in forgiven'[q] \/ EndsWith(mail'[q], q, "dim", views[q].dim, roamers[q].dim)
      <3>0. q \in Roamers /\ (Untold(q) <=> q = p)
        BY <2>1, <2>2, EntryFields DEF Untold
      <3>1. CASE q = p
        <4>1. "dim" \in forgiven[q] \/ roamers[q].dim = dim
          BY <2>2, <3>0, <3>1 DEF DimOK
        <4>2. /\ "dim" \in forgiven'[q] \/ EndsWith(mail'[q], q, "dim", views[q].dim, dim)
              /\ forgiven[q] \subseteq forgiven'[q]
          BY <2>3, <2>4, <3>0, <3>1, SentEnds
        <4> QED
          BY <4>1, <4>2
      <3>2. CASE q # p
        <4>1. "dim" \in forgiven[q] \/ EndsWith(mail[q], q, "dim", views[q].dim, roamers[q].dim)
          BY <3>0, <3>2 DEF DimOK
        <4>2. ~Tells(e, q, "dim")
          BY <2>3, <3>0, <3>2
        <4> QED
          BY <2>3, <2>4, <4>1, <4>2, SentEnds
      <3> QED
        BY <3>1, <3>2
    <2> QED
      BY <2>4, <2>5, <2>6 DEF DimOK, Untold, Here
  <1> QED
    BY <1>1, <1>2, <1>3, <1>4

(* A player comes or goes.                                                 *)
LEMMA VisitsTold ==
    ASSUME PulseOK, PlayersOK, SkyOK, DimOK, NEW p \in Roamers, JoinWorld(p) \/ LeaveWorld(p)
    PROVE  SkyOK' /\ DimOK'
  <1>1. CASE JoinWorld(p)
    <2>1. /\ Here' = Here \cup {p} /\ p \notin Here /\ UNCHANGED <<world, pulse>>
          /\ roamers'[p] = NewRoamer /\ mail'[p] = <<>> /\ views'[p] = [sky |-> "clear", dim |-> "overworld"]
          /\ forgiven'[p] = Unheard(p)
          /\ \A q \in Here : /\ roamers'[q] = roamers[q] /\ mail'[q] = mail[q]
                             /\ views'[q] = views[q] /\ forgiven'[q] = forgiven[q]
      BY <1>1 DEF JoinWorld, Here
    <2>2. /\ "sky" \in Unheard(p) \/ (world.sky = "clear" /\ pulse.sky = "clear")
          /\ Untold(p) => "dim" \in Unheard(p)
      BY DEF Unheard
    <2>3. EndsWith(<<>>, p, "sky", "clear", "clear") /\ EndsWith(<<>>, p, "dim", "overworld", "overworld")
      BY EndsEmpty
    <2>4. NewRoamer.dim = "overworld"
      BY DEF NewRoamer
    <2>5. ASSUME NEW q \in Here'
          PROVE  "sky" \in forgiven'[q] \/
                      IF pulse.at = "tellSky" THEN pulse.sky = world.sky
                      ELSE EndsWith(mail'[q], q, "sky", views'[q].sky, world.sky)
      <3>1. CASE q = p
        BY <2>1, <2>2, <2>3, <3>1
      <3>2. CASE q \in Here
        BY <2>1, <3>2 DEF SkyOK
      <3> QED
        BY <2>1, <3>1, <3>2
    <2>6. ASSUME NEW q \in Here'
          PROVE  "dim" \in forgiven'[q] \/
                      IF Untold(q) THEN roamers'[q].dim = pulse.todo[1][2]
                      ELSE EndsWith(mail'[q], q, "dim", views'[q].dim, roamers'[q].dim)
      <3>1. CASE q = p
        BY <2>1, <2>2, <2>3, <2>4, <3>1
      <3>2. CASE q \in Here
        BY <2>1, <3>2 DEF DimOK
      <3> QED
        BY <2>1, <3>1, <3>2
    <2> QED
      BY <2>1, <2>5, <2>6 DEF SkyOK, DimOK, Untold
  <1>2. CASE LeaveWorld(p)
    <2>1. /\ Here' = Here \ {p} /\ UNCHANGED <<world, pulse>>
          /\ \A q \in Here' : /\ roamers'[q] = roamers[q] /\ mail'[q] = mail[q]
                              /\ views'[q] = views[q] /\ forgiven'[q] = forgiven[q]
      BY <1>2 DEF LeaveWorld, Here
    <2> QED
      BY <2>1, SkyKept, DimKept
  <1> QED
    BY <1>1, <1>2

LEMMA TasksTold ==
    ASSUME PulseOK, PlayersOK, SkyOK, DimOK, NEW p \in Here, PortalSwitch(p) \/ ComeBack(p) \/ HandleMail(p)
    PROVE  SkyOK' /\ DimOK'
  <1>0. /\ roamers \in [Here -> Entry] /\ views \in [Here -> Shows] /\ mail \in [Here -> Seq(Letter)]
        /\ roamers[p] \in Entry /\ views[p] \in Shows /\ mail[p] \in Seq(Letter)
        /\ forgiven \in [Here -> SUBSET {"sky", "dim"}]
    BY EntryFields DEF PlayersOK
  <1>1. CASE PortalSwitch(p)
    <2>1. PICK dim \in Dims : dim = hands[p]
      BY <1>1 DEF PortalSwitch
    <2>2. /\ roamers' = [roamers EXCEPT ![p] = [roamers[p] EXCEPT !.dim = dim, !.spot = "field"]]
          /\ views' = [views EXCEPT ![p] = [views[p] EXCEPT !.dim = dim]]
          /\ UNCHANGED <<world, pulse, mail>>
          /\ forgiven' = IF Underway(p) THEN Excuse({p}, "dim") ELSE [forgiven EXCEPT ![p] = @ \ {"dim"}]
      BY <1>0, <1>1, <2>1 DEF PortalSwitch, Set
    <2>3. /\ Here' = Here
          /\ \A q \in Here : views'[q].sky = views[q].sky
          /\ roamers'[p].dim = dim /\ views'[p].dim = dim
          /\ \A q \in Here \ {p} : roamers'[q] = roamers[q] /\ views'[q] = views[q]
      BY <1>0, <2>2 DEF Here, Entry, Shows
    <2>4. /\ \A q \in Here : "sky" \in forgiven[q] => "sky" \in forgiven'[q]
          /\ \A q \in Here \ {p} : forgiven'[q] = forgiven[q]
          /\ Underway(p) => "dim" \in forgiven'[p]
      BY <1>0, <2>2 DEF Excuse
    <2>5. SkyOK'
      BY <2>2, <2>3, <2>4, SkyKept
    <2>6. ASSUME NEW q \in Here
          PROVE  "dim" \in forgiven'[q] \/
                      IF Untold(q) THEN roamers'[q].dim = pulse.todo[1][2]
                      ELSE EndsWith(mail[q], q, "dim", views'[q].dim, roamers'[q].dim)
      <3>1. CASE q = p /\ ~Underway(p)
        <4>1. \A i \in 1..Len(mail[p]) : i \in DOMAIN mail[p]
          BY <1>0
        <4>2. ~Untold(p) /\ \A i \in 1..Len(mail[p]) : ~Tells(mail[p][i], p, "dim")
          BY <3>1, <4>1 DEF Underway, Waiting, Tells
        <4>3. EndsWith(mail[p], p, "dim", dim, dim)
          BY <1>0, <4>2, EndsAsShown
        <4> QED
          BY <2>3, <3>1, <4>2, <4>3
      <3>2. CASE q = p /\ Underway(p)
        BY <2>4, <3>2
      <3>3. CASE q # p
        BY <2>3, <2>4, <3>3 DEF DimOK
      <3> QED
        BY <3>1, <3>2, <3>3
    <2>7. DimOK'
      BY <2>2, <2>3, <2>6 DEF DimOK, Untold
    <2> QED
      BY <2>5, <2>7
  <1>2. CASE ComeBack(p)
    <2>1. /\ roamers' = [roamers EXCEPT ![p] = [roamers[p] EXCEPT !.hp = Full]]
          /\ views' = [views EXCEPT ![p] = [views[p] EXCEPT !.dim = roamers[p].dim]]
          /\ UNCHANGED <<world, pulse, mail, forgiven>>
      BY <1>0, <1>2 DEF ComeBack, Set, BackIn
    <2>2. /\ Here' = Here
          /\ \A q \in Here : views'[q].sky = views[q].sky
          /\ \A q \in Here : roamers'[q].dim = roamers[q].dim
          /\ views'[p].dim = roamers[p].dim
          /\ \A q \in Here \ {p} : views'[q] = views[q]
      BY <1>0, <2>1 DEF Here, Entry, Shows
    <2>3. SkyOK'
      BY <2>1, <2>2, SkyKept
    <2>4. \A q \in Here : EndsWith(mail[q], q, "dim", views[q].dim, roamers[q].dim)
                          => EndsWith(mail[q], q, "dim", views'[q].dim, roamers[q].dim)
      BY <2>2 DEF EndsWith
    <2>5. DimOK'
      BY <2>1, <2>2, <2>4 DEF DimOK, Untold
    <2> QED
      BY <2>3, <2>5
  <1>3. CASE HandleMail(p)
    <2>0. mail[p] # <<>>
      BY <1>3 DEF HandleMail
    <2>1. PICK e \in Letter : e = mail[p][1]
      BY <2>0, MailTail
    <2>2. /\ views' = [views EXCEPT ![p] = Handle0(views[p], p, e)]
          /\ mail' = [mail EXCEPT ![p] = Tail(mail[p])]
          /\ UNCHANGED <<world, pulse, roamers, forgiven>>
      BY <1>0, <1>3, <2>1 DEF HandleMail
    <2>3. /\ Handle0(views[p], p, e).sky = IF Tells(e, p, "sky") THEN e.now ELSE views[p].sky
          /\ Handle0(views[p], p, e).dim = IF Tells(e, p, "dim") THEN e.now ELSE views[p].dim
      <3>1. PICK v \in Shows : v = views[p]
        BY <1>0
      <3>2. e.what \in {"sky", "dim"}
        BY DEF Letter
      <3>3. CASE ~MeantFor(p, e)
        BY <3>1, <3>3 DEF Handle0, Tells
      <3>4. CASE MeantFor(p, e) /\ e.what = "sky"
        BY <3>1, <3>4 DEF Handle0, Tells, Shows
      <3>5. CASE MeantFor(p, e) /\ e.what = "dim"
        BY <3>1, <3>5 DEF Handle0, Tells, Shows
      <3> QED
        BY <3>2, <3>3, <3>4, <3>5
    <2>4. /\ views'[p] = Handle0(views[p], p, e) /\ mail'[p] = Tail(mail[p])
          /\ \A q \in Here \ {p} : views'[q] = views[q] /\ mail'[q] = mail[q]
      BY <1>0, <2>2
    <2>5. /\ \A v : EndsWith(mail[p], p, "sky", views[p].sky, v) => EndsWith(mail'[p], p, "sky", views'[p].sky, v)
          /\ \A v : EndsWith(mail[p], p, "dim", views[p].dim, v) => EndsWith(mail'[p], p, "dim", views'[p].dim, v)
      BY <1>0, <2>0, <2>1, <2>3, <2>4, EndsTail
    <2>6. SkyOK'
      BY <2>2, <2>4, <2>5 DEF SkyOK, Here
    <2>7. DimOK'
      BY <2>2, <2>4, <2>5 DEF DimOK, Untold, Here
    <2> QED
      BY <2>6, <2>7
  <1> QED
    BY <1>1, <1>2, <1>3

LEMMA CommandsTold ==
    ASSUME PulseOK, PlayersOK, SkyOK, DimOK, WorldCommands
    PROVE  SkyOK' /\ DimOK'
  <1>1. /\ UNCHANGED <<pulse, roamers, hands, mail, views>>
        /\ (world'.sky = world.sky /\ UNCHANGED forgiven) \/ forgiven' = Excuse(Here, "sky")
    BY CommandsStayTyped
  <1>2. Here' = Here /\ \A p \in Here : "dim" \in forgiven[p] => "dim" \in forgiven'[p]
    BY <1>1 DEF Here, Excuse, PlayersOK
  <1>3. DimOK'
    BY <1>1, <1>2, DimKept
  <1>4. CASE world'.sky = world.sky /\ UNCHANGED forgiven
    BY <1>1, <1>2, <1>3, <1>4, SkyKept
  <1>5. CASE forgiven' = Excuse(Here, "sky")
    <2>1. \A p \in Here : "sky" \in forgiven'[p]
      BY <1>5 DEF Excuse, PlayersOK
    <2> QED
      BY <1>2, <1>3, <2>1 DEF SkyOK
  <1> QED
    BY <1>1, <1>4, <1>5

LEMMA WorldStep == WorldInv /\ [WorldNext]_world_vars => WorldInv'
  <1> SUFFICES ASSUME WorldInv, [WorldNext]_world_vars
               PROVE  WorldInv'
    OBVIOUS
  <1>0. PulseOK /\ PlayersOK /\ SkyOK /\ DimOK
    BY DEF WorldInv
  <1>1. PulseOK' /\ PlayersOK'
    BY <1>0, WorldTypesStep
  <1>2. SkyOK' /\ DimOK'
    <2>1. CASE UNCHANGED world_vars
      BY <1>0, <2>1, SkyKept, DimKept DEF world_vars, Here
    <2>2. CASE \/ ReadControl \/ AddTime \/ Strike \/ TickEnvironmentalDamage
               \/ TickPortals \/ PortalsDone \/ CopyPlayers \/ PushBack
      BY <1>0, <2>2, QuietStages, QuietPulse, SkyKept, DimKept
    <2>3. CASE TickWeather \/ TellWeather \/ SwitchEntry \/ BroadcastRespawn
      BY <1>0, <2>3, SkyLoop, DimLoop
    <2>4. CASE WorldCommands
      BY <1>0, <2>4, CommandsTold
    <2>5. ASSUME NEW p \in Roamers, JoinWorld(p) \/ LeaveWorld(p)
          PROVE  SkyOK' /\ DimOK'
      BY <1>0, <2>5, VisitsTold
    <2>6. ASSUME NEW p \in Roamers, Move(p) \/ MoveAndLook(p) \/ PortalRead(p) \/ Sleep(p)
          PROVE  SkyOK' /\ DimOK'
      <3>1. p \in Here
        BY <2>6 DEF Move, MoveAndLook, PortalRead, Sleep, Reached
      <3> QED
        BY <1>0, <2>6, <3>1, QuietTasks, SkyKept, DimKept
    <2>7. ASSUME NEW p \in Roamers, PortalSwitch(p) \/ ComeBack(p) \/ HandleMail(p)
          PROVE  SkyOK' /\ DimOK'
      <3>1. p \in Here
        BY <2>7 DEF PortalSwitch, ComeBack, HandleMail, Reached
      <3> QED
        BY <1>0, <2>7, <3>1, TasksTold
    <2> QED
      BY <2>1, <2>2, <2>3, <2>4, <2>5, <2>6, <2>7 DEF WorldNext, WorldCommands
  <1> QED
    BY <1>1, <1>2 DEF WorldInv

LEMMA WorldStart == WorldInit => WorldInv
  <1> SUFFICES ASSUME WorldInit
               PROVE  WorldInv
    OBVIOUS
  <1>1. Here = {}
    BY DEF WorldInit, Here
  <1>2. PulseOK
    <2>1. 0 \in 0..(Second - 1) /\ <<>> \in Crossings
      BY WorldNumbers DEF Crossings
    <2> QED
      BY <2>1 DEF WorldInit, Idle0, PulseOK, PulseType, PulseStages, Skies
  <1>3. PlayersOK
    <2>1. world \in WorldType
      BY WorldNumbers DEF WorldInit, WorldType, Skies, Rules
    <2> QED
      BY <1>1, <2>1, WorldNumbers DEF WorldInit, PlayersOK
  <1> QED
    BY <1>1, <1>2, <1>3 DEF WorldInv, SkyOK, DimOK

(* Every variable keeps its type: what the server, the tasks and the       *)
(* clients keep of players has one domain, and mail stays within the       *)
(* capacity of the channel.                                                *)
THEOREM WorldTypeCorrect == WorldSpec => []WorldTypeOK
  <1>1. WorldInv => WorldTypeOK
    <2> SUFFICES ASSUME WorldInv
                 PROVE  WorldTypeOK
      OBVIOUS
    <2>1. DOMAIN mail = Here /\ pulse.holds \subseteq Here
      BY DEF WorldInv, PlayersOK, PulseOK
    <2> QED
      BY <2>1 DEF WorldInv, PlayersOK, WorldTypeOK, WorldType, Entry, Shows
  <1> QED
    BY <1>1, WorldStart, WorldStep, PTL DEF WorldSpec

(* A client shows the weather of the world and the dimension of its player *)
(* once its mail is handled, with no other exception than those that       *)
(* `forgiven` names: for any number of players and any capacity of the     *)
(* channel of player states (play_loop.rs, main.rs).                       *)
THEOREM ClientsLearnOfTheWorld == WorldSpec => []WorldTold
  <1>1. WorldInv => WorldTold
    <2> SUFFICES ASSUME WorldInv, NEW p \in Here
                 PROVE  /\ \/ pulse.at = "tellSky" \/ Waiting(p, "sky") \/ "sky" \in forgiven[p]
                           \/ views[p].sky = world.sky
                        /\ \/ Underway(p) \/ "dim" \in forgiven[p]
                           \/ views[p].dim = roamers[p].dim
      BY DEF WorldTold
    <2>1. mail[p] \in Seq(Letter)
      BY EntryFields DEF WorldInv
    <2>2. \A what : ~Waiting(p, what) => \A i \in 1..Len(mail[p]) : ~Tells(mail[p][i], p, what)
      BY <2>1 DEF Waiting, Tells
    <2>3. \A what, shows, v : ~Waiting(p, what) /\ EndsWith(mail[p], p, what, shows, v) => shows = v
      BY <2>2 DEF EndsWith
    <2> QED
      BY <2>3 DEF WorldInv, SkyOK, DimOK, Underway
  <1> QED
    BY <1>1, WorldStart, WorldStep, PTL DEF WorldSpec

-----------------------------------------------------------------------------
(* Mobs: the index by chunk                                                *)

(* An id is listed as often as it was issued, at most, whether or not it   *)
(* is a mob by now; and a mob is listed somewhere.                         *)
ListingOK ==
    /\ \A i \in 1..MobIds : IsFiniteSet(Entries(i)) /\ Cardinality(Entries(i)) <= issued[i]
    /\ \A i \in DOMAIN mobs : Entries(i) # {}
RegistryOK ==
    /\ DOMAIN mobs \subseteq 1..MobIds /\ mobs \in [DOMAIN mobs -> Beast]
    /\ listed \in [Districts -> [1..MobIds -> Nat]] /\ issued \in [1..MobIds -> Nat]
    /\ mobNext \in Nat \ {0}
    /\ ListingOK
(* The spawning stage knows which kinds are still to come.                 *)
SpawningOK ==
    /\ deathFrom \in Nat /\ failed \in [Districts -> 0..Skipped] /\ mobSteps \in 0..MobSteps
    /\ spawner.at = "party" => spawner.comes \in Seq(Kinds)
MobsInv == RegistryOK /\ SpawningOK

LEMMA NewbornIs ==
    ASSUME NEW kind \in Kinds, NEW c \in Districts
    PROVE  Newborn(kind, c) \in Beast
  BY DEF Newborn, Beast

LEMMA TwoFields ==
    ASSUME NEW mob \in Beast, NEW s \in BOOLEAN
    PROVE  [mob EXCEPT !.small = s, !.hp = 1] \in Beast
  <1>1. [mob EXCEPT !.small = s] \in Beast
    BY DEF Beast
  <1>2. PICK b \in Beast : b = [mob EXCEPT !.small = s]
    BY <1>1
  <1>3. [b EXCEPT !.hp = 1] \in Beast
    <2>1. PICK h : h = 1
      OBVIOUS
    <2>2. h \in 0..2
      BY <2>1
    <2>3. [b EXCEPT !.hp = h] \in Beast
      BY <2>2 DEF Beast
    <2> QED
      BY <2>1, <2>3
  <1>4. [mob EXCEPT !.small = s, !.hp = 1] = [b EXCEPT !.hp = 1]
    BY <1>2
  <1> QED
    BY <1>3, <1>4

LEMMA SameEntries ==
    ASSUME listed' = listed
    PROVE  \A i : Entries(i)' = Entries(i)
  BY DEF Entries

LEMMA RegisterKeeps ==
    ASSUME RegistryOK, NEW mob \in Beast, Register(mob)
    PROVE  RegistryOK'
  <1>1. PICK n, c : n = mobNext /\ c = mob.where
    OBVIOUS
  <1>2. n \in 1..MobIds /\ c \in Districts /\ mobNext' = n + 1
    BY <1>1, MobsAssumption DEF RegistryOK, Register, Beast
  <1>3. DOMAIN mobs' = DOMAIN mobs \cup {n} /\ mobs' \in [DOMAIN mobs' -> Beast]
    BY <1>1 DEF RegistryOK, Register
  <1>4. /\ listed' = [listed EXCEPT ![c][n] = @ + 1] /\ issued' = [issued EXCEPT ![n] = @ + 1]
    BY <1>1 DEF Register
  <1>5. /\ listed' \in [Districts -> [1..MobIds -> Nat]] /\ issued' \in [1..MobIds -> Nat]
        /\ issued'[n] = issued[n] + 1 /\ \A i \in 1..MobIds \ {n} : issued'[i] = issued[i]
        /\ listed'[c][n] = listed[c][n] + 1
        /\ \A d \in Districts, i \in 1..MobIds : d # c \/ i # n => listed'[d][i] = listed[d][i]
    <2>1. issued' \in [1..MobIds -> Nat] /\ issued'[n] = issued[n] + 1 /\ \A i \in 1..MobIds \ {n} : issued'[i] = issued[i]
      BY <1>2, <1>4 DEF RegistryOK
    <2>2. listed \in [Districts -> [1..MobIds -> Nat]] /\ listed[c] \in [1..MobIds -> Nat]
      BY <1>2 DEF RegistryOK
    <2>3. [listed[c] EXCEPT ![n] = @ + 1] \in [1..MobIds -> Nat]
      BY <1>2, <2>2
    <2>4. listed' = [listed EXCEPT ![c] = [listed[c] EXCEPT ![n] = @ + 1]]
      BY <1>4
    <2>5. listed' \in [Districts -> [1..MobIds -> Nat]] /\ listed'[c] = [listed[c] EXCEPT ![n] = @ + 1]
          /\ \A d \in Districts \ {c} : listed'[d] = listed[d]
      BY <1>2, <2>2, <2>3, <2>4
    <2>6. listed'[c][n] = listed[c][n] + 1 /\ \A i \in 1..MobIds \ {n} : listed'[c][i] = listed[c][i]
      BY <1>2, <2>2, <2>5
    <2> QED
      BY <1>2, <2>1, <2>5, <2>6
  <1>6. \A i \in 1..MobIds \ {n} : Entries(i)' = Entries(i)
    BY <1>5 DEF Entries
  <1>7. PICK e : e = <<c, listed[c][n] + 1>>
    OBVIOUS
  <1>8. Entries(n)' = Entries(n) \cup {e}
    <2>1. \A d \in Districts : \A k : k \in 1..listed'[d][n] <=> k \in 1..listed[d][n] \/ (d = c /\ k = listed[c][n] + 1)
      <3> SUFFICES ASSUME NEW d \in Districts, NEW k
                   PROVE  k \in 1..listed'[d][n] <=> k \in 1..listed[d][n] \/ (d = c /\ k = listed[c][n] + 1)
        OBVIOUS
      <3>1. listed[d][n] \in Nat
        BY <1>2 DEF RegistryOK
      <3>2. CASE d = c
        BY <1>5, <3>1, <3>2
      <3>3. CASE d # c
        BY <1>2, <1>5, <3>1, <3>3
      <3> QED
        BY <3>2, <3>3
    <2>2. \A x : x \in Entries(n)' <=> \E d \in Districts : \E k \in 1..listed'[d][n] : x = <<d, k>>
      BY DEF Entries
    <2>3. \A x : x \in Entries(n) <=> \E d \in Districts : \E k \in 1..listed[d][n] : x = <<d, k>>
      BY DEF Entries
    <2>4. listed[c][n] + 1 \in 1..listed'[c][n]
      BY <1>2, <2>1
    <2>5. \A x : x \in Entries(n)' <=> x \in Entries(n) \/ x = e
      BY <1>2, <1>7, <2>1, <2>2, <2>3, <2>4
    <2> QED
      BY <2>5
  <1>9. IsFiniteSet(Entries(n)) /\ Cardinality(Entries(n)) <= issued[n] /\ issued[n] \in Nat
    BY <1>2 DEF RegistryOK, ListingOK
  <1>10. IsFiniteSet(Entries(n)') /\ Cardinality(Entries(n)') <= issued'[n]
    <2>1. PICK S : S = Entries(n)
      OBVIOUS
    <2>2. IsFiniteSet(S) /\ Cardinality(S) \in Nat /\ Cardinality(S) <= issued[n]
      BY <1>9, <2>1, FS_CardinalityType
    <2>3. /\ IsFiniteSet(S \cup {e})
          /\ Cardinality(S \cup {e}) = Cardinality(S) \/ Cardinality(S \cup {e}) = Cardinality(S) + 1
      BY <2>2, FS_AddElement
    <2> QED
      BY <1>5, <1>8, <1>9, <2>1, <2>2, <2>3
  <1>11. ListingOK'
    <2>1. \A i \in 1..MobIds : IsFiniteSet(Entries(i))' /\ Cardinality(Entries(i))' <= issued'[i]
      BY <1>5, <1>6, <1>10 DEF RegistryOK, ListingOK
    <2>2. \A i \in DOMAIN mobs' : Entries(i)' # {}
      BY <1>3, <1>6, <1>8 DEF RegistryOK, ListingOK
    <2> QED
      BY <2>1, <2>2 DEF ListingOK
  <1> QED
    BY <1>2, <1>3, <1>5, <1>11 DEF RegistryOK

(* An entry of an id that is no mob any more may stay in another list.     *)
LEMMA RemoveKeeps ==
    ASSUME RegistryOK, NEW i, RemoveMob(i), mobNext' \in Nat \ {0}, issued' = issued
    PROVE  RegistryOK'
  <1>1. DOMAIN mobs' = DOMAIN mobs \ {i} /\ mobs' \in [DOMAIN mobs' -> Beast] /\ DOMAIN mobs' \subseteq 1..MobIds
    BY DEF RegistryOK, RemoveMob
  <1>2. CASE i \notin DOMAIN mobs
    <2>1. listed' = listed /\ DOMAIN mobs' = DOMAIN mobs
      BY <1>1, <1>2 DEF RemoveMob
    <2>2. ListingOK'
      BY <2>1, SameEntries DEF RegistryOK, ListingOK
    <2> QED
      BY <1>1, <2>1, <2>2 DEF RegistryOK
  <1>3. CASE i \in DOMAIN mobs
    <2>1. PICK c : c = mobs[i].where
      OBVIOUS
    <2>2. i \in 1..MobIds /\ c \in Districts /\ listed' = [listed EXCEPT ![c][i] = 0]
      BY <1>3, <2>1 DEF RegistryOK, RemoveMob, Beast
    <2>3. /\ listed' \in [Districts -> [1..MobIds -> Nat]] /\ listed'[c][i] = 0
          /\ \A d \in Districts, j \in 1..MobIds : d # c \/ j # i => listed'[d][j] = listed[d][j]
      BY <2>2 DEF RegistryOK
    <2>4. \A j \in 1..MobIds \ {i} : Entries(j)' = Entries(j)
      BY <2>3 DEF Entries
    <2>5. Entries(i)' \subseteq Entries(i)
      <3>1. \A d \in Districts : 1..listed'[d][i] \subseteq 1..listed[d][i]
        <4> SUFFICES ASSUME NEW d \in Districts PROVE 1..listed'[d][i] \subseteq 1..listed[d][i]
          OBVIOUS
        <4>1. CASE d = c
          BY <2>3, <4>1
        <4>2. CASE d # c
          BY <2>2, <2>3, <4>2
        <4> QED
          BY <4>1, <4>2
      <3> QED
        BY <3>1 DEF Entries
    <2>6. IsFiniteSet(Entries(i)') /\ Cardinality(Entries(i)') <= issued[i]
      <3>1. PICK S, T : S = Entries(i)' /\ T = Entries(i)
        OBVIOUS
      <3>2. IsFiniteSet(T) /\ Cardinality(T) <= issued[i] /\ S \subseteq T /\ issued[i] \in Nat
        BY <2>2, <2>5, <3>1 DEF RegistryOK, ListingOK
      <3>3. IsFiniteSet(S) /\ Cardinality(S) <= Cardinality(T) /\ Cardinality(S) \in Nat /\ Cardinality(T) \in Nat
        BY <3>2, FS_Subset, FS_CardinalityType
      <3> QED
        BY <3>1, <3>2, <3>3
    <2>7. ListingOK'
      <3>1. \A j \in 1..MobIds : IsFiniteSet(Entries(j))' /\ Cardinality(Entries(j))' <= issued'[j]
        BY <2>4, <2>6 DEF RegistryOK, ListingOK
      <3>2. \A j \in DOMAIN mobs' : Entries(j)' # {}
        BY <1>1, <2>4 DEF RegistryOK, ListingOK
      <3> QED
        BY <3>1, <3>2 DEF ListingOK
    <2> QED
      BY <1>1, <2>3, <2>7 DEF RegistryOK
  <1> QED
    BY <1>2, <1>3

LEMMA ChangeKeepsListing ==
    ASSUME RegistryOK, NEW i, i \in DOMAIN mobs, NEW mob \in Beast, Becomes(i, mob), UNCHANGED <<listed, mobNext, issued>>
    PROVE  RegistryOK'
  <1>1. DOMAIN mobs' = DOMAIN mobs /\ mobs' \in [DOMAIN mobs -> Beast]
    BY DEF RegistryOK, Becomes
  <1>2. ListingOK'
    BY <1>1, SameEntries DEF RegistryOK, ListingOK
  <1> QED
    BY <1>1, <1>2 DEF RegistryOK

LEMMA SameRegistry ==
    ASSUME RegistryOK, UNCHANGED <<mobs, listed, issued>>, mobNext' \in Nat \ {0}
    PROVE  RegistryOK'
  BY SameEntries DEF RegistryOK, ListingOK

LEMMA MobsStart ==
    ASSUME MobsInit
    PROVE  MobsInv
  <1>1. PICK k \in FirstKinds, c \in Districts :
            /\ mobs = [i \in {1} |-> Newborn(k, c)]
            /\ listed = [d \in Districts |-> [i \in 1..MobIds |-> IF d = c /\ i = 1 THEN 1 ELSE 0]]
    BY DEF MobsInit
  <1>2. mobNext = 2 /\ issued = [i \in 1..MobIds |-> IF i = 1 THEN 1 ELSE 0] /\ 1 \in 1..MobIds
    BY MobsAssumption DEF MobsInit
  <1>3. Newborn(k, c) \in Beast
    BY <1>1, NewbornIs, MobsAssumption
  <1>4. \A i \in 1..MobIds \ {1} : Entries(i) = {}
    BY <1>1 DEF Entries
  <1>5. Entries(1) = {<<c, 1>>}
    <2>1. \A d \in Districts : \A k1 : k1 \in 1..listed[d][1] <=> d = c /\ k1 = 1
      BY <1>1, <1>2
    <2>2. \A x : x \in Entries(1) <=> \E d \in Districts : \E k1 \in 1..listed[d][1] : x = <<d, k1>>
      BY DEF Entries
    <2> QED
      BY <1>1, <2>1, <2>2
  <1>6. \A i \in 1..MobIds : IsFiniteSet(Entries(i)) /\ Cardinality(Entries(i)) <= issued[i]
    <2>1. ASSUME NEW i \in 1..MobIds PROVE IsFiniteSet(Entries(i)) /\ Cardinality(Entries(i)) <= issued[i]
      <3>1. IsFiniteSet({}) /\ Cardinality({}) = 0
        BY FS_EmptySet
      <3>2. IsFiniteSet({<<c, 1>>}) /\ Cardinality({<<c, 1>>}) = 1
        BY FS_Singleton
      <3>3. CASE i = 1
        <4>1. Entries(i) = {<<c, 1>>} /\ issued[i] = 1
          BY <1>2, <1>5, <3>3
        <4> QED
          BY <3>2, <4>1
      <3>4. CASE i # 1
        BY <1>2, <1>4, <3>1, <3>4
      <3> QED
        BY <3>3, <3>4
    <2> QED
      BY <2>1
  <1>7. ListingOK
    BY <1>1, <1>5, <1>6 DEF ListingOK
  <1>8. RegistryOK
    BY <1>1, <1>2, <1>3, <1>7 DEF RegistryOK
  <1>9. SpawningOK
    BY MobsAssumption DEF MobsInit, SpawningOK, Resting
  <1> QED
    BY <1>8, <1>9 DEF MobsInv

(* What leaves the registry to a lemma and touches the stages little.      *)
LEMMA SpawningKept ==
    ASSUME SpawningOK, deathFrom' \in Nat, UNCHANGED failed, mobSteps' \in 0..MobSteps, UNCHANGED spawner
    PROVE  SpawningOK'
  BY DEF SpawningOK

LEMMA SpawnersKeep ==
    ASSUME MobsInv,
           \/ \E k \in Kinds : BeginSpawning(k)
           \/ \E c \in Districts : SpawnNear(c) \/ SpawnAnimal(c) \/ \E d \in Districts : SpawnOfficial(c, d)
           \/ EndSpawning
    PROVE  MobsInv'
  <1>0. RegistryOK /\ SpawningOK
    BY DEF MobsInv
  <1>1. ASSUME NEW k \in Kinds, BeginSpawning(k) PROVE MobsInv'
    <2>1. RegistryOK'
      BY <1>0, <1>1, SameRegistry DEF BeginSpawning, registry, RegistryOK
    <2>2. SpawningOK'
      BY <1>0, <1>1 DEF BeginSpawning, SpawningOK
    <2> QED
      BY <2>1, <2>2 DEF MobsInv
  <1>2. ASSUME NEW kind, Tries(kind) PROVE spawner'.at = "spawns" /\ UNCHANGED <<deathFrom, mobSteps>>
    BY <1>2 DEF Tries
  <1>3. ASSUME NEW kind \in Kinds, NEW c \in Districts, Register(Newborn(kind, c)) PROVE RegistryOK'
    BY <1>0, <1>3, NewbornIs, RegisterKeeps
  <1>4. ASSUME UNCHANGED registry PROVE RegistryOK'
    BY <1>0, <1>4, SameRegistry DEF registry, RegistryOK
  <1>5. ASSUME NEW c \in Districts, SpawnNear(c) PROVE MobsInv'
    <2>1. RegistryOK'
      BY <1>3, <1>4, <1>5 DEF SpawnNear, Kinds
    <2>2. SpawningOK'
      BY <1>0, <1>2, <1>5 DEF SpawnNear, SpawningOK
    <2> QED
      BY <2>1, <2>2 DEF MobsInv
  <1>6. ASSUME NEW c \in Districts, SpawnAnimal(c) PROVE MobsInv'
    <2>1. RegistryOK'
      BY <1>3, <1>4, <1>6 DEF SpawnAnimal, Kinds
    <2>2. SpawningOK'
      BY <1>0, <1>2, <1>6 DEF SpawnAnimal, SpawningOK
    <2> QED
      BY <2>1, <2>2 DEF MobsInv
  <1>7. ASSUME NEW c \in Districts, NEW d \in Districts, SpawnOfficial(c, d) PROVE MobsInv'
    <2>1. RegistryOK'
      BY <1>3, <1>4, <1>7 DEF SpawnOfficial, Kinds
    <2>2. failed' \in [Districts -> 0..Skipped]
      BY <1>0, <1>7, MobsAssumption DEF SpawnOfficial, SpawningOK
    <2>3. SpawningOK'
      BY <1>0, <1>2, <1>7, <2>2 DEF SpawnOfficial, SpawningOK
    <2> QED
      BY <2>1, <2>3 DEF MobsInv
  <1>8. CASE EndSpawning
    <2>1. RegistryOK'
      BY <1>4, <1>8 DEF EndSpawning
    <2>2. failed' \in [Districts -> 0..Skipped]
      BY <1>0, <1>8, MobsAssumption DEF EndSpawning, SpawningOK
    <2>3. SpawningOK'
      BY <1>0, <1>8, <2>2 DEF EndSpawning, SpawningOK, Resting
    <2> QED
      BY <2>1, <2>3 DEF MobsInv
  <1> QED
    BY <1>1, <1>5, <1>6, <1>7, <1>8

LEMMA PartiesKeep ==
    ASSUME MobsInv,
           \/ \E size \in PartySizes : PatrolComes(size) \/ TraderComes(size)
           \/ \E c \in Districts : PartyMember(c)
           \/ PartyDone
    PROVE  MobsInv'
  <1>0. RegistryOK /\ SpawningOK
    BY DEF MobsInv
  <1>1. ASSUME UNCHANGED registry PROVE RegistryOK'
    BY <1>0, <1>1, SameRegistry DEF registry, RegistryOK
  <1>2. ASSUME NEW party \in Seq(Kinds), PartyComes(party) PROVE MobsInv'
    <2>1. RegistryOK'
      BY <1>1, <1>2 DEF PartyComes
    <2>2. SpawningOK'
      BY <1>0, <1>2, MobsAssumption DEF PartyComes, SpawningOK, Step1
    <2> QED
      BY <2>1, <2>2 DEF MobsInv
  <1>3. ASSUME NEW size \in PartySizes, PatrolComes(size) PROVE MobsInv'
    <2>1. [k \in 1..size |-> "official"] \in Seq(Kinds)
      BY MobsAssumption DEF Kinds
    <2> QED
      BY <1>2, <1>3, <2>1 DEF PatrolComes
  <1>4. ASSUME NEW size \in PartySizes, TraderComes(size) PROVE MobsInv'
    <2>1. [k \in 1..size |-> IF k = 1 THEN "trader" ELSE "animal"] \in Seq(Kinds)
      BY MobsAssumption DEF Kinds
    <2> QED
      BY <1>2, <1>4, <2>1 DEF TraderComes
  <1>5. ASSUME NEW c \in Districts, PartyMember(c) PROVE MobsInv'
    <2>1. PICK q : q = spawner.comes
      OBVIOUS
    <2>2. q \in Seq(Kinds) /\ q # <<>>
      BY <1>0, <1>5, <2>1 DEF PartyMember, SpawningOK
    <2>3. Head(q) \in Kinds /\ Tail(q) \in Seq(Kinds)
      BY <2>2
    <2>4. Register(Newborn(Head(q), c))
      BY <1>5, <2>1 DEF PartyMember
    <2>5. RegistryOK'
      BY <1>0, <2>3, <2>4, NewbornIs, RegisterKeeps
    <2>6. spawner'.at = "party" => spawner'.comes = Tail(q)
      BY <1>5, <2>1 DEF PartyMember
    <2>7. SpawningOK'
      BY <1>0, <1>5, <2>3, <2>6 DEF PartyMember, SpawningOK
    <2> QED
      BY <2>5, <2>7 DEF MobsInv
  <1>6. CASE PartyDone
    <2>1. RegistryOK'
      BY <1>1, <1>6 DEF PartyDone
    <2>2. SpawningOK'
      BY <1>0, <1>6 DEF PartyDone, SpawningOK, Resting
    <2> QED
      BY <2>1, <2>2 DEF MobsInv
  <1> QED
    BY <1>3, <1>4, <1>5, <1>6

LEMMA CreaturesKeep ==
    ASSUME MobsInv,
           \/ DeathLoads \/ \E n \in 1..2 : DeathStores(n)
           \/ \E k \in Kinds, c \in Districts : Arrives(k, c)
           \/ \E i \in DOMAIN mobs, c \in Districts : Moves(i, c)
           \/ \E i \in DOMAIN mobs : KilledByMob(i)
    PROVE  MobsInv'
  <1>0. RegistryOK /\ SpawningOK
    BY DEF MobsInv
  <1>1. ASSUME Step1 PROVE mobSteps' \in 0..MobSteps
    BY <1>0, <1>1, MobsAssumption DEF SpawningOK, Step1
  <1>2. CASE DeathLoads
    <2>1. RegistryOK'
      BY <1>0, <1>2, SameRegistry DEF DeathLoads, registry, RegistryOK
    <2>2. SpawningOK'
      BY <1>0, <1>1, <1>2, SpawningKept DEF DeathLoads, RegistryOK
    <2> QED
      BY <2>1, <2>2 DEF MobsInv
  <1>3. ASSUME NEW n \in 1..2, DeathStores(n) PROVE MobsInv'
    <2>1. mobNext' \in Nat \ {0}
      BY <1>0, <1>3 DEF DeathStores, SpawningOK
    <2>2. RegistryOK'
      BY <1>0, <1>3, <2>1, SameRegistry DEF DeathStores
    <2>3. SpawningOK'
      BY <1>0, <1>3, SpawningKept DEF DeathStores, SpawningOK
    <2> QED
      BY <2>2, <2>3 DEF MobsInv
  <1>4. ASSUME NEW k \in Kinds, NEW c \in Districts, Arrives(k, c) PROVE MobsInv'
    <2>1. RegistryOK'
      BY <1>0, <1>4, NewbornIs, RegisterKeeps DEF Arrives
    <2>2. SpawningOK'
      BY <1>0, <1>1, <1>4, SpawningKept DEF Arrives, SpawningOK
    <2> QED
      BY <2>1, <2>2 DEF MobsInv
  <1>5. ASSUME NEW i \in DOMAIN mobs, NEW c \in Districts, Moves(i, c) PROVE MobsInv'
    <2>0. mobs[i] \in Beast
      BY <1>0 DEF RegistryOK
    <2>1. [mobs[i] EXCEPT !.where = c] \in Beast
      BY <2>0 DEF Beast
    <2>2. RegistryOK'
      BY <1>0, <1>5, <2>1, ChangeKeepsListing DEF Moves
    <2>3. SpawningOK'
      BY <1>0, <1>1, <1>5, SpawningKept DEF Moves, SpawningOK
    <2> QED
      BY <2>2, <2>3 DEF MobsInv
  <1>6. ASSUME NEW i \in DOMAIN mobs, KilledByMob(i) PROVE MobsInv'
    <2>0. mobs[i] \in Beast
      BY <1>0 DEF RegistryOK
    <2>1. [mobs[i] EXCEPT !.hp = 0] \in Beast
      BY <2>0 DEF Beast
    <2>2. RegistryOK'
      BY <1>0, <1>6, <2>1, ChangeKeepsListing DEF KilledByMob
    <2>3. SpawningOK'
      BY <1>0, <1>1, <1>6, SpawningKept DEF KilledByMob, SpawningOK
    <2> QED
      BY <2>2, <2>3 DEF MobsInv
  <1> QED
    BY <1>2, <1>3, <1>4, <1>5, <1>6

(* What a player does to one mob that stays a mob.                         *)
LEMMA HandsKeep ==
    ASSUME MobsInv, NEW p \in Keepers, NEW i, i \in DOMAIN mobs,
           \/ \E a \in 0..1 : AttackMob(p, i, a)
           \/ ToggleSitting(p, i) \/ Feed(p, i)
           \/ \E b \in {"tnt", "wood"} : Absorb(p, i, b)
           \/ ShearCube(p, i) \/ Slimeball(p, i)
    PROVE  MobsInv'
  <1>0. RegistryOK /\ SpawningOK /\ mobs[i] \in Beast
    BY DEF MobsInv, RegistryOK
  <1>1. SUFFICES \E mob \in Beast : /\ Becomes(i, mob) /\ Begins(p, i)
                                    /\ UNCHANGED <<listed, mobNext, issued, deathFrom, spawner, failed>>
    <2>1. PICK mob \in Beast : /\ Becomes(i, mob) /\ Begins(p, i)
                               /\ UNCHANGED <<listed, mobNext, issued, deathFrom, spawner, failed>>
      BY <1>1
    <2>2. RegistryOK'
      BY <1>0, <2>1, ChangeKeepsListing
    <2>3. SpawningOK'
      BY <1>0, <2>1, MobsAssumption DEF SpawningOK, Begins, Step1
    <2> QED
      BY <2>2, <2>3 DEF MobsInv
  <1>2. ASSUME NEW a \in 0..1, AttackMob(p, i, a)
        PROVE  \E mob \in Beast : /\ Becomes(i, mob) /\ Begins(p, i)
                                  /\ UNCHANGED <<listed, mobNext, issued, deathFrom, spawner, failed>>
    <2>1. PICK left : left = IF mobs[i].hp > a THEN mobs[i].hp - a ELSE 0
      OBVIOUS
    <2>2. left \in 0..2
      BY <1>0, <2>1 DEF Beast
    <2>3. [mobs[i] EXCEPT !.hp = left] \in Beast
      BY <1>0, <2>2 DEF Beast
    <2> QED
      BY <1>2, <2>1, <2>3 DEF AttackMob
  <1>3. ASSUME ToggleSitting(p, i)
        PROVE  \E mob \in Beast : /\ Becomes(i, mob) /\ Begins(p, i)
                                  /\ UNCHANGED <<listed, mobNext, issued, deathFrom, spawner, failed>>
    <2>1. [mobs[i] EXCEPT !.sits = ~@] \in Beast
      BY <1>0 DEF Beast
    <2> QED
      BY <1>3, <2>1 DEF ToggleSitting
  <1>4. ASSUME Feed(p, i)
        PROVE  \E mob \in Beast : /\ Becomes(i, mob) /\ Begins(p, i)
                                  /\ UNCHANGED <<listed, mobNext, issued, deathFrom, spawner, failed>>
    <2>1. [mobs[i] EXCEPT !.love = ~mobs[i].rests] \in Beast
      BY <1>0 DEF Beast
    <2> QED
      BY <1>4, <2>1 DEF Feed
  <1>5. ASSUME NEW mob \in Beast, OnCube(p, i, mob)
        PROVE  /\ Becomes(i, mob) /\ Begins(p, i)
               /\ UNCHANGED <<listed, mobNext, issued, deathFrom, spawner, failed>>
    BY <1>5 DEF OnCube
  <1>6. ASSUME NEW b \in {"tnt", "wood"}, Absorb(p, i, b) PROVE \E mob \in Beast : OnCube(p, i, mob)
    <2>1. [mobs[i] EXCEPT !.holds = b] \in Beast
      BY <1>0 DEF Beast
    <2> QED
      BY <1>6, <2>1 DEF Absorb
  <1>7. ASSUME ShearCube(p, i) PROVE \E mob \in Beast : OnCube(p, i, mob)
    <2>1. [mobs[i] EXCEPT !.holds = "nothing"] \in Beast
      BY <1>0 DEF Beast
    <2> QED
      BY <1>7, <2>1 DEF ShearCube
  <1>8. ASSUME Slimeball(p, i) PROVE \E mob \in Beast : OnCube(p, i, mob)
    <2>1. [mobs[i] EXCEPT !.small = FALSE, !.hp = 1] \in Beast
      BY <1>0, TwoFields
    <2> QED
      BY <1>8, <2>1 DEF Slimeball
  <1> QED
    BY <1>2, <1>3, <1>4, <1>5, <1>6, <1>7, <1>8

LEMMA PlayersKeep ==
    ASSUME MobsInv, NEW p \in Keepers,
           \/ \E i \in DOMAIN mobs : ReadsUntamed(p, i) \/ Bucket(p, i) \/ \E c \in Districts : Breed(p, i, c)
           \/ \E c \in Districts : SpawnSmall(p, c)
           \/ Kill(p) \/ SetTamed(p) \/ NoMate(p) \/ RestParents(p)
    PROVE  MobsInv'
  <1>0. RegistryOK /\ SpawningOK
    BY DEF MobsInv
  <1>1. ASSUME NEW i \in DOMAIN mobs, ReadsUntamed(p, i) PROVE MobsInv'
    <2>1. RegistryOK'
      BY <1>0, <1>1, SameRegistry DEF ReadsUntamed, registry, RegistryOK
    <2>2. SpawningOK'
      BY <1>0, <1>1, MobsAssumption DEF SpawningOK, ReadsUntamed, Begins, Step1
    <2> QED
      BY <2>1, <2>2 DEF MobsInv
  <1>2. ASSUME NEW i \in DOMAIN mobs, Bucket(p, i) PROVE MobsInv'
    <2>1. RegistryOK'
      BY <1>0, <1>2, RemoveKeeps DEF Bucket, RegistryOK
    <2>2. SpawningOK'
      BY <1>0, <1>2, MobsAssumption DEF SpawningOK, Bucket, Begins, Step1
    <2> QED
      BY <2>1, <2>2 DEF MobsInv
  <1>3. ASSUME NEW j \in DOMAIN mobs, NEW c \in Districts, Breed(p, j, c) PROVE MobsInv'
    <2>0. Newborn("animal", c) \in Beast
      BY NewbornIs DEF Kinds
    <2>1. [Newborn("animal", c) EXCEPT !.baby = TRUE] \in Beast
      BY <2>0 DEF Beast
    <2>2. RegistryOK'
      BY <1>0, <1>3, <2>1, RegisterKeeps DEF Breed
    <2>3. SpawningOK'
      BY <1>0, <1>3, SpawningKept DEF SpawningOK, Breed
    <2> QED
      BY <2>2, <2>3 DEF MobsInv
  <1>4. ASSUME NEW c \in Districts, SpawnSmall(p, c) PROVE MobsInv'
    <2>0. Newborn("cube", c) \in Beast
      BY NewbornIs DEF Kinds
    <2>1. [Newborn("cube", c) EXCEPT !.small = TRUE, !.hp = 1] \in Beast
      BY <2>0, TwoFields
    <2>2. RegistryOK'
      BY <1>0, <1>4, <2>1, RegisterKeeps DEF SpawnSmall
    <2>3. SpawningOK'
      BY <1>0, <1>4, SpawningKept DEF SpawningOK, SpawnSmall
    <2> QED
      BY <2>2, <2>3 DEF MobsInv
  <1>5. CASE Kill(p)
    <2>1. mobNext' \in Nat \ {0}
      BY <1>0, <1>5 DEF Kill, RegistryOK
    <2>2. PICK i : RemoveMob(i)
      BY <1>5 DEF Kill
    <2>3. RegistryOK'
      BY <1>0, <1>5, <2>1, <2>2, RemoveKeeps DEF Kill
    <2>4. SpawningOK'
      BY <1>0, <1>5, SpawningKept DEF SpawningOK, Kill
    <2> QED
      BY <2>3, <2>4 DEF MobsInv
  <1>6. CASE SetTamed(p)
    <2>1. RegistryOK'
      <3>1. PICK i : i = keeper[p].id
        OBVIOUS
      <3>2. CASE i \in DOMAIN mobs
        <4>1. [mobs[i] EXCEPT !.owner = p] \in Beast
          <5>1. PICK m \in Beast : m = mobs[i]
            BY <1>0, <3>2 DEF RegistryOK
          <5>2. [m EXCEPT !.owner = p] \in Beast
            BY DEF Beast
          <5> QED
            BY <5>1, <5>2
        <4> QED
          BY <1>0, <1>6, <3>1, <3>2, <4>1, ChangeKeepsListing DEF SetTamed
      <3>3. CASE i \notin DOMAIN mobs
        BY <1>0, <1>6, <3>1, <3>3, SameRegistry DEF SetTamed, RegistryOK
      <3> QED
        BY <3>2, <3>3
    <2>2. SpawningOK'
      BY <1>0, <1>6, SpawningKept DEF SpawningOK, SetTamed
    <2> QED
      BY <2>1, <2>2 DEF MobsInv
  <1>7. CASE NoMate(p)
    <2>1. RegistryOK'
      BY <1>0, <1>7, SameRegistry DEF NoMate, registry, RegistryOK
    <2>2. SpawningOK'
      BY <1>0, <1>7, SpawningKept DEF SpawningOK, NoMate
    <2> QED
      BY <2>1, <2>2 DEF MobsInv
  <1>8. CASE RestParents(p)
    <2>1. \A i \in DOMAIN mobs : [mobs[i] EXCEPT !.love = FALSE, !.rests = TRUE] \in Beast /\ mobs[i] \in Beast
      BY <1>0 DEF RegistryOK, Beast
    <2>2. DOMAIN mobs' = DOMAIN mobs /\ mobs' \in [DOMAIN mobs -> Beast]
      BY <1>8, <2>1 DEF RestParents
    <2>3. UNCHANGED <<listed, issued, mobNext>>
      BY <1>8 DEF RestParents
    <2>4. RegistryOK'
      BY <1>0, <2>2, <2>3, SameEntries DEF RegistryOK, ListingOK
    <2>5. SpawningOK'
      BY <1>0, <1>8, SpawningKept DEF SpawningOK, RestParents
    <2> QED
      BY <2>4, <2>5 DEF MobsInv
  <1> QED
    BY <1>1, <1>2, <1>3, <1>4, <1>5, <1>6, <1>7, <1>8

LEMMA MobsStep ==
    ASSUME MobsInv, [MobsNext]_mobs_vars
    PROVE  MobsInv'
  <1>1. CASE UNCHANGED mobs_vars
    <2>1. RegistryOK'
      BY <1>1, SameRegistry DEF mobs_vars, MobsInv, RegistryOK
    <2>2. SpawningOK'
      BY <1>1 DEF mobs_vars, MobsInv, SpawningOK
    <2> QED
      BY <2>1, <2>2 DEF MobsInv
  <1>2. CASE MobsNext
    BY <1>2, SpawnersKeep, PartiesKeep, CreaturesKeep, HandsKeep, PlayersKeep DEF MobsNext
  <1> QED
    BY <1>1, <1>2

(* Every variable of the mobs keeps its type, whatever the caps, the ids   *)
(* and the number of players (mob.rs).                                     *)
THEOREM MobsTypeCorrect == MobsSpec => []MobsTypeOK
  <1>1. MobsInv => MobsTypeOK
    BY DEF MobsInv, RegistryOK, SpawningOK, MobsTypeOK
  <1> QED
    BY <1>1, MobsStart, MobsStep, PTL DEF MobsSpec

(* Whoever registers, moves and removes mobs in whatever order, a mob is   *)
(* in the index by chunk, and not more often than its id was issued: also  *)
(* where a death of a player made the counter go back (mob.rs).            *)
THEOREM MobsAreListed == MobsSpec => []TrackedListed
  <1>1. MobsInv => TrackedListed
    BY DEF MobsInv, RegistryOK, ListingOK, TrackedListed
  <1> QED
    BY <1>1, MobsStart, MobsStep, PTL DEF MobsSpec

-----------------------------------------------------------------------------
(* Experience: the total and the level.  add_xp finds the level whose cost *)
(* the total pays, as the cost of a level grows without end;               *)
(* remove_xp_levels asks, up to level 16, what the level had cost.         *)
Sums(g, C) == g = [l \in Nat |-> IF l = 0 THEN 0 ELSE g[l - 1] + C[l]]

LEMMA CostsExist ==
    ASSUME NEW C \in [Nat -> Int]
    PROVE  /\ \E f : Sums(f, C)
           /\ \A g : Sums(g, C) => /\ g \in [Nat -> Int] /\ g[0] = 0
                                  /\ \A l \in Nat \ {0} : g[l] = g[l - 1] + C[l]
<1> DEFINE G == [k \in Nat |-> [v \in Int |-> v + C[k]]]
<1>1. G \in [Nat -> [Int -> Int]]
  OBVIOUS
<1>2. PICK f \in [Nat -> Int] : \A n \in Nat : Runs(f, G, 0, n)
  <2> HIDE DEF G
  <2>1. PICK H, V, b : H = G /\ V = Int /\ b = 0
    OBVIOUS
  <2>2. b \in V /\ H \in [Nat -> [V -> V]]
    BY <1>1, <2>1
  <2>3. \E f \in [Nat -> V] : \A n \in Nat : Runs(f, H, b, n)
    BY <2>2, RecursionExists
  <2> QED BY <2>1, <2>3
<1>3. \A l \in Nat : f[l] = IF l = 0 THEN 0 ELSE f[l - 1] + C[l]
  <2> SUFFICES ASSUME NEW l \in Nat PROVE f[l] = IF l = 0 THEN 0 ELSE f[l - 1] + C[l]
    OBVIOUS
  <2>1. CASE l = 0
    BY <1>2, <2>1 DEF Runs
  <2>2. CASE l # 0
    <3>1. l \in 1..l /\ l - 1 \in Nat
      BY <2>2
    <3>2. f[l] = G[l][f[l - 1]]
      BY <1>2, <3>1 DEF Runs
    <3> QED BY <1>2, <2>2, <3>1, <3>2
  <2> QED BY <2>1, <2>2
<1>4. Sums(f, C)
  BY <1>2, <1>3 DEF Sums
<1>5. ASSUME NEW g, Sums(g, C) PROVE \A l \in Nat : g[l] = f[l]
  <2> DEFINE Bad == {k \in Nat : g[k] # f[k]}
  <2>0. \A l \in Nat : g[l] = IF l = 0 THEN 0 ELSE g[l - 1] + C[l]
    BY <1>5 DEF Sums
  <2>1. ASSUME NEW k \in Bad PROVE \E m \in Bad : m < k
    <3>1. k # 0 /\ k - 1 \in Nat
      BY <1>3, <2>0
    <3>2. g[k] = g[k - 1] + C[k] /\ f[k] = f[k - 1] + C[k]
      BY <1>3, <2>0, <3>1
    <3> QED BY <3>1, <3>2
  <2>2. Bad = {}
    <3>1. Bad \in SUBSET Nat
      OBVIOUS
    <3> HIDE DEF Bad
    <3> QED BY <2>1, <3>1, NoneBad
  <2> QED BY <2>2
<1>6. ASSUME NEW g, Sums(g, C) PROVE g = f
  <2>1. DOMAIN g = Nat /\ g = [l \in Nat |-> g[l]]
    BY <1>6 DEF Sums
  <2> QED BY <1>2, <1>5, <1>6, <2>1
<1>7. f[0] = 0 /\ \A l \in Nat \ {0} : f[l] = f[l - 1] + C[l]
  BY <1>3
<1> QED BY <1>2, <1>4, <1>6, <1>7

LEMMA CostsAdd ==
    /\ TotalAt \in [Nat -> Int] /\ TotalAt[0] = 0
    /\ \A l \in Nat \ {0} : TotalAt[l] = TotalAt[l - 1] + CostOf(l - 1)
<1>1. PICK C \in [Nat -> Int] : \A l \in Nat : C[l] = CostOf(l - 1)
  <2>1. [l \in Nat |-> CostOf(l - 1)] \in [Nat -> Int]
    BY DEF CostOf
  <2> QED BY <2>1
<1> DEFINE Eq(g) == g = [l \in Nat |-> IF l = 0 THEN 0 ELSE g[l - 1] + CostOf(l - 1)]
<1>2. \A g : Sums(g, C) <=> Eq(g)
  BY <1>1 DEF Sums
<1>3. Sums(TotalAt, C)
  <2>1. TotalAt = CHOOSE g : Eq(g)
    BY DEF TotalAt
  <2> HIDE DEF Eq
  <2> QED BY <1>2, <2>1, CostsExist
<1> QED BY <1>1, <1>3, CostsExist

LEMMA PricesAdd ==
    /\ PriceTo \in [Nat -> Int] /\ PriceTo[0] = 0
    /\ \A l \in Nat \ {0} : PriceTo[l] = PriceTo[l - 1] + PriceOf(l)
<1>1. PICK C \in [Nat -> Int] : \A l \in Nat : C[l] = PriceOf(l)
  <2>1. [l \in Nat |-> PriceOf(l)] \in [Nat -> Int]
    BY DEF PriceOf
  <2> QED BY <2>1
<1> DEFINE Eq(g) == g = [l \in Nat |-> IF l = 0 THEN 0 ELSE g[l - 1] + PriceOf(l)]
<1>2. \A g : Sums(g, C) <=> Eq(g)
  BY <1>1 DEF Sums
<1>3. Sums(PriceTo, C)
  <2>1. PriceTo = CHOOSE g : Eq(g)
    BY DEF PriceTo
  <2> HIDE DEF Eq
  <2> QED BY <1>2, <2>1, CostsExist
<1> QED BY <1>1, <1>3, CostsExist

(* A level costs seven points at least.                                    *)
LEMMA TotalsGrow == \A l \in Nat : TotalAt[l] >= l
<1> DEFINE Bad == {k \in Nat : ~(TotalAt[k] >= k)}
<1>1. ASSUME NEW k \in Bad PROVE \E m \in Bad : m < k
  <2>1. k # 0 /\ k - 1 \in Nat
    BY CostsAdd
  <2>2. TotalAt[k] = TotalAt[k - 1] + CostOf(k - 1) /\ TotalAt[k - 1] \in Int /\ TotalAt[k] \in Int
    BY <2>1, CostsAdd
  <2>3. CostOf(k - 1) >= 1 /\ CostOf(k - 1) \in Int
    BY <2>1 DEF CostOf
  <2>4. ~(TotalAt[k - 1] >= k - 1)
    BY <2>1, <2>2, <2>3
  <2> QED BY <2>1, <2>4
<1>2. Bad = {}
  <2>1. Bad \in SUBSET Nat
    OBVIOUS
  <2> HIDE DEF Bad
  <2> QED BY <1>1, <2>1, NoneBad
<1> QED BY <1>2

LEMMA LevelPaid ==
    ASSUME NEW total \in Int
    PROVE  LevelOf(total) \in Nat /\ (LevelOf(total) = 0 \/ TotalAt[LevelOf(total)] <= total)
<1> DEFINE top == IF total > 0 THEN total ELSE 0
           Bad == {l \in Nat : TotalAt[l + 1] > total}
           Suits(l) == TotalAt[l + 1] > total /\ (l = 0 \/ TotalAt[l] <= total)
<1>1. top \in Bad
  <2>1. top \in Nat /\ top + 1 \in Nat /\ top + 1 > total
    OBVIOUS
  <2>2. TotalAt[top + 1] >= top + 1 /\ TotalAt[top + 1] \in Int
    BY <2>1, TotalsGrow, CostsAdd
  <2> QED BY <2>1, <2>2
<1>2. PICK l \in Bad : \A m \in Bad : ~(m < l)
  <2>1. Bad \in SUBSET Nat /\ Bad # {}
    BY <1>1
  <2> HIDE DEF Bad
  <2> QED BY <2>1, NoneBad
<1>3. l \in 0..top
  BY <1>1, <1>2
<1>4. Suits(l)
  <2>1. CASE l = 0
    BY <1>2, <2>1
  <2>2. CASE l # 0
    <3>1. l - 1 \in Nat /\ l - 1 < l /\ (l - 1) + 1 = l /\ TotalAt[l] \in Int
      BY <1>2, <2>2, CostsAdd
    <3>2. l - 1 \notin Bad
      BY <1>2, <3>1
    <3> QED BY <1>2, <3>1, <3>2
  <2> QED BY <2>1, <2>2
<1>5. LevelOf(total) = CHOOSE k \in 0..top : Suits(k)
  BY DEF LevelOf
<1>6. LevelOf(total) \in 0..top /\ Suits(LevelOf(total))
  <2> HIDE DEF Suits, top
  <2> QED BY <1>3, <1>4, <1>5
<1> QED BY <1>6

LEMMA PricesRight == \A l \in 0..16 : PriceTo[l] = TotalAt[l]
<1> DEFINE Bad == {k \in 0..16 : PriceTo[k] # TotalAt[k]}
<1>1. ASSUME NEW k \in Bad PROVE \E m \in Bad : m < k
  <2>1. k # 0
    BY CostsAdd, PricesAdd
  <2>2. k - 1 \in 0..16 /\ k \in Nat \ {0} /\ k - 1 < 16
    BY <2>1
  <2>3. PriceTo[k] = PriceTo[k - 1] + PriceOf(k) /\ TotalAt[k] = TotalAt[k - 1] + CostOf(k - 1)
    BY <2>2, CostsAdd, PricesAdd
  <2>4. PriceOf(k) = CostOf(k - 1)
    BY <2>2 DEF PriceOf, CostOf
  <2> QED BY <2>2, <2>3, <2>4
<1>2. Bad = {}
  <2>1. Bad \in SUBSET Nat
    OBVIOUS
  <2> HIDE DEF Bad
  <2> QED BY <1>1, <2>1, NoneBad
<1> QED BY <1>2

LevelsOK ==
    /\ xpLevel \in Nat /\ xpTotal \in Int /\ overcharged \in BOOLEAN
    /\ PointsForLevel

LEMMA EarnKeeps ==
    ASSUME LevelsOK, NEW amount \in Int, AddXp(amount)
    PROVE  LevelsOK'
<1>1. xpTotal' \in Int
  BY DEF AddXp, LevelsOK
<1>2. PICK total \in Int : total = xpTotal'
  BY <1>1
<1>3. LevelOf(total) \in Nat /\ (LevelOf(total) = 0 \/ TotalAt[LevelOf(total)] <= total)
  BY LevelPaid
<1> QED BY <1>2, <1>3 DEF AddXp, LevelsOK, PointsForLevel

LEMMA PayKeeps ==
    ASSUME LevelsOK, NEW n \in Nat, n <= xpLevel, RemoveLevels(n)
    PROVE  LevelsOK'
<1> DEFINE l == xpLevel
           m == xpLevel - n
           paid == PriceTo[l] - PriceTo[m]
           taken == (xpLevel - n + 1)..xpLevel
<1>1. l \in Nat /\ m \in Nat /\ m <= l /\ xpTotal \in Int
  BY DEF LevelsOK
<1>2. /\ xpLevel' = m /\ xpTotal' = IF xpTotal > paid THEN xpTotal - paid ELSE 0
      /\ overcharged' = (overcharged \/ \E k \in taken : k > 16)
  BY DEF RemoveLevels
<1>3. paid \in Int /\ TotalAt[l] \in Int /\ TotalAt[m] \in Int
  BY <1>1, PricesAdd, CostsAdd
<1>4. overcharged' \in BOOLEAN
  BY <1>2
<1>5. ASSUME m # 0, ~overcharged' PROVE TotalAt[m] <= xpTotal'
  <2>1. ~overcharged /\ \A k \in taken : k <= 16
    <3>1. ~overcharged /\ ~ \E k \in taken : k > 16
      <4> HIDE DEF taken
      <4> QED BY <1>2, <1>5, Zenon
    <3>2. \A k \in taken : k \in Int
      BY <1>1
    <3> QED BY <3>1, <3>2
  <2>2. TotalAt[l] <= xpTotal
    BY <1>1, <1>5, <2>1 DEF LevelsOK, PointsForLevel
  <2>3. paid = TotalAt[l] - TotalAt[m]
    <3>1. CASE n = 0
      BY <1>1, <1>3, <3>1, PricesAdd
    <3>2. CASE n # 0
      <4>1. l \in taken
        BY <1>1, <3>2
      <4>2. l \in 0..16 /\ m \in 0..16
        BY <1>1, <2>1, <4>1
      <4>3. PriceTo[l] = TotalAt[l] /\ PriceTo[m] = TotalAt[m]
        BY <4>2, PricesRight
      <4> QED BY <4>3
    <3> QED BY <3>1, <3>2
  <2> HIDE DEF paid, l, m
  <2>4. TotalAt[m] <= xpTotal - paid
    BY <1>1, <1>3, <2>2, <2>3
  <2>5. CASE xpTotal > paid
    BY <1>2, <2>4, <2>5
  <2>6. CASE ~(xpTotal > paid)
    BY <1>1, <1>2, <1>3, <2>4, <2>6
  <2> QED BY <2>5, <2>6
<1>6. xpTotal' \in Int
  BY <1>1, <1>2, <1>3
<1> QED BY <1>1, <1>2, <1>4, <1>5, <1>6 DEF LevelsOK, PointsForLevel

ExperienceInv ==
    /\ LevelsOK /\ xpSteps \in 0..XpSteps
    /\ \A i \in 0..3 : table[i] \in TableStacks
    /\ featsDone \subseteq Feats /\ granted \subseteq DOMAIN FeatParent

LEMMA ExperienceStart == ExperienceInit => ExperienceInv /\ ParentsFirst
<1> SUFFICES ASSUME ExperienceInit PROVE ExperienceInv /\ ParentsFirst
  OBVIOUS
<1>1. xpSteps \in 0..XpSteps /\ \A i \in 0..3 : table[i] \in TableStacks
  BY ExperienceAssumption DEF ExperienceInit
<1>2. LevelsOK
  <2>1. xpLevel = 0 /\ xpTotal = 0 /\ overcharged = FALSE
    BY DEF ExperienceInit
  <2>2. overcharged \in BOOLEAN /\ PointsForLevel
    BY <2>1, Zenon DEF PointsForLevel
  <2> QED BY <2>1, <2>2 DEF LevelsOK
<1> QED BY <1>1, <1>2 DEF ExperienceInit, ExperienceInv, ParentsFirst

LEMMA MakesType ==
    ASSUME \A i \in 0..3 : table[i] \in TableStacks, NEW result \in TableStacks, NEW at, NEW used, Makes(result, at, used)
    PROVE  \A i \in 0..3 : table'[i] \in TableStacks
<1>1. None0 \in TableStacks
  BY DEF None0, TableStacks
<1> QED BY <1>1 DEF Makes

LEMMA ExperienceStep == ExperienceInv /\ [ExperienceNext]_experience_vars => ExperienceInv'
<1> SUFFICES ASSUME ExperienceInv, [ExperienceNext]_experience_vars PROVE ExperienceInv'
  OBVIOUS
<1>1. /\ LevelsOK /\ xpSteps \in 0..XpSteps /\ XpSteps \in Nat
      /\ \A i \in 0..3 : table[i] \in TableStacks
      /\ featsDone \subseteq Feats /\ granted \subseteq DOMAIN FeatParent
  BY ExperienceAssumption DEF ExperienceInv
<1>2. ASSUME LevelsOK', xpSteps' \in 0..XpSteps,
             \A i \in 0..3 : table'[i] \in TableStacks,
             featsDone' \subseteq Feats /\ granted' \subseteq DOMAIN FeatParent
      PROVE  ExperienceInv'
  BY <1>2 DEF ExperienceInv
<1>3. XpStep => xpSteps' \in 0..XpSteps
  BY <1>1 DEF XpStep
<1>4. UNCHANGED levels => LevelsOK'
  BY <1>1 DEF levels, LevelsOK, PointsForLevel
<1>5. table[0] \in TableStacks /\ table[1] \in TableStacks /\ table[0].lore \in Nat /\ table[1].lore \in Nat
      /\ \A k \in Nat : [table[0] EXCEPT !.lore = k] \in TableStacks
  BY <1>1 DEF TableStacks
<1>6. UNCHANGED table => \A i \in 0..3 : table'[i] \in TableStacks
  BY <1>1
<1>7. UNCHANGED feats => featsDone' \subseteq Feats /\ granted' \subseteq DOMAIN FeatParent
  BY <1>1 DEF feats
<1>8. CASE UNCHANGED experience_vars
  BY <1>1, <1>2, <1>4, <1>6, <1>7, <1>8 DEF experience_vars, levels, feats
<1>9. ASSUME NEW n \in Int, XpStep, AddXp(n), UNCHANGED <<table, feats>> PROVE ExperienceInv'
  <2>1. LevelsOK'
    BY <1>1, <1>9, EarnKeeps
  <2> QED BY <1>2, <1>3, <1>6, <1>7, <1>9, <2>1
<1>10. ASSUME NEW l \in XpLevels, XpSet(l) PROVE ExperienceInv'
  <2>1. l \in Nat /\ TotalAt[l] \in Int
    BY ExperienceAssumption, CostsAdd
  <2>2. LevelsOK'
    <3>1. xpLevel' = l /\ xpTotal' = TotalAt[l] /\ overcharged' = FALSE
      BY <1>10 DEF XpSet
    <3>2. TotalAt[xpLevel'] <= xpTotal'
      BY <2>1, <3>1
    <3>3. overcharged' \in BOOLEAN
      BY <3>1, Zenon
    <3> QED BY <2>1, <3>1, <3>2, <3>3 DEF LevelsOK, PointsForLevel
  <2> QED BY <1>2, <1>3, <1>6, <1>7, <1>10, <2>2 DEF XpSet
<1>11. ASSUME NEW cost \in Nat, Pays(cost) PROVE LevelsOK'
  BY <1>1, <1>11, PayKeeps DEF Pays, LevelsOK
<1>12. ASSUME NEW cost \in 1..12, NEW lore \in {1, 3}, Enchant(cost, lore) PROVE ExperienceInv'
  <2>1. [table[0] EXCEPT !.lore = lore] \in TableStacks
    BY <1>5
  <2>2. \A i \in 0..3 : table'[i] \in TableStacks
    BY <1>1, <1>12, <2>1, MakesType DEF Enchant
  <2>3. LevelsOK'
    BY <1>11, <1>12 DEF Enchant
  <2> QED BY <1>2, <1>3, <1>7, <1>12, <2>2, <2>3 DEF Enchant
<1>13. ASSUME NEW extra \in 0..4, Forge(extra) PROVE ExperienceInv'
  <2>1. [table[0] EXCEPT !.lore = @ + extra] \in TableStacks
    BY <1>5
  <2>2. \A i \in 0..3 : table'[i] \in TableStacks
    BY <1>1, <1>13, <2>1, MakesType DEF Forge
  <2>3. 1 + extra \in Nat
    OBVIOUS
  <2>4. LevelsOK'
    BY <1>11, <1>13, <2>3 DEF Forge
  <2> QED BY <1>2, <1>3, <1>7, <1>13, <2>2, <2>4 DEF Forge
<1>14. CASE Grind
  <2>1. \A i \in 0..3 : table'[i] \in TableStacks
    BY <1>1, <1>5, <1>14, MakesType DEF Grind
  <2>2. PICK n \in Int : n = table[0].lore
    BY <1>5
  <2>3. LevelsOK'
    BY <1>1, <1>14, <2>2, EarnKeeps DEF Grind
  <2> QED BY <1>2, <1>3, <1>7, <1>14, <2>1, <2>3 DEF Grind
<1>15. CASE PayBeacon
  <2>1. None0 \in TableStacks
    BY DEF None0, TableStacks
  <2>2. \A i \in 0..3 : table'[i] \in TableStacks
    BY <1>1, <1>15, <2>1, MakesType DEF PayBeacon
  <2> QED BY <1>2, <1>3, <1>4, <1>7, <1>15, <2>2 DEF PayBeacon
<1>16. CASE Smith
  <2>1. \A i \in 0..3 : table'[i] \in TableStacks
    BY <1>1, <1>5, <1>16, MakesType DEF Smith
  <2> QED BY <1>2, <1>3, <1>4, <1>7, <1>16, <2>1 DEF Smith
<1>17. CASE Trim
  <2>1. \A i \in 0..3 : table'[i] \in TableStacks
    BY <1>1, <1>5, <1>17, MakesType DEF Trim
  <2> QED BY <1>2, <1>3, <1>4, <1>7, <1>17, <2>1 DEF Trim
<1>18. ASSUME NEW at \in {2, 3}, Copy(at) PROVE ExperienceInv'
  <2>1. \A i \in 0..3 : table'[i] \in TableStacks
    BY <1>1, <1>5, <1>18, MakesType DEF Copy
  <2> QED BY <1>2, <1>3, <1>4, <1>7, <1>18, <2>1 DEF Copy
<1>19. ASSUME NEW t \in Laid, LayHeld(t[0]) PROVE ExperienceInv'
  <2>1. t[0] \in TableStacks
    BY ExperienceAssumption
  <2>2. \A i \in 0..3 : table'[i] \in TableStacks
    BY <1>1, <1>19, <2>1, MakesType DEF LayHeld
  <2> QED BY <1>2, <1>3, <1>4, <1>7, <1>19, <2>2 DEF LayHeld
<1>20. ASSUME NEW c \in Feats, CheckCriterion(c) PROVE ExperienceInv'
  <2>1. featsDone' \subseteq Feats
    BY <1>1, <1>20 DEF CheckCriterion
  <2>2. granted' \subseteq DOMAIN FeatParent
    BY <1>1, <1>20, ExperienceAssumption DEF CheckCriterion, Met
  <2> QED BY <1>2, <1>3, <1>4, <1>6, <1>20, <2>1, <2>2 DEF CheckCriterion
<1>21. CASE ExperienceNext
  <2>1. CASE \E n \in 3..7 : AbsorbOrb(n)
    BY <1>9, <2>1 DEF AbsorbOrb
  <2>2. CASE \E n \in XpGains : XpAdd(n)
    BY <1>9, <2>2, ExperienceAssumption DEF XpAdd
  <2> QED BY <1>10, <1>12, <1>13, <1>14, <1>15, <1>16, <1>17, <1>18, <1>19, <1>20, <1>21, <2>1, <2>2 DEF ExperienceNext
<1> QED BY <1>8, <1>21

LEMMA ParentsStep == ParentsFirst /\ [ExperienceNext]_experience_vars => ParentsFirst'
<1> SUFFICES ASSUME ParentsFirst, [ExperienceNext]_experience_vars PROVE ParentsFirst'
  OBVIOUS
<1>1. CASE UNCHANGED granted
  BY <1>1 DEF ParentsFirst
<1>2. ASSUME NEW c \in Feats, CheckCriterion(c) PROVE ParentsFirst'
  <2>1. PICK new : granted' = granted \cup new /\ \A a \in new : Follows0(a, granted \cup new)
    BY <1>2 DEF CheckCriterion
  <2> QED BY <2>1 DEF ParentsFirst, Follows0
<1>3. UNCHANGED granted \/ \E c \in Feats : CheckCriterion(c)
  BY DEF experience_vars, feats, ExperienceNext, AbsorbOrb, XpAdd, XpSet, Enchant, Forge, Grind, PayBeacon, Smith,
         Trim, Copy, LayHeld
<1> QED BY <1>1, <1>2, <1>3

(* The level and the total, the four slots of the table and the            *)
(* advancements are what they are declared to be, whatever is gained,      *)
(* spent, enchanted, forged, ground or granted.                            *)
THEOREM ExperienceTypeCorrect == ExperienceSpec => []ExperienceTypeOK
<1>1. ExperienceInv => ExperienceTypeOK
  BY DEF ExperienceInv, LevelsOK, ExperienceTypeOK
<1> QED BY ExperienceStart, ExperienceStep, <1>1, PTL DEF ExperienceSpec

(* The total of a player pays for the level it shows, although add_xp and  *)
(* remove_xp_levels count it with two formulas, as long as no level above  *)
(* 16 has been taken since it was last computed: those are taken at more   *)
(* than they had cost.                                                     *)
THEOREM LevelsPaidFor == ExperienceSpec => []PointsForLevel
<1>1. ExperienceInv => PointsForLevel
  BY DEF ExperienceInv, LevelsOK
<1> QED BY ExperienceStart, ExperienceStep, <1>1, PTL DEF ExperienceSpec

(* check_criterion walks its advancements in the order of a hash map; yet  *)
(* none that asks for a criterion is granted before its parent.            *)
THEOREM ParentsGrantedFirst == ExperienceSpec => []ParentsFirst
<1> QED BY ExperienceStart, ParentsStep, PTL DEF ExperienceSpec
=============================================================================
