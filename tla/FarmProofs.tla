------------------------------ MODULE FarmProofs -------------------------------
(***************************************************************************)
(* Theorems about the farm, for any number of coroutines, plots and        *)
(* friends, any quotas and any number of fragments: FarmSocial, the rounds *)
(* through the friends, Farm, the cycle of the own farm, and FarmTables,   *)
(* what the database believes.                                             *)
(***************************************************************************)
EXTENDS Farm, FarmSocial, FarmTables, FiniteSetTheorems, TLAPS

(***************************************************************************)
(* Lemmas about sets of numbers, and about what is counted per coroutine.  *)
(***************************************************************************)
LEMMA LeastIsThere ==
    ASSUME NEW S \in SUBSET Nat, S # {}
    PROVE  \E x \in S : \A y \in S : x <= y
<1>1. PICK x \in S : \A y \in S : <<y, x>> \notin OpToRel(<, Nat)
  BY NatLessThanWellFounded, WFMin
<1>2. \A y \in S : ~(y < x)
  BY <1>1 DEF OpToRel
<1> QED
  BY <1>2

LEMMA GreatestIsThere ==
    ASSUME NEW S \in SUBSET Nat, S # {}, NEW n \in Nat, \A x \in S : x <= n
    PROVE  \E x \in S : \A y \in S : y <= x
<1> DEFINE T == {n - x : x \in S}
<1>1. T \in SUBSET Nat /\ T # {}
  <2>1. \A x \in S : n - x \in Nat
    OBVIOUS
  <2> QED
    BY <2>1
<1>2. PICK t \in T : \A u \in T : t <= u
  BY <1>1, LeastIsThere
<1>3. PICK x \in S : t = n - x
  BY <1>2
<1>4. \A y \in S : n - x <= n - y
  BY <1>2, <1>3
<1> QED
  BY <1>3, <1>4

\* The i-th of the f[x] things that x counts, as <<x, i>>.
Numbered(S, f) == UNION {{x} \X (1..f[x]) : x \in S}

\* One more of them.
LEMMA OneMore ==
    ASSUME NEW S, NEW f \in [S -> Nat], NEW x \in S, IsFiniteSet(Numbered(S, f)),
           NEW g \in [S -> Nat], g = [f EXCEPT ![x] = @ + 1]
    PROVE  /\ IsFiniteSet(Numbered(S, g))
           /\ Cardinality(Numbered(S, g)) = Cardinality(Numbered(S, f)) + 1
<1>1. Numbered(S, g) = Numbered(S, f) \cup {<<x, f[x] + 1>>}
  <2>1. \A y \in S : \A i : i \in 1..g[y] <=> i \in 1..f[y] \/ (y = x /\ i = f[x] + 1)
    OBVIOUS
  <2>2. ASSUME NEW e \in Numbered(S, g)
        PROVE  e \in Numbered(S, f) \/ e = <<x, f[x] + 1>>
    <3>1. PICK y \in S : \E i \in 1..g[y] : e = <<y, i>>
      BY DEF Numbered
    <3>2. PICK i \in 1..g[y] : e = <<y, i>>
      BY <3>1
    <3>3. CASE i \in 1..f[y]
      BY <3>2, <3>3 DEF Numbered
    <3> QED
      BY <2>1, <3>2, <3>3
  <2>3. Numbered(S, f) \subseteq Numbered(S, g)
    BY <2>1 DEF Numbered
  <2>4. <<x, f[x] + 1>> \in Numbered(S, g)
    BY <2>1 DEF Numbered
  <2> QED
    BY <2>2, <2>3, <2>4
<1>2. <<x, f[x] + 1>> \notin Numbered(S, f)
  BY DEF Numbered
<1> DEFINE F == Numbered(S, f)
           e == <<x, f[x] + 1>>
<1> HIDE DEF F, e
<1>3. IsFiniteSet(F) /\ e \notin F
  BY <1>2 DEF F, e
<1>4. IsFiniteSet(F \cup {e}) /\ Cardinality(F \cup {e}) = Cardinality(F) + 1
  BY <1>3, FS_AddElement
<1> QED
  BY <1>1, <1>4 DEF F, e

\* All that x counts is forgotten.
LEMMA Forgotten ==
    ASSUME NEW S, NEW f \in [S -> Nat], NEW x \in S, IsFiniteSet(Numbered(S, f)),
           NEW g \in [S -> Nat], g = [f EXCEPT ![x] = 0]
    PROVE  /\ IsFiniteSet(Numbered(S, g))
           /\ Cardinality(Numbered(S, g)) + f[x] = Cardinality(Numbered(S, f))
           /\ Cardinality(Numbered(S, g)) \in Nat
<1> DEFINE M == {x} \X (1..f[x])
<1>1. Numbered(S, g) = Numbered(S, f) \ M
  <2>1. \A y \in S : \A i : i \in 1..g[y] <=> i \in 1..f[y] /\ y # x
    OBVIOUS
  <2>2. ASSUME NEW e \in Numbered(S, g)
        PROVE  e \in Numbered(S, f) /\ e \notin M
    <3>1. PICK y \in S : \E i \in 1..g[y] : e = <<y, i>>
      BY DEF Numbered
    <3>2. PICK i \in 1..g[y] : e = <<y, i>>
      BY <3>1
    <3>3. i \in 1..f[y] /\ y # x
      BY <2>1, <3>2
    <3> QED
      BY <3>2, <3>3 DEF Numbered
  <2>3. ASSUME NEW e \in Numbered(S, f), e \notin M
        PROVE  e \in Numbered(S, g)
    <3>1. PICK y \in S : \E i \in 1..f[y] : e = <<y, i>>
      BY DEF Numbered
    <3>2. PICK i \in 1..f[y] : e = <<y, i>>
      BY <3>1
    <3>3. i \in 1..g[y]
      BY <2>1, <2>3, <3>2
    <3> QED
      BY <3>2, <3>3 DEF Numbered
  <2> HIDE DEF M
  <2> QED
    BY <2>2, <2>3
<1>2. M \subseteq Numbered(S, f)
  BY DEF Numbered
<1>3. IsFiniteSet(M) /\ Cardinality(M) = f[x]
  <2>1. IsFiniteSet({x}) /\ Cardinality({x}) = 1
    BY FS_Singleton
  <2>2. IsFiniteSet(1..f[x]) /\ Cardinality(1..f[x]) = f[x]
    BY FS_Interval
  <2>3. Cardinality({x}) * Cardinality(1..f[x]) = f[x]
    BY <2>1, <2>2
  <2> QED
    BY <2>1, <2>2, <2>3, FS_Product
<1>4. Numbered(S, f) \cap M = M
  BY <1>2
<1> DEFINE F == Numbered(S, f)
<1> HIDE DEF F, M
<1>5. IsFiniteSet(F) /\ F \cap M = M
  BY <1>4 DEF F
<1>6. IsFiniteSet(F \ M) /\ Cardinality(F \ M) = Cardinality(F) - Cardinality(M)
  BY <1>5, FS_Difference
<1>7. Cardinality(F) \in Nat /\ Cardinality(F \ M) \in Nat
  BY <1>5, <1>6, FS_CardinalityType
<1>8. Cardinality(F \ M) + f[x] = Cardinality(F)
  BY <1>3, <1>6, <1>7
<1> QED
  BY <1>1, <1>6, <1>7, <1>8 DEF F

-----------------------------------------------------------------------------

(***************************************************************************)
(* FarmSocial.  What has been taken at a friend and what may still be      *)
(* taken there is within the friend's limit, and nothing once the quota of *)
(* the round was met on arrival.                                           *)
(***************************************************************************)
Within(total, quota) ==
    /\ here + offers <= quota
    /\ total >= quota => here + offers = 0

SocialInv ==
    /\ SocialTypeOK
    /\ stolen <= 2 * StealQuota - 1 /\ watered <= 2 * WaterQuota - 1
    /\ task = "look" => here = 0 /\ offers = 0
    /\ task = "steal" => Within(stolen, StealQuota)
    /\ task = "water" => Within(watered, WaterQuota)
    /\ helped <= given

LEMMA InitSocial == SocialInit => SocialInv
BY SocialAssumption DEF SocialInit, SocialInv, SocialTypeOK

LEMMA StepSocial == SocialInv /\ [SocialNext]_socialVars => SocialInv'
<1> SUFFICES ASSUME SocialInv, [SocialNext]_socialVars PROVE SocialInv'
  OBVIOUS
<1> USE SocialAssumption DEF SocialInv, SocialTypeOK, Within
<1>1. CASE BeginRound
  BY <1>1 DEF BeginRound
<1>2. CASE LookToSteal
  <2>1. PICK n \in 0..StealQuota : offers' = n /\ (stolen >= StealQuota => n = 0)
    BY <1>2 DEF LookToSteal, Tried
  <2>2. SocialTypeOK'
    BY <1>2, <2>1 DEF LookToSteal, OnlyRound
  <2>3. task' = "steal" /\ here' = 0 /\ UNCHANGED <<stolen, watered, helped, given>>
    BY <1>2 DEF LookToSteal, OnlyRound
  <2>4. Within(stolen, StealQuota)'
    BY <2>1, <2>3
  <2> QED
    BY <2>2, <2>3, <2>4
<1>3. CASE Steal
  BY <1>3 DEF Steal, OnlyRound
<1>4. CASE LookToWater
  <2>1. PICK n \in 0..WaterQuota : offers' = n /\ (watered >= WaterQuota => n = 0)
    BY <1>4 DEF LookToWater, Tried
  <2>2. stolen' \in Nat /\ stolen' <= 2 * StealQuota - 1
    BY <1>4 DEF LookToWater
  <2>3. SocialTypeOK'
    BY <1>4, <2>1, <2>2 DEF LookToWater, OnlyRound
  <2>4. task' = "water" /\ here' = 0 /\ UNCHANGED <<watered, helped, given>>
    BY <1>4 DEF LookToWater, OnlyRound
  <2>5. Within(watered, WaterQuota)'
    BY <2>1, <2>4
  <2> QED
    BY <2>2, <2>3, <2>4, <2>5
<1>5. CASE WaterFriend
  BY <1>5 DEF WaterFriend
<1>6. CASE NextFriend
  BY <1>6 DEF NextFriend, OnlyRound
<1>7. CASE UNCHANGED socialVars
  BY <1>7 DEF socialVars
<1> QED
  BY <1>1, <1>2, <1>3, <1>4, <1>5, <1>6, <1>7 DEF SocialNext

LEMMA SocialInvariant == SocialSpec => []SocialInv
BY InitSocial, StepSocial, PTL DEF SocialSpec

\* A round is always at a friend of the list, and takes nothing between rounds.
THEOREM SocialTypeCorrect == SocialSpec => []SocialTypeOK
<1>1. SocialInv => SocialTypeOK
  BY DEF SocialInv
<1> QED
  BY <1>1, SocialInvariant, PTL

\* A round of GameEngine._run_farm_social() exceeds a quota by less than the
\* limit of one friend, and the help it counts was given.
THEOREM QuotasCorrect == SocialSpec => []QuotasNearlyKept
<1>1. SocialInv => QuotasNearlyKept
  BY SocialAssumption DEF SocialInv, SocialTypeOK, Within, QuotasNearlyKept
<1> QED
  BY <1>1, SocialInvariant, PTL

-----------------------------------------------------------------------------
(***************************************************************************)
(* Farm.  A coroutine's plan only shrinks while it works it off, and only  *)
(* one coroutine has one unless cycles have crossed.                       *)
(***************************************************************************)
\* A cycle that has planted has come to the sowing.
SowsLast == \A h \in Hand : fresh[h] # 0 => \A c \in Chore \ Sowing : plan[h][c] = {}

\* Unless cycles have crossed, one at most is under way, and what it may still
\* water is within the limit.
OneAtATime == ~crossed => \A g, h \in Hand : Busy(g) /\ Busy(h) => g = h

Rationed ==
    ~crossed =>
        /\ cared <= CareLimit
        /\ \A h \in Hand : plan[h]["care"] # {} => cared + Cardinality(plan[h]["care"]) <= CareLimit

FarmInv ==
    /\ FarmTypeOK /\ SowsLast /\ OneAtATime /\ Rationed
    /\ IsFiniteSet(Unreported) /\ CountsWereDone /\ NoVainPlanting

Plans == [Chore -> SUBSET Plot]

LEMMA PlotsAreFinite == \A S \in SUBSET Plot : IsFiniteSet(S) /\ Cardinality(S) \in Nat
<1>1. IsFiniteSet(Plot)
  BY FarmAssumption, FS_Interval DEF Plot
<1> QED
  BY <1>1, FS_Subset, FS_CardinalityType

\* The plot whose turn it is is on the list.
LEMMA TurnIsPlanned ==
    ASSUME FarmTypeOK, NEW h \in Hand, NEW c \in Chore, NEW p, Turn(h, c, p)
    PROVE  /\ p \in plan[h][c] /\ p \in Plot
           /\ \A d \in Chore : Rank(d) < Rank(c) => plan[h][d] = {}
<1>1. plan[h][c] \in SUBSET Plot /\ plan[h][c] # {} /\ p = Min(plan[h][c])
  BY DEF FarmTypeOK, Turn
<1>2. plan[h][c] \in SUBSET Nat
  BY <1>1, FarmAssumption DEF Plot
<1>3. p \in plan[h][c]
  BY <1>1, <1>2, LeastIsThere DEF Min
<1> QED
  BY <1>1, <1>3 DEF Turn

LEMMA NothingIsPlanned ==
    /\ Nothing \in Plans /\ \A c \in Chore : Nothing[c] = {}
    /\ \A x \in Plans : x = Nothing <=> \A c \in Chore : x[c] = {}
BY DEF Nothing, Plans

\* What striking a plot off some lists does to all plans.
LEMMA StrikingShrinks ==
    ASSUME FarmTypeOK, NEW h \in Hand, NEW p, NEW cs, Strikes(h, p, cs)
    PROVE  /\ plan' \in [Hand -> Plans]
           /\ \A g \in Hand \ {h} : plan'[g] = plan[g]
           /\ \A c \in Chore :
                 plan'[h][c] = IF c \in cs THEN plan[h][c] \ {p} ELSE plan[h][c]
<1>1. plan \in [Hand -> Plans]
  BY DEF FarmTypeOK, Plans
<1> DEFINE left == [c \in Chore |-> IF c \in cs THEN plan[h][c] \ {p} ELSE plan[h][c]]
<1>2. left \in Plans
  BY <1>1 DEF Plans
<1>3. plan' = [plan EXCEPT ![h] = left]
  BY <1>1 DEF Strikes
<1> HIDE DEF left
<1>4. plan' \in [Hand -> Plans] /\ plan'[h] = left /\ \A g \in Hand \ {h} : plan'[g] = plan[g]
  BY <1>1, <1>2, <1>3
<1> QED
  BY <1>4 DEF left

\* The lists of the VIP slot and of the collection are part of the rest.
Ordered(x) == x["vip"] \cup x["missing"] \subseteq x["rest"]

\* What one coroutine does before it sows, as far as the invariant is concerned.
Works(h) == HarvestAll(h) \/ Harvest(h) \/ RemoveWithered(h) \/ Water(h)

PlanShrinks(h) ==
    /\ plan' \in [Hand -> Plans]
    /\ \A g \in Hand \ {h} : plan'[g] = plan[g]
    /\ \A c \in Chore : plan'[h][c] \subseteq plan[h][c]

LEMMA WorkOnPlan ==
    ASSUME FarmTypeOK, SowsLast, NEW h \in Hand, Works(h)
    PROVE  /\ PlanShrinks(h)
           /\ \A c \in Sowing : plan'[h][c] = plan[h][c]
           /\ fresh[h] = 0
           /\ UNCHANGED <<grown, premium, fresh, planted, crossed, unheard, sown>>
<1> DEFINE Goal ==
             /\ PlanShrinks(h)
             /\ \A c \in Sowing : plan'[h][c] = plan[h][c]
             /\ fresh[h] = 0
<1>1. ASSUME NEW c \in Chore \ Sowing, NEW p, Turn(h, c, p), Strikes(h, p, {c})
      PROVE  Goal
  <2>1. plan[h][c] # {}
    BY <1>1 DEF Turn
  <2>2. fresh[h] = 0
    BY <1>1, <2>1 DEF SowsLast
  <2>3. /\ plan' \in [Hand -> Plans]
        /\ \A g \in Hand \ {h} : plan'[g] = plan[g]
        /\ \A d \in Chore :
              plan'[h][d] = IF d \in {c} THEN plan[h][d] \ {p} ELSE plan[h][d]
    BY <1>1, StrikingShrinks
  <2>4. PlanShrinks(h)
    BY <2>3 DEF PlanShrinks
  <2>5. \A d \in Sowing : plan'[h][d] = plan[h][d]
    BY <1>1, <2>3 DEF Chore
  <2> QED
    BY <2>2, <2>4, <2>5
<1>2. CASE HarvestAll(h)
  <2>1. UNCHANGED <<grown, premium, fresh, planted, crossed, unheard, sown>>
    BY <1>2 DEF HarvestAll, OnlyCrops
  <2>2. CASE Strikes(h, 0, {"all"})
    BY <1>1, <1>2, <2>1, <2>2 DEF HarvestAll, Chore, Sowing
  <2>3. CASE plan' = [plan EXCEPT ![h]["all"] = {}, ![h]["reap"] = {}]
    <3>1. plan \in [Hand -> Plans]
      BY DEF FarmTypeOK, Plans
    <3> DEFINE left == [plan[h] EXCEPT !["all"] = {}, !["reap"] = {}]
    <3>2. left \in Plans /\ \A c \in Chore : left[c] \subseteq plan[h][c]
      BY <3>1 DEF Plans, Chore
    <3>3. \A c \in Sowing : left[c] = plan[h][c]
      BY <3>1 DEF Plans, Chore, Sowing
    <3>4. plan' = [plan EXCEPT ![h] = left]
      BY <2>3, <3>1 DEF Plans, Chore
    <3> HIDE DEF left
    <3>5. PlanShrinks(h) /\ plan'[h] = left
      BY <3>1, <3>2, <3>4 DEF PlanShrinks
    <3>6. plan[h]["all"] # {} /\ "all" \in Chore \ Sowing
      BY <1>2 DEF HarvestAll, Turn, Chore, Sowing
    <3>7. fresh[h] = 0
      BY <3>6 DEF SowsLast
    <3> QED
      BY <2>1, <3>3, <3>5, <3>7
  <2> QED
    BY <1>2, <2>2, <2>3 DEF HarvestAll
<1>3. CASE Harvest(h)
  BY <1>1, <1>3 DEF Harvest, OnlyCrops, Chore, Sowing
<1>4. CASE RemoveWithered(h)
  BY <1>1, <1>4 DEF RemoveWithered, OnlyCrops, Chore, Sowing
<1>5. CASE Water(h)
  BY <1>1, <1>5 DEF Water, OnlyCrops, Chore, Sowing
<1> QED
  BY <1>2, <1>3, <1>4, <1>5 DEF Works

\* What was empty stays so, unless something is planted there.
StaysEmpty == \A p \in Plot : plot[p] = "empty" => plot'[p] = "empty"

LEMMA Gathering ==
    ASSUME FarmTypeOK, NEW S \in SUBSET Plot, Gathers(S)
    PROVE  /\ plot' \in [Plot -> Crop] /\ StaysEmpty
           /\ Cardinality(S) \in Nat /\ reaped' = reaped + Cardinality(S) /\ reaped' \in Nat
<1>1. Cardinality(S) \in Nat
  BY PlotsAreFinite
<1>2. plot' \in [Plot -> Crop] /\ StaysEmpty
  BY DEF FarmTypeOK, Gathers, Crop, StaysEmpty
<1> QED
  BY <1>1, <1>2 DEF FarmTypeOK, Gathers

HarvestsAreReal == ~outdated => harvested <= reaped

LEMMA WorkOnFarm ==
    ASSUME FarmTypeOK, NEW h \in Hand, Works(h)
    PROVE  /\ plot' \in [Plot -> Crop] /\ StaysEmpty
           /\ reaped' \in Nat /\ harvested' \in Nat /\ outdated' \in BOOLEAN
           /\ HarvestsAreReal => HarvestsAreReal'
           /\ \/ cared' = cared
              \/ /\ cared' = cared + 1
                 /\ \E p \in plan[h]["care"] : plan'[h]["care"] = plan[h]["care"] \ {p}
<1> DEFINE Counts2 == /\ reaped' \in Nat /\ harvested' \in Nat /\ outdated' \in BOOLEAN
                      /\ HarvestsAreReal => HarvestsAreReal'
<1>1. reaped \in Nat /\ harvested \in Nat /\ outdated \in BOOLEAN /\ plot \in [Plot -> Crop]
  BY DEF FarmTypeOK
<1>2. Is("mature") \in SUBSET Plot
  BY DEF Is
<1>3. ASSUME UNCHANGED <<plot, reaped>> PROVE plot' \in [Plot -> Crop] /\ StaysEmpty
  BY <1>1, <1>3 DEF StaysEmpty
<1>4. ASSUME UNCHANGED <<harvested, outdated>>, reaped' \in Nat, reaped' >= reaped
      PROVE  Counts2
  BY <1>1, <1>4 DEF HarvestsAreReal
<1>5. CASE HarvestAll(h)
  <2>1. CASE /\ UNCHANGED <<harvested, outdated>>
             /\ Gathers(Is("mature")) \/ UNCHANGED <<plot, reaped>>
    <3>1. plot' \in [Plot -> Crop] /\ StaysEmpty
      BY <1>2, <1>3, <2>1, Gathering
    <3>2. reaped' \in Nat /\ reaped' >= reaped
      BY <1>1, <1>2, <2>1, Gathering
    <3>3. Counts2
      BY <1>4, <2>1, <3>2
    <3> QED
      BY <1>5, <3>1, <3>3 DEF HarvestAll
  <2>2. CASE /\ Gathers(Is("mature"))
             /\ harvested' = harvested + Cardinality(plan[h]["reap"])
             /\ outdated' = (outdated \/ Is("mature") # plan[h]["reap"])
    <3>1. plot' \in [Plot -> Crop] /\ StaysEmpty
      BY <1>2, <2>2, Gathering
    <3>2. /\ Cardinality(Is("mature")) \in Nat /\ reaped' \in Nat
          /\ reaped' = reaped + Cardinality(Is("mature"))
      BY <1>2, <2>2, Gathering
    <3>3. plan[h]["reap"] \in SUBSET Plot
      BY DEF FarmTypeOK, Chore
    <3>4. Cardinality(plan[h]["reap"]) \in Nat
      BY <3>3, PlotsAreFinite
    <3>5. outdated' \in BOOLEAN /\ harvested' \in Nat
      BY <1>1, <2>2, <3>4
    <3>6. ~outdated' => ~outdated /\ Cardinality(Is("mature")) = Cardinality(plan[h]["reap"])
      BY <2>2
    <3>7. HarvestsAreReal => HarvestsAreReal'
      BY <1>1, <2>2, <3>2, <3>4, <3>6 DEF HarvestsAreReal
    <3> QED
      BY <1>5, <3>1, <3>2, <3>5, <3>7 DEF HarvestAll
  <2> QED
    BY <1>5, <2>1, <2>2 DEF HarvestAll
<1>6. CASE Harvest(h)
  <2>1. PICK p \in Plot :
          /\ \/ Gathers({p}) /\ harvested' \in {harvested, harvested + 1}
             \/ UNCHANGED <<plot, reaped, harvested>>
          /\ UNCHANGED <<cared, outdated>>
    BY <1>6 DEF Harvest
  <2>2. CASE Gathers({p}) /\ harvested' \in {harvested, harvested + 1}
    <3>1. plot' \in [Plot -> Crop] /\ StaysEmpty /\ reaped' = reaped + Cardinality({p})
      BY <2>2, Gathering
    <3>2. reaped' = reaped + 1
      BY <3>1, FS_Singleton
    <3>3. Counts2
      BY <1>1, <2>1, <2>2, <3>2 DEF HarvestsAreReal
    <3> QED
      BY <2>1, <3>1, <3>3
  <2> QED
    BY <1>1, <1>3, <1>4, <2>1, <2>2
<1>7. CASE RemoveWithered(h)
  <2>1. PICK p \in Plot :
          plot' \in {plot, IF plot[p] = "withered" THEN [plot EXCEPT ![p] = "empty"] ELSE plot}
    BY <1>7 DEF RemoveWithered
  <2>2. plot' \in [Plot -> Crop] /\ StaysEmpty
    BY <1>1, <2>1 DEF StaysEmpty, Crop
  <2>3. UNCHANGED <<cared, reaped, harvested, outdated>>
    BY <1>7 DEF RemoveWithered
  <2> QED
    BY <1>1, <1>4, <2>2, <2>3
<1>8. CASE Water(h)
  <2>1. PICK p \in Plot :
          /\ Turn(h, "care", p) /\ Strikes(h, p, {"care"})
          /\ \/ plot[p] = "dry" /\ plot' = [plot EXCEPT ![p] = "growing"] /\ cared' = cared + 1
             \/ UNCHANGED <<plot, cared>>
    BY <1>8 DEF Water
  <2>2. plot' \in [Plot -> Crop] /\ StaysEmpty
    BY <1>1, <2>1 DEF StaysEmpty, Crop
  <2>3. UNCHANGED <<reaped, harvested, outdated>>
    BY <1>8 DEF Water
  <2>4. p \in plan[h]["care"]
    BY <2>1, TurnIsPlanned DEF Chore
  <2>5. \A c \in Chore :
          plan'[h][c] = IF c \in {"care"} THEN plan[h][c] \ {p} ELSE plan[h][c]
    BY <2>1, StrikingShrinks
  <2>6. plan'[h]["care"] = plan[h]["care"] \ {p}
    BY <2>5 DEF Chore
  <2> QED
    BY <1>1, <1>4, <2>1, <2>2, <2>3, <2>4, <2>6
<1> QED
  BY <1>5, <1>6, <1>7, <1>8 DEF Works

\* What sowing does: the lists of the chores before it are empty, and a plot
\* that was planted is on no list any more unless the answer was lost.
Lists(h) == \A c \in Sowing : \A q \in plan[h][c] : plot[q] = "empty"

LEMMA SowOnPlan ==
    ASSUME FarmTypeOK, NEW h \in Hand, NEW c \in Sowing, NEW p \in Plot, NEW ok \in BOOLEAN,
           Turn(h, c, p), Strikes(h, p, Struck(c, ok))
    PROVE  /\ PlanShrinks(h) /\ Ordered(plan'[h])
           /\ \A d \in Chore \ Sowing : plan'[h][d] = {}
           /\ ok => \A d \in Sowing : p \notin plan'[h][d]
<1>1. Sowing \subseteq Chore /\ c \in Chore
  BY DEF Chore
<1>2. /\ plan' \in [Hand -> Plans]
      /\ \A g \in Hand \ {h} : plan'[g] = plan[g]
      /\ \A d \in Chore :
            plan'[h][d] = IF d \in Struck(c, ok) THEN plan[h][d] \ {p} ELSE plan[h][d]
  BY StrikingShrinks
<1>3. PlanShrinks(h)
  BY <1>2 DEF PlanShrinks
<1>4. \A d \in Chore : Rank(d) < Rank(c) => plan[h][d] = {}
  BY <1>1, TurnIsPlanned
<1>5. \A d \in Chore \ Sowing : plan[h][d] = {}
  BY <1>4 DEF Rank, Chore, Sowing
<1>6. \A d \in Chore \ Sowing : plan'[h][d] = {}
  BY <1>3, <1>5 DEF PlanShrinks
<1>7. ok => \A d \in Sowing : p \notin plan'[h][d]
  BY <1>1, <1>2 DEF Struck
<1>8. Ordered(plan[h])
  BY DEF FarmTypeOK, Ordered
<1>9. Ordered(plan'[h])
  <2>1. CASE ok
    BY <1>1, <1>2, <1>8, <2>1 DEF Struck, Ordered, Sowing
  <2>2. CASE ~ok /\ c # "rest"
    BY <1>1, <1>2, <1>8, <2>2 DEF Struck, Ordered, Sowing
  <2>3. CASE ~ok /\ c = "rest"
    <3>1. plan[h]["vip"] = {} /\ plan[h]["missing"] = {}
      BY <1>1, <1>4, <2>3 DEF Rank, Sowing
    <3> QED
      BY <1>1, <1>3, <3>1 DEF PlanShrinks, Ordered, Sowing
  <2> QED
    BY <2>1, <2>2, <2>3
<1> QED
  BY <1>3, <1>6, <1>7, <1>9

LEMMA SowOnFarm ==
    ASSUME FarmTypeOK, NEW h \in Hand, PlantOne(h)
    PROVE  /\ PlanShrinks(h) /\ Ordered(plan'[h])
           /\ \A d \in Chore \ Sowing : plan'[h][d] = {}
           /\ plot' \in [Plot -> Crop] /\ unheard' \in BOOLEAN /\ sown' \in Nat
           /\ ~unheard' => ~unheard /\ (Lists(h) => Lists(h)')
           /\ \E n \in Nat : Counts(h, n) /\ n >= fresh[h] /\ n - fresh[h] <= sown' - sown
                             /\ n <= fresh[h] + 1
           /\ UNCHANGED <<grown, cared, reaped, premium, harvested, crossed, outdated>>
<1>1. PICK c \in Sowing, p \in Plot, ok \in BOOLEAN :
        /\ Turn(h, c, p) /\ Strikes(h, p, Struck(c, ok))
        /\ Counts(h, Successes(h, ok))
        /\ \/ plot[p] = "empty" /\ plot' = [plot EXCEPT ![p] = "growing"] /\ sown' = sown + 1
              /\ unheard' = (unheard \/ ~ok)
           \/ ~ok /\ UNCHANGED <<plot, sown, unheard>>
        /\ UNCHANGED <<grown, cared, reaped, premium, harvested, crossed, outdated>>
  BY DEF PlantOne
<1>2. /\ PlanShrinks(h) /\ Ordered(plan'[h])
      /\ \A d \in Chore \ Sowing : plan'[h][d] = {}
      /\ ok => \A d \in Sowing : p \notin plan'[h][d]
  BY <1>1, SowOnPlan
<1>3. sown \in Nat /\ fresh[h] \in Nat /\ plot \in [Plot -> Crop] /\ unheard \in BOOLEAN
  BY DEF FarmTypeOK
<1>4. plot' \in [Plot -> Crop] /\ unheard' \in BOOLEAN /\ sown' \in Nat
  <2>1. CASE UNCHANGED <<plot, sown, unheard>>
    BY <1>3, <2>1
  <2>2. CASE plot' = [plot EXCEPT ![p] = "growing"] /\ sown' = sown + 1
             /\ unheard' = (unheard \/ ~ok)
    BY <1>3, <2>2 DEF Crop
  <2> QED
    BY <1>1, <2>1, <2>2
<1>5. \A d \in Sowing : plan'[h][d] \subseteq plan[h][d] /\ plan[h][d] \subseteq Plot
  BY <1>2 DEF PlanShrinks, Chore, FarmTypeOK
<1>6. ASSUME ~unheard', Lists(h) PROVE Lists(h)'
  <2>1. CASE ok
    BY <1>1, <1>2, <1>3, <1>5, <1>6, <2>1 DEF Lists
  <2>2. CASE ~ok
    BY <1>1, <1>3, <1>5, <1>6, <2>2 DEF Lists
  <2> QED
    BY <2>1, <2>2
<1>7. ~unheard' => ~unheard
  BY <1>1, <1>3
<1> DEFINE n == Successes(h, ok)
<1>8. /\ n \in Nat /\ n >= fresh[h] /\ n <= fresh[h] + 1 /\ n - fresh[h] <= sown' - sown
  BY <1>1, <1>3 DEF Successes
<1> HIDE DEF n
<1>9. Counts(h, n)
  BY <1>1 DEF n
<1> QED
  BY <1>1, <1>2, <1>4, <1>6, <1>7, <1>8, <1>9

\* What a shrinking plan preserves.
LEMMA ShrinkingKeeps ==
    ASSUME FarmInv, NEW h \in Hand, PlanShrinks(h), crossed' = crossed
    PROVE  /\ \A g \in Hand : Busy(g)' => Busy(g)
           /\ OneAtATime'
           /\ cared' = cared => Rationed'
<1>1. plan \in [Hand -> Plans]
  BY DEF FarmInv, FarmTypeOK, Plans
<1>2. \A g \in Hand : \A c \in Chore : plan'[g][c] \subseteq plan[g][c]
  BY DEF PlanShrinks
<1>3. \A g \in Hand : Busy(g)' => Busy(g)
  <2> SUFFICES ASSUME NEW g \in Hand, ~Busy(g) PROVE ~Busy(g)'
    OBVIOUS
  <2>1. \A c \in Chore : plan[g][c] = {}
    BY <1>1, NothingIsPlanned DEF Busy
  <2>2. plan'[g] \in Plans /\ \A c \in Chore : plan'[g][c] = {}
    BY <1>2, <2>1 DEF PlanShrinks
  <2>3. plan'[g] = Nothing
    BY <2>2, NothingIsPlanned
  <2> QED
    BY <2>3 DEF Busy, Nothing
<1>4. OneAtATime'
  BY <1>3 DEF FarmInv, OneAtATime
<1>5. ASSUME cared' = cared PROVE Rationed'
  <2> SUFFICES ASSUME ~crossed
               PROVE  /\ cared <= CareLimit
                      /\ \A g \in Hand : plan'[g]["care"] # {} =>
                           cared + Cardinality(plan'[g]["care"]) <= CareLimit
    BY <1>5 DEF Rationed
  <2>1. cared <= CareLimit
    BY DEF FarmInv, Rationed
  <2>2. ASSUME NEW g \in Hand, plan'[g]["care"] # {}
        PROVE  cared + Cardinality(plan'[g]["care"]) <= CareLimit
    <3>1. plan'[g]["care"] \subseteq plan[g]["care"]
      BY <1>2 DEF Chore
    <3>2. plan[g]["care"] \in SUBSET Plot
      BY <1>1 DEF Plans, Chore
    <3>3. cared + Cardinality(plan[g]["care"]) <= CareLimit
      BY <2>2, <3>1 DEF FarmInv, Rationed
    <3>4. IsFiniteSet(plan[g]["care"]) /\ Cardinality(plan[g]["care"]) \in Nat
          /\ Cardinality(plan'[g]["care"]) \in Nat
      BY <3>1, <3>2, PlotsAreFinite
    <3>5. Cardinality(plan'[g]["care"]) <= Cardinality(plan[g]["care"])
      BY <3>1, <3>4, FS_Subset
    <3>6. cared \in Nat /\ CareLimit \in Nat
      BY FarmAssumption DEF FarmInv, FarmTypeOK
    <3> QED
      BY <3>3, <3>4, <3>5, <3>6
  <2> QED
    BY <2>1, <2>2
<1> QED
  BY <1>3, <1>4, <1>5

\* A watering the game performed uses up one of the rationed attempts.
LEMMA WateringKeeps ==
    ASSUME FarmInv, NEW h \in Hand, PlanShrinks(h), crossed' = crossed, cared' = cared + 1,
           NEW p \in plan[h]["care"], plan'[h]["care"] = plan[h]["care"] \ {p}
    PROVE  Rationed'
<1> SUFFICES ASSUME ~crossed
             PROVE  /\ cared + 1 <= CareLimit
                    /\ \A g \in Hand : plan'[g]["care"] # {} =>
                         cared + 1 + Cardinality(plan'[g]["care"]) <= CareLimit
  BY DEF Rationed
<1>1. plan \in [Hand -> Plans] /\ "care" \in Chore
  BY DEF FarmInv, FarmTypeOK, Plans, Chore
<1> DEFINE S == plan[h]["care"]
<1>2. S \in SUBSET Plot /\ cared \in Nat /\ CareLimit \in Nat
  BY <1>1, FarmAssumption DEF Plans, FarmInv, FarmTypeOK
<1>3. cared + Cardinality(S) <= CareLimit
  BY DEF FarmInv, Rationed
<1> HIDE DEF S
<1>4. IsFiniteSet(S) /\ Cardinality(S) \in Nat /\ p \in S
  BY <1>2, PlotsAreFinite DEF S
<1>5. Cardinality(S \ {p}) = Cardinality(S) - 1 /\ Cardinality(S) # 0
  BY <1>4, FS_RemoveElement, FS_EmptySet
<1>6. cared + 1 <= CareLimit /\ cared + 1 + Cardinality(S \ {p}) <= CareLimit
  BY <1>2, <1>3, <1>4, <1>5
<1>7. \A g \in Hand \ {h} : plan'[g]["care"] = {}
  <2> SUFFICES ASSUME NEW g \in Hand \ {h} PROVE plan'[g]["care"] = {}
    OBVIOUS
  <2>1. Busy(h)
    BY <1>1, NothingIsPlanned DEF Busy
  <2>2. ~Busy(g)
    BY <2>1 DEF FarmInv, OneAtATime
  <2>3. plan[g]["care"] = {}
    BY <1>1, <2>2, NothingIsPlanned DEF Busy
  <2> QED
    BY <2>3 DEF PlanShrinks
<1> QED
  BY <1>6, <1>7 DEF S

LEMMA WorkKeeps ==
    ASSUME FarmInv, NEW h \in Hand, Works(h)
    PROVE  FarmInv'
<1>1. FarmTypeOK /\ SowsLast
  BY DEF FarmInv
<1>2. /\ PlanShrinks(h)
      /\ \A c \in Sowing : plan'[h][c] = plan[h][c]
      /\ fresh[h] = 0
      /\ UNCHANGED <<grown, premium, fresh, planted, crossed, unheard, sown>>
  BY <1>1, WorkOnPlan
<1>3. /\ plot' \in [Plot -> Crop] /\ StaysEmpty
      /\ reaped' \in Nat /\ harvested' \in Nat /\ outdated' \in BOOLEAN
      /\ HarvestsAreReal => HarvestsAreReal'
      /\ \/ cared' = cared
         \/ /\ cared' = cared + 1
            /\ \E p \in plan[h]["care"] : plan'[h]["care"] = plan[h]["care"] \ {p}
  BY <1>1, WorkOnFarm
<1>4. (\A g \in Hand : Busy(g)' => Busy(g)) /\ OneAtATime'
  BY <1>2, ShrinkingKeeps
<1>5. Rationed'
  BY <1>2, <1>3, ShrinkingKeeps, WateringKeeps
<1>6. FarmTypeOK'
  <2>1. plan' \in [Hand -> [Chore -> SUBSET Plot]]
    BY <1>2 DEF PlanShrinks, Plans
  <2>2. cared' \in Nat
    BY <1>1, <1>3 DEF FarmTypeOK
  <2>3. \A g \in Hand : plan'[g]["vip"] \cup plan'[g]["missing"] \subseteq plan'[g]["rest"]
    BY <1>1, <1>2 DEF PlanShrinks, Sowing, FarmTypeOK
  <2>4. \A g \in Hand : ~Busy(g)' => fresh'[g] = 0
    <3> SUFFICES ASSUME NEW g \in Hand, ~Busy(g)' PROVE fresh'[g] = 0
      OBVIOUS
    <3>1. CASE g = h
      BY <1>2, <3>1
    <3>2. CASE g # h
      BY <1>1, <1>2, <3>2 DEF PlanShrinks, Busy, FarmTypeOK, Nothing
    <3> QED
      BY <3>1, <3>2
  <2> QED
    BY <1>1, <1>2, <1>3, <2>1, <2>2, <2>3, <2>4 DEF FarmTypeOK
<1>7. SowsLast'
  BY <1>1, <1>2 DEF SowsLast, PlanShrinks
<1>8. IsFiniteSet(Unreported)' /\ CountsWereDone'
  <2>1. Unreported' = Unreported
    BY <1>2 DEF Unreported
  <2>2. HarvestsAreReal'
    BY <1>3 DEF FarmInv, CountsWereDone, HarvestsAreReal
  <2> QED
    BY <1>2, <2>1, <2>2 DEF FarmInv, CountsWereDone, HarvestsAreReal
<1>9. NoVainPlanting'
  BY <1>1, <1>2, <1>3 DEF FarmInv, NoVainPlanting, PlanShrinks, StaysEmpty, Sowing, Chore, FarmTypeOK
<1> QED
  BY <1>4, <1>5, <1>6, <1>7, <1>8, <1>9 DEF FarmInv

LEMMA SowKeeps ==
    ASSUME FarmInv, NEW h \in Hand, PlantOne(h)
    PROVE  FarmInv'
<1>1. FarmTypeOK /\ SowsLast
  BY DEF FarmInv
<1>2. /\ PlanShrinks(h) /\ Ordered(plan'[h])
      /\ \A d \in Chore \ Sowing : plan'[h][d] = {}
      /\ plot' \in [Plot -> Crop] /\ unheard' \in BOOLEAN /\ sown' \in Nat
      /\ ~unheard' => ~unheard /\ (Lists(h) => Lists(h)')
      /\ \E n \in Nat : Counts(h, n) /\ n >= fresh[h] /\ n - fresh[h] <= sown' - sown
                        /\ n <= fresh[h] + 1
      /\ UNCHANGED <<grown, cared, reaped, premium, harvested, crossed, outdated>>
  BY <1>1, SowOnFarm
<1>3. PICK n \in Nat : Counts(h, n) /\ n >= fresh[h] /\ n - fresh[h] <= sown' - sown
                       /\ n <= fresh[h] + 1
  BY <1>2
<1>4. (\A g \in Hand : Busy(g)' => Busy(g)) /\ OneAtATime' /\ Rationed'
  BY <1>2, ShrinkingKeeps
<1>5. fresh \in [Hand -> Nat] /\ planted \in Nat /\ sown \in Nat /\ plan \in [Hand -> Plans]
  BY <1>1 DEF FarmTypeOK, Plans
<1>6. /\ fresh' \in [Hand -> Nat] /\ planted' \in Nat
      /\ \A g \in Hand \ {h} : fresh'[g] = fresh[g]
      /\ ~Busy(h)' => fresh'[h] = 0
  BY <1>3, <1>5 DEF Counts, Busy, Nothing
<1>7. FarmTypeOK'
  <2>1. plan' \in [Hand -> [Chore -> SUBSET Plot]]
    BY <1>2 DEF PlanShrinks, Plans
  <2>2. \A g \in Hand : plan'[g]["vip"] \cup plan'[g]["missing"] \subseteq plan'[g]["rest"]
    BY <1>1, <1>2 DEF PlanShrinks, Ordered, FarmTypeOK
  <2>3. \A g \in Hand : ~Busy(g)' => fresh'[g] = 0
    <3> SUFFICES ASSUME NEW g \in Hand, ~Busy(g)', g # h PROVE fresh'[g] = 0
      BY <1>6
    <3> QED
      BY <1>1, <1>2, <1>6 DEF PlanShrinks, Busy, FarmTypeOK, Nothing
  <2> QED
    BY <1>1, <1>2, <1>6, <2>1, <2>2, <2>3 DEF FarmTypeOK
<1>8. SowsLast'
  BY <1>1, <1>2, <1>6 DEF SowsLast, PlanShrinks
<1>9. IsFiniteSet(Unreported)' /\ CountsWereDone'
  <2>1. Unreported = Numbered(Hand, fresh) /\ Unreported' = Numbered(Hand, fresh')
    BY DEF Unreported, Numbered
  <2>2. IsFiniteSet(Unreported) /\ planted + Cardinality(Unreported) <= sown
    BY DEF FarmInv, CountsWereDone
  <2>3. Cardinality(Unreported) \in Nat
    BY <2>2, FS_CardinalityType
  <2>4. /\ IsFiniteSet(Unreported') /\ planted' + Cardinality(Unreported') <= sown'
    <3>1. CASE fresh' = [fresh EXCEPT ![h] = 0] /\ planted' = planted + n
      <4>1. IsFiniteSet(Numbered(Hand, fresh))
        BY <2>1, <2>2
      <4>2. /\ IsFiniteSet(Numbered(Hand, fresh'))
            /\ Cardinality(Numbered(Hand, fresh')) + fresh[h] = Cardinality(Numbered(Hand, fresh))
            /\ Cardinality(Numbered(Hand, fresh')) \in Nat
        BY <1>5, <1>6, <3>1, <4>1, Forgotten
      <4> QED
        BY <1>2, <1>3, <1>5, <2>1, <2>2, <2>3, <3>1, <4>2
    <3>2. CASE fresh' = [fresh EXCEPT ![h] = n] /\ planted' = planted /\ n = fresh[h] + 1
      <4>1. fresh' = [fresh EXCEPT ![h] = @ + 1]
        BY <1>5, <3>2
      <4>2. IsFiniteSet(Numbered(Hand, fresh))
        BY <2>1, <2>2
      <4>3. /\ IsFiniteSet(Numbered(Hand, fresh'))
            /\ Cardinality(Numbered(Hand, fresh')) = Cardinality(Numbered(Hand, fresh)) + 1
        <5>1. fresh \in [Hand -> Nat] /\ fresh' \in [Hand -> Nat]
          BY <1>5, <1>6
        <5> QED
          BY <4>1, <4>2, <5>1, OneMore, ZenonT(60)
      <4> QED
        BY <1>2, <1>3, <1>5, <2>1, <2>2, <2>3, <3>2, <4>3
    <3>3. CASE fresh' = [fresh EXCEPT ![h] = n] /\ planted' = planted /\ n = fresh[h]
      <4>1. fresh' = fresh
        BY <1>5, <3>3
      <4> QED
        BY <1>2, <1>3, <1>5, <2>1, <2>2, <2>3, <3>3, <4>1
    <3>4. n = fresh[h] + 1 \/ n = fresh[h]
      BY <1>3, <1>5
    <3> QED
      BY <1>3, <3>1, <3>2, <3>3, <3>4 DEF Counts
  <2> QED
    BY <1>2, <2>4 DEF FarmInv, CountsWereDone
<1>10. NoVainPlanting'
  <2> SUFFICES ASSUME ~crossed, ~unheard', NEW g \in Hand
               PROVE  Lists(g)'
    BY <1>2 DEF NoVainPlanting, Lists
  <2>1. Lists(g) /\ Lists(h)
    BY <1>2 DEF FarmInv, NoVainPlanting, Lists
  <2>2. CASE g = h
    BY <1>2, <2>1, <2>2
  <2>3. CASE g # h
    <3>1. PICK c \in Sowing : plan[h][c] # {}
      BY DEF PlantOne, Turn
    <3>2. Busy(h)
      BY <1>5, <3>1, NothingIsPlanned DEF Busy, Chore
    <3>3. ~Busy(g)
      BY <2>3, <3>2 DEF FarmInv, OneAtATime
    <3>4. plan'[g] = Nothing
      BY <1>2, <2>3, <3>3 DEF Busy, PlanShrinks
    <3> QED
      BY <3>4, NothingIsPlanned DEF Lists, Chore
  <2> QED
    BY <2>2, <2>3
<1> QED
  BY <1>4, <1>7, <1>8, <1>9, <1>10 DEF FarmInv

\* No more than n plots are rationed.
LEMMA FirstAreFew ==
    ASSUME NEW S \in SUBSET Plot, NEW n \in Nat
    PROVE  FirstOf(S, n) \in SUBSET S /\ Cardinality(FirstOf(S, n)) <= n
<1> DEFINE F == FirstOf(S, n)
           Before(p) == {q \in S : q < p}
<1>1. F \in SUBSET S /\ S \in SUBSET Nat /\ \A p \in S : p <= Plots
  BY FarmAssumption DEF FirstOf, Plot
<1>2. \A p \in F : Cardinality(Before(p)) < n
  BY DEF FirstOf
<1> HIDE DEF F
<1>3. IsFiniteSet(F) /\ Cardinality(F) \in Nat
  BY <1>1, PlotsAreFinite
<1>4. CASE F = {}
  BY <1>1, <1>4, FS_EmptySet DEF F
<1>5. CASE F # {}
  <2>1. PICK m \in F : \A p \in F : p <= m
    BY <1>1, <1>5, GreatestIsThere, FarmAssumption
  <2> HIDE DEF Before
  <2>2. Before(m) \in SUBSET Plot /\ F \subseteq Before(m) \cup {m}
    <3>1. Before(m) \in SUBSET Plot
      BY DEF Before
    <3>2. ASSUME NEW p \in F, p # m PROVE p \in Before(m)
      <4>1. p \in S /\ p \in Nat /\ m \in Nat /\ p <= m
        BY <1>1, <2>1
      <4> QED
        BY <3>2, <4>1 DEF Before
    <3> QED
      BY <3>1, <3>2
  <2>3. IsFiniteSet(Before(m)) /\ Cardinality(Before(m)) \in Nat
    BY <2>2, PlotsAreFinite
  <2>4. /\ IsFiniteSet(Before(m) \cup {m})
        /\ Cardinality(Before(m) \cup {m}) \in Nat
        /\ Cardinality(Before(m) \cup {m}) <= Cardinality(Before(m)) + 1
    BY <2>3, FS_AddElement, FS_CardinalityType
  <2>5. Cardinality(F) <= Cardinality(Before(m) \cup {m})
    BY <2>2, <2>4, FS_Subset
  <2>6. Cardinality(Before(m)) < n
    BY <1>2, <2>1
  <2>7. Cardinality(F) <= n
    BY <1>3, <2>3, <2>4, <2>5, <2>6
  <2> QED
    BY <1>1, <2>7 DEF F
<1> QED
  BY <1>4, <1>5

LEMMA GrowKeeps ==
    ASSUME FarmInv, NEW p \in Plot, Grow(p)
    PROVE  FarmInv'
<1>1. plot' \in [Plot -> Crop] /\ grown' \in 0..Growth /\ StaysEmpty
  <2>1. plot \in [Plot -> Crop] /\ grown \in 0..Growth /\ Growth \in Nat
    BY FarmAssumption DEF FarmInv, FarmTypeOK
  <2>2. grown' \in 0..Growth
    BY <2>1 DEF Grow
  <2>3. plot' \in [Plot -> Crop]
    BY <2>1 DEF Grow, Crop
  <2>4. StaysEmpty
    BY <2>1 DEF Grow, StaysEmpty
  <2> QED
    BY <2>2, <2>3, <2>4
<1>2. UNCHANGED <<cared, reaped, sown, premium, plan, fresh, harvested, planted,
                  crossed, unheard, outdated>>
  BY DEF Grow
<1>3. FarmTypeOK'
  BY <1>1, <1>2 DEF FarmInv, FarmTypeOK, Busy, Nothing
<1>4. SowsLast' /\ OneAtATime' /\ Rationed'
  BY <1>2 DEF FarmInv, SowsLast, OneAtATime, Rationed, Busy, Nothing
<1>5. IsFiniteSet(Unreported)' /\ CountsWereDone'
  BY <1>2 DEF FarmInv, Unreported, CountsWereDone
<1>6. NoVainPlanting'
  BY <1>1, <1>2 DEF FarmInv, NoVainPlanting, StaysEmpty, FarmTypeOK, Sowing, Chore
<1> QED
  BY <1>3, <1>4, <1>5, <1>6 DEF FarmInv

\* A new plan.
LEMMA Planning ==
    ASSUME FarmTypeOK, NEW missing \in BOOLEAN
    PROVE  /\ Planned(missing) \in Plans /\ Ordered(Planned(missing))
           /\ \A c \in Sowing : \A p \in Planned(missing)[c] : plot[p] = "empty"
           /\ Cardinality(Planned(missing)["care"]) <= Allowed
           /\ Allowed \in Nat
<1>1. \A crop \in Crop : Is(crop) \in SUBSET Plot
  BY DEF Is
<1>2. Allowed \in Nat /\ 0 \in Plot
  BY FarmAssumption DEF FarmTypeOK, Allowed, Plot
<1>3. FirstOf(Is("dry"), Allowed) \in SUBSET Plot
      /\ Cardinality(FirstOf(Is("dry"), Allowed)) <= Allowed
  BY <1>1, <1>2, FirstAreFew DEF Crop
<1> DEFINE P == Planned(missing)
<1>4. /\ P["all"] \in SUBSET Plot /\ P["reap"] = Is("mature") /\ P["clear"] = Is("withered")
      /\ P["care"] = FirstOf(Is("dry"), Allowed) /\ P["rest"] = Is("empty")
      /\ P["vip"] \subseteq Is("empty") /\ P["missing"] \subseteq Is("empty")
      /\ P = [c \in Chore |-> P[c]]
  BY <1>2 DEF Planned, Chore, Sowing
<1> HIDE DEF P
<1>5. \A c \in Chore : P[c] \in SUBSET Plot
  BY <1>1, <1>3, <1>4 DEF Chore, Sowing, Crop
<1>6. P \in Plans
  BY <1>4, <1>5 DEF Plans
<1>7. Ordered(P)
  BY <1>4 DEF Ordered
<1>8. \A c \in Sowing : \A p \in P[c] : plot[p] = "empty"
  BY <1>4 DEF Sowing, Is
<1> QED
  BY <1>2, <1>3, <1>4, <1>6, <1>7, <1>8 DEF P

LEMMA ReadKeeps ==
    ASSUME FarmInv, NEW h \in Hand, ReadStatus(h)
    PROVE  FarmInv'
<1>1. PICK missing \in BOOLEAN : plan' = [plan EXCEPT ![h] = Planned(missing)]
  BY DEF ReadStatus
<1>2. /\ ~Busy(h) /\ crossed' = (crossed \/ \E g \in Hand \ {h} : Busy(g))
      /\ UNCHANGED <<plot, grown, cared, reaped, sown, premium, fresh, harvested, planted,
                     unheard, outdated>>
  BY DEF ReadStatus
<1>3. FarmTypeOK /\ plan \in [Hand -> Plans] /\ crossed \in BOOLEAN
  BY DEF FarmInv, FarmTypeOK, Plans
<1> DEFINE P == Planned(missing)
<1>4. /\ P \in Plans /\ Ordered(P)
      /\ \A c \in Sowing : \A p \in P[c] : plot[p] = "empty"
      /\ Cardinality(P["care"]) <= Allowed /\ Allowed \in Nat
  BY <1>3, Planning
<1> HIDE DEF P
<1>5. /\ plan' \in [Hand -> Plans] /\ plan'[h] = P
      /\ \A g \in Hand \ {h} : plan'[g] = plan[g]
  BY <1>1, <1>3, <1>4 DEF P
<1>6. crossed' \in BOOLEAN /\ (~crossed' => ~crossed /\ \A g \in Hand \ {h} : ~Busy(g))
  BY <1>2, <1>3
<1>7. \A g \in Hand \ {h} : Busy(g)' <=> Busy(g)
  BY <1>5 DEF Busy, Nothing
<1>8. fresh[h] = 0
  BY <1>2, <1>3 DEF FarmTypeOK
<1>9. FarmTypeOK'
  <2>1. plan' \in [Hand -> [Chore -> SUBSET Plot]]
    BY <1>5 DEF Plans
  <2>2. \A g \in Hand : plan'[g]["vip"] \cup plan'[g]["missing"] \subseteq plan'[g]["rest"]
    BY <1>3, <1>4, <1>5 DEF Ordered, FarmTypeOK
  <2>3. \A g \in Hand : ~Busy(g)' => fresh'[g] = 0
    BY <1>2, <1>3, <1>7, <1>8 DEF FarmTypeOK
  <2> QED
    BY <1>2, <1>3, <1>6, <2>1, <2>2, <2>3 DEF FarmTypeOK
<1>10. SowsLast'
  BY <1>2, <1>5, <1>8 DEF FarmInv, SowsLast
<1>11. OneAtATime'
  BY <1>6, <1>7 DEF OneAtATime
<1>12. Rationed'
  <2> SUFFICES ASSUME ~crossed'
               PROVE  /\ cared <= CareLimit
                      /\ \A g \in Hand : plan'[g]["care"] # {} =>
                           cared + Cardinality(plan'[g]["care"]) <= CareLimit
    BY <1>2 DEF Rationed
  <2>1. cared \in Nat /\ CareLimit \in Nat /\ cared <= CareLimit
    BY <1>3, <1>6, FarmAssumption DEF FarmTypeOK, FarmInv, Rationed
  <2>2. \A g \in Hand \ {h} : plan'[g]["care"] = {}
    BY <1>5, <1>6, NothingIsPlanned DEF Busy, Chore
  <2>3. cared + Allowed <= CareLimit
    BY <2>1 DEF Allowed
  <2>4. P["care"] \in SUBSET Plot
    BY <1>4 DEF Plans, Chore
  <2>5. Cardinality(P["care"]) \in Nat
    BY <2>4, PlotsAreFinite
  <2>6. cared + Cardinality(P["care"]) <= CareLimit
    BY <1>4, <2>1, <2>3, <2>5
  <2> QED
    BY <1>5, <2>1, <2>2, <2>6
<1>13. IsFiniteSet(Unreported)' /\ CountsWereDone'
  BY <1>2 DEF FarmInv, Unreported, CountsWereDone
<1>14. NoVainPlanting'
  BY <1>2, <1>4, <1>5, <1>6 DEF FarmInv, NoVainPlanting
<1> QED
  BY <1>9, <1>10, <1>11, <1>12, <1>13, <1>14 DEF FarmInv

LEMMA AbandonKeeps ==
    ASSUME FarmInv, NEW h \in Hand, Abandon(h)
    PROVE  FarmInv'
<1>1. /\ plan' = [plan EXCEPT ![h] = Nothing] /\ fresh' = [fresh EXCEPT ![h] = 0]
      /\ UNCHANGED <<plot, grown, cared, reaped, sown, premium, harvested, planted,
                     crossed, unheard, outdated>>
  BY DEF Abandon
<1>2. FarmTypeOK /\ plan \in [Hand -> Plans] /\ fresh \in [Hand -> Nat]
  BY DEF FarmInv, FarmTypeOK, Plans
<1>3. plan' \in [Hand -> Plans] /\ plan'[h] = Nothing /\ \A g \in Hand \ {h} : plan'[g] = plan[g]
  BY <1>1, <1>2, NothingIsPlanned
<1>4. /\ fresh' \in [Hand -> Nat] /\ fresh'[h] = 0
      /\ \A g \in Hand \ {h} : fresh'[g] = fresh[g]
  BY <1>1, <1>2
<1>5. PlanShrinks(h)
  BY <1>3, NothingIsPlanned DEF PlanShrinks
<1>6. (\A g \in Hand : Busy(g)' => Busy(g)) /\ OneAtATime' /\ Rationed'
  BY <1>1, <1>5, ShrinkingKeeps
<1>7. FarmTypeOK'
  <2>1. plan' \in [Hand -> [Chore -> SUBSET Plot]]
    BY <1>3 DEF Plans
  <2>2. \A g \in Hand : plan'[g]["vip"] \cup plan'[g]["missing"] \subseteq plan'[g]["rest"]
    BY <1>2, <1>3, NothingIsPlanned DEF FarmTypeOK, Chore, Sowing
  <2>3. \A g \in Hand : ~Busy(g)' => fresh'[g] = 0
    BY <1>2, <1>3, <1>4 DEF FarmTypeOK, Busy, Nothing
  <2> QED
    BY <1>1, <1>2, <1>4, <2>1, <2>2, <2>3 DEF FarmTypeOK
<1>8. SowsLast'
  BY <1>3, <1>4, NothingIsPlanned DEF FarmInv, SowsLast
<1>9. IsFiniteSet(Unreported)' /\ CountsWereDone'
  <2>1. Unreported = Numbered(Hand, fresh) /\ Unreported' = Numbered(Hand, fresh')
    BY DEF Unreported, Numbered
  <2>2. IsFiniteSet(Numbered(Hand, fresh))
        /\ planted + Cardinality(Numbered(Hand, fresh)) <= sown
    BY <2>1 DEF FarmInv, CountsWereDone
  <2>3. /\ IsFiniteSet(Numbered(Hand, fresh'))
        /\ Cardinality(Numbered(Hand, fresh')) + fresh[h] = Cardinality(Numbered(Hand, fresh))
        /\ Cardinality(Numbered(Hand, fresh')) \in Nat
    BY <1>1, <1>2, <1>4, <2>2, Forgotten
  <2>4. planted \in Nat /\ sown \in Nat /\ fresh[h] \in Nat
    BY <1>2 DEF FarmTypeOK
  <2>5. planted + Cardinality(Numbered(Hand, fresh')) <= sown
    BY <2>2, <2>3, <2>4
  <2> QED
    BY <1>1, <2>1, <2>3, <2>5 DEF FarmInv, CountsWereDone
<1>10. NoVainPlanting'
  <2> SUFFICES ASSUME ~crossed, ~unheard, NEW g \in Hand, NEW c \in Sowing,
                      NEW p \in plan'[g][c]
               PROVE  plot[p] = "empty"
    BY <1>1 DEF NoVainPlanting
  <2>1. g # h /\ p \in plan[g][c]
    BY <1>3, NothingIsPlanned DEF Chore
  <2> QED
    BY <2>1 DEF FarmInv, NoVainPlanting
<1> QED
  BY <1>6, <1>7, <1>8, <1>9, <1>10 DEF FarmInv

LEMMA InitFarm == FarmInit => FarmInv
<1> SUFFICES ASSUME FarmInit PROVE FarmInv
  OBVIOUS
<1>1. /\ plot \in [Plot -> Crop] /\ premium \in BOOLEAN
      /\ grown = 0 /\ cared = 0 /\ reaped = 0 /\ sown = 0 /\ harvested = 0 /\ planted = 0
      /\ plan = [h \in Hand |-> Nothing] /\ fresh = [h \in Hand |-> 0]
      /\ crossed = FALSE /\ unheard = FALSE /\ outdated = FALSE
  BY DEF FarmInit
<1>2. \A h \in Hand : ~Busy(h)
  BY <1>1 DEF Busy
<1>3. FarmTypeOK
  <2>1. plan \in [Hand -> [Chore -> SUBSET Plot]]
    BY <1>1, NothingIsPlanned DEF Plans
  <2>2. \A h \in Hand : plan[h]["vip"] \cup plan[h]["missing"] \subseteq plan[h]["rest"]
    BY <1>1, NothingIsPlanned DEF Chore, Sowing
  <2>3. fresh \in [Hand -> Nat] /\ \A h \in Hand : fresh[h] = 0
    BY <1>1
  <2>4. grown \in 0..Growth
    BY <1>1, FarmAssumption
  <2> QED
    BY <1>1, <2>1, <2>2, <2>3, <2>4 DEF FarmTypeOK
<1>4. SowsLast /\ OneAtATime
  BY <1>1, <1>2 DEF SowsLast, OneAtATime
<1>5. Rationed
  BY <1>1, NothingIsPlanned, FarmAssumption DEF Rationed, Chore
<1>6. Unreported = {}
  BY <1>1 DEF Unreported
<1>7. IsFiniteSet(Unreported) /\ CountsWereDone
  BY <1>1, <1>6, FS_EmptySet DEF CountsWereDone
<1>8. NoVainPlanting
  BY <1>1, NothingIsPlanned DEF NoVainPlanting, Chore
<1> QED
  BY <1>3, <1>4, <1>5, <1>7, <1>8 DEF FarmInv

LEMMA StepFarm == FarmInv /\ [FarmNext]_farmVars => FarmInv'
<1> SUFFICES ASSUME FarmInv, [FarmNext]_farmVars PROVE FarmInv'
  OBVIOUS
<1>1. CASE \E p \in Plot : Grow(p)
  BY <1>1, GrowKeeps
<1>2. ASSUME NEW h \in Hand, ReadStatus(h) PROVE FarmInv'
  BY <1>2, ReadKeeps
<1>3. ASSUME NEW h \in Hand, Abandon(h) PROVE FarmInv'
  BY <1>3, AbandonKeeps
<1>4. ASSUME NEW h \in Hand, Works(h) PROVE FarmInv'
  BY <1>4, WorkKeeps
<1>5. ASSUME NEW h \in Hand, PlantOne(h) PROVE FarmInv'
  BY <1>5, SowKeeps
<1>6. CASE UNCHANGED farmVars
  <2>1. FarmTypeOK'
    BY <1>6 DEF farmVars, FarmInv, FarmTypeOK, Busy, Nothing
  <2>2. SowsLast' /\ OneAtATime' /\ Rationed'
    BY <1>6 DEF farmVars, FarmInv, SowsLast, OneAtATime, Rationed, Busy, Nothing
  <2>3. IsFiniteSet(Unreported)' /\ CountsWereDone'
    BY <1>6 DEF farmVars, FarmInv, Unreported, CountsWereDone
  <2>4. NoVainPlanting'
    BY <1>6 DEF farmVars, FarmInv, NoVainPlanting
  <2> QED
    BY <2>1, <2>2, <2>3, <2>4 DEF FarmInv
<1> QED
  BY <1>1, <1>2, <1>3, <1>4, <1>5, <1>6 DEF FarmNext, Works

LEMMA FarmInvariant == FarmSpec => []FarmInv
BY InitFarm, StepFarm, PTL DEF FarmSpec

\* Every variable keeps its type, and a cycle that ends or is cut short leaves
\* no planting behind that is not reported.
THEOREM FarmTypeCorrect == FarmSpec => []FarmTypeOK
<1>1. FarmInv => FarmTypeOK
  BY DEF FarmInv
<1> QED
  BY <1>1, FarmInvariant, PTL

\* Cycles of GameEngine._run_farm_own() that do not overlap keep the limit of
\* waterings a day, whatever requests fail or go unanswered.
THEOREM CareCorrect == FarmSpec => []CareWithinLimit
<1>1. FarmInv => CareWithinLimit
  BY DEF FarmInv, Rationed, CareWithinLimit
<1> QED
  BY <1>1, FarmInvariant, PTL

\* FarmHarvest._harvested and FarmPlant._planted never exceed what was done,
\* with any number of cycles at once.
THEOREM CountsCorrect == FarmSpec => []CountsWereDone
<1>1. FarmInv => CountsWereDone
  BY DEF FarmInv
<1> QED
  BY <1>1, FarmInvariant, PTL

\* The three passes of FarmPlant.run() never plant a plot again.
THEOREM PlantingCorrect == FarmSpec => []NoVainPlanting
<1>1. FarmInv => NoVainPlanting
  BY DEF FarmInv
<1> QED
  BY <1>1, FarmInvariant, PTL

-----------------------------------------------------------------------------
(***************************************************************************)
(* FarmTables.  While nothing is marked, the row is covered by what the    *)
(* game has, allowing for a trade that is performed and not yet applied.   *)
(***************************************************************************)
Kept    == row # Missing
Done(d) == deal[d].stage = "performed"
Accepting(d) == deal[d].stage \in {"checked", "performed"}
Side == {"give", "get"}

\* One trade at a time is being accepted, and only museum items are traded.
OneDeal ==
    /\ \A d \in Side : deal[d].stage # "none" => deal[d].qty > 0 /\ table = "museum"
    /\ \A d, e \in Side : Accepting(d) /\ Accepting(e) => d = e

\* What has been given away is taken off the row when the trade is applied.
SurplusIsThere ==
    table = "museum" /\ Kept /\ marks \subseteq {"given"} =>
        /\ ~Done("give") => row.trade <= Surplus(have)
        /\ Done("give") /\ ~deal["give"].mixed => row.trade - deal["give"].qty <= Surplus(have)

\* What has been got is added then.
CountIsThere ==
    table = "museum" /\ Kept /\ marks = {} /\ ~Done("give") =>
        /\ ~Done("get") => row.count <= have
        /\ Done("get") /\ ~deal["get"].mixed => row.count + deal["get"].qty <= have

\* A row that was not written since the check still covers the trade.
CheckedIsThere ==
    Kept /\ Accepting("give") /\ ~deal["give"].mixed => row.trade >= deal["give"].qty

RepairedIsThere == table = "museum" /\ Kept /\ marks = {} /\ row.repaired => have >= Needed

\* Crops and levels only become more, and their rows are written by nobody else.
OthersAreRecorded ==
    table # "museum" =>
        /\ Kept => /\ row.count <= have /\ (row.repaired <=> row.count >= Needed)
                   /\ row.trade >= 0
        /\ \A k \in Clerk : desk[k].stage # "calibrate" /\ desk[k].seen <= have

\* A reading that is not older than the row says no less than the row.
ReadingsCover ==
    Kept /\ marks = {} =>
        \A k \in Clerk : ~desk[k].old /\ desk[k].stage \in {"farm", "sync"} =>
            /\ table = "museum" /\ row.repaired => desk[k].seen >= Needed
            /\ table = "land" => row.count <= desk[k].seen

TablesInv ==
    /\ TablesTypeOK /\ OneDeal /\ SurplusIsThere /\ CountIsThere /\ CheckedIsThere
    /\ RepairedIsThere /\ OthersAreRecorded /\ ReadingsCover /\ NeverOverdrawn

Rows  == [count: Nat, trade: Int, repaired: BOOLEAN]
Desks == [stage: {"idle", "farm", "sync", "calibrate"}, seen: 0..MaxHave, old: BOOLEAN]
Deals == [stage: {"none", "offered", "checked", "performed"}, qty: 0..MaxHave, mixed: BOOLEAN]

LEMMA TablesTypes ==
    TablesTypeOK <=>
        /\ table \in {"museum", "collection", "land"} /\ have \in 0..MaxHave
        /\ row \in Rows \cup {Missing}
        /\ desk \in [Clerk -> Desks]
        /\ \A k \in Clerk : desk[k].stage = "idle" => desk[k] = IdleDesk
        /\ deal \in [Side -> Deals]
        /\ marks \subseteq {"given", "stale", "mixed", "stacked", "unheard", "byhand"}
BY DEF TablesTypeOK, Rows, Desks, Deals, Side

LEMMA Recording ==
    ASSUME NEW n \in Nat
    PROVE  /\ Recorded(n) \in Rows /\ Recorded(n) # Missing
           /\ Recorded(n).count = n /\ Recorded(n).trade = Surplus(n)
           /\ Recorded(n).repaired <=> n >= Needed
           /\ Surplus(n) \in Nat
<1>1. Surplus(n) \in Nat
  BY TablesAssumption DEF Surplus
<1>2. /\ Recorded(n).count = n /\ Recorded(n).trade = Surplus(n)
      /\ Recorded(n).repaired = (n >= Needed)
      /\ Recorded(n) \in Rows
  BY <1>1 DEF Recorded, Rows
<1>3. Missing \notin Rows
  BY TablesAssumption DEF Rows
<1> QED
  BY <1>1, <1>2, <1>3

LEMMA InitTables == TablesInit => TablesInv
<1> SUFFICES ASSUME TablesInit PROVE TablesInv
  OBVIOUS
<1>1. /\ table \in {"museum", "collection", "land"}
      /\ have \in 0..MaxHave /\ have \in Nat
      /\ row = Missing \/ row = Recorded(have)
      /\ desk = [k \in Clerk |-> IdleDesk] /\ deal = [d \in Side |-> NoDeal]
      /\ marks = {}
  BY TablesAssumption DEF TablesInit, Side
<1>2. /\ Recorded(have) \in Rows
      /\ Recorded(have).count = have /\ Recorded(have).trade = Surplus(have)
      /\ Recorded(have).repaired <=> have >= Needed
      /\ Surplus(have) \in Nat
  BY <1>1, Recording
<1>3. \A k \in Clerk : desk[k] = IdleDesk
  BY <1>1
<1>4. \A d \in Side : deal[d] = NoDeal
  BY <1>1
<1>5. IdleDesk \in Desks /\ NoDeal \in Deals
  BY TablesAssumption DEF IdleDesk, NoDeal, Desks, Deals
<1>6. TablesTypeOK
  BY <1>1, <1>2, <1>5, TablesTypes
<1>7. OneDeal /\ CheckedIsThere
  BY <1>4 DEF OneDeal, CheckedIsThere, Accepting, NoDeal, Side
<1>8. ~Done("give") /\ ~Done("get")
  BY <1>4 DEF Done, NoDeal, Side
<1>9. SurplusIsThere /\ CountIsThere /\ RepairedIsThere /\ NeverOverdrawn
  BY <1>1, <1>2, <1>8 DEF SurplusIsThere, CountIsThere, RepairedIsThere, NeverOverdrawn, Kept
<1>10. OthersAreRecorded /\ ReadingsCover
  BY <1>1, <1>2, <1>3 DEF OthersAreRecorded, ReadingsCover, Kept, IdleDesk
<1> QED
  BY <1>6, <1>7, <1>9, <1>10 DEF TablesInv

LEMMA SurplusGrows ==
    ASSUME NEW m \in Nat, NEW n \in Nat, m <= n
    PROVE  Surplus(m) \in Nat /\ Surplus(n) \in Nat /\ Surplus(m) <= Surplus(n)
BY TablesAssumption DEF Surplus

\* What must be true of what a clerk holds.
DeskSound(x) ==
    /\ x \in Desks /\ (x.stage = "idle" => x = IdleDesk)
    /\ table # "museum" => x.stage # "calibrate" /\ x.seen <= have
    /\ Kept /\ marks = {} /\ ~x.old /\ x.stage \in {"farm", "sync"} =>
          /\ table = "museum" /\ row.repaired => x.seen >= Needed
          /\ table = "land" => row.count <= x.seen

LEMMA DesksAreSound ==
    ASSUME TablesInv
    PROVE  DeskSound(IdleDesk) /\ \A k \in Clerk : DeskSound(desk[k])
<1>1. have \in Nat /\ desk \in [Clerk -> Desks]
  BY TablesTypes, TablesAssumption DEF TablesInv
<1>2. DeskSound(IdleDesk)
  BY <1>1, TablesAssumption DEF DeskSound, IdleDesk, Desks
<1>3. ASSUME NEW k \in Clerk PROVE DeskSound(desk[k])
  <2>1. desk[k] \in Desks /\ (desk[k].stage = "idle" => desk[k] = IdleDesk)
    BY <1>1, TablesTypes DEF TablesInv
  <2>2. table # "museum" => desk[k].stage # "calibrate" /\ desk[k].seen <= have
    BY DEF TablesInv, OthersAreRecorded
  <2>3. Kept /\ marks = {} /\ ~desk[k].old /\ desk[k].stage \in {"farm", "sync"} =>
          /\ table = "museum" /\ row.repaired => desk[k].seen >= Needed
          /\ table = "land" => row.count <= desk[k].seen
    BY DEF TablesInv, ReadingsCover
  <2> QED
    BY <2>1, <2>2, <2>3 DEF DeskSound
<1> QED
  BY <1>2, <1>3

\* The game gives more, and clerks read: the row and trades are left alone.
LEMMA DeskKeeps ==
    ASSUME TablesInv, UNCHANGED <<table, row, deal, marks>>,
           have' \in 0..MaxHave, have <= have',
           desk' \in [Clerk -> Desks], \A k \in Clerk : DeskSound(desk'[k])
    PROVE  TablesInv'
<1>1. have \in Nat /\ have' \in Nat
  BY TablesTypes, TablesAssumption DEF TablesInv
<1>2. Surplus(have) \in Nat /\ Surplus(have') \in Nat /\ Surplus(have) <= Surplus(have')
  BY <1>1, SurplusGrows
<1>3. row \in Rows \cup {Missing} /\ deal \in [Side -> Deals] /\ Needed \in Nat
  BY TablesTypes, TablesAssumption DEF TablesInv
<1>4. Kept => row.count \in Nat /\ row.trade \in Int
  BY <1>3 DEF Kept, Rows
<1>5. deal["give"].qty \in Nat /\ deal["get"].qty \in Nat
  BY <1>3, TablesAssumption DEF Side, Deals
<1>6. TablesTypeOK'
  BY TablesTypes DEF TablesInv, TablesTypeOK, DeskSound, Side, Desks
<1>7. OneDeal'
  BY DEF TablesInv, OneDeal, Accepting
<1>8. SurplusIsThere'
  BY <1>2, <1>4, <1>5 DEF TablesInv, SurplusIsThere, Kept, Done, Surplus
<1>9. CountIsThere'
  BY <1>1, <1>4, <1>5 DEF TablesInv, CountIsThere, Kept, Done
<1>10. CheckedIsThere' /\ NeverOverdrawn'
  BY DEF TablesInv, CheckedIsThere, NeverOverdrawn, Kept, Accepting
<1>11. RepairedIsThere'
  BY <1>1, <1>3 DEF TablesInv, RepairedIsThere, Kept
<1>12. OthersAreRecorded'
  <2>1. table # "museum" /\ Kept => /\ row.count <= have'
                                    /\ (row.repaired <=> row.count >= Needed)
                                    /\ row.trade >= 0
    BY <1>1, <1>4 DEF TablesInv, OthersAreRecorded
  <2>2. \A k \in Clerk : desk'[k].seen \in Nat
    BY TablesAssumption DEF Desks
  <2>3. table # "museum" =>
          \A k \in Clerk : desk'[k].stage # "calibrate" /\ desk'[k].seen <= have'
    BY <1>1, <2>2 DEF DeskSound
  <2> QED
    BY <2>1, <2>3 DEF OthersAreRecorded, Kept
<1>13. ReadingsCover'
  BY DEF ReadingsCover, DeskSound, Kept
<1> QED
  BY <1>6, <1>7, <1>8, <1>9, <1>10, <1>11, <1>12, <1>13 DEF TablesInv

\* One clerk's desk changes.
LEMMA OneDesk ==
    ASSUME TablesInv, NEW k \in Clerk, NEW x, DeskSound(x), desk' = [desk EXCEPT ![k] = x]
    PROVE  desk' \in [Clerk -> Desks] /\ \A c \in Clerk : DeskSound(desk'[c])
<1>1. desk \in [Clerk -> Desks] /\ x \in Desks
  BY TablesTypes DEF TablesInv, DeskSound
<1>2. \A c \in Clerk : DeskSound(desk[c])
  BY DesksAreSound
<1>3. desk' \in [Clerk -> Desks] /\ \A c \in Clerk : desk'[c] = IF c = k THEN x ELSE desk[c]
  BY <1>1
<1> HIDE DEF DeskSound
<1> QED
  BY <1>2, <1>3

LEMMA ReadingKeeps ==
    ASSUME TablesInv, NEW k \in Clerk, ReadFarm(k) \/ ReadTradable(k)
    PROVE  TablesInv'
<1>1. have \in 0..MaxHave /\ have \in Nat /\ Needed \in Nat
  BY TablesTypes, TablesAssumption DEF TablesInv
<1>2. UNCHANGED <<table, have, row, deal, marks>>
  BY DEF ReadFarm, ReadTradable, OnlyDesk
<1>3. Kept => row.count \in Nat
  BY TablesTypes DEF TablesInv, Kept, Rows
<1>4. ASSUME NEW x, DeskSound(x), desk' = [desk EXCEPT ![k] = x] PROVE TablesInv'
  <2>1. desk' \in [Clerk -> Desks] /\ \A c \in Clerk : DeskSound(desk'[c])
    BY <1>4, OneDesk
  <2> QED
    BY <1>1, <1>2, <2>1, DeskKeeps
<1>5. CASE ReadFarm(k)
  <2> DEFINE x == [stage |-> "farm", seen |-> have, old |-> FALSE]
  <2>1. x \in Desks /\ x.stage = "farm" /\ x.seen = have
    BY <1>1 DEF Desks
  <2> HIDE DEF x
  <2>2. DeskSound(x)
    <3>1. table # "museum" => x.stage # "calibrate" /\ x.seen <= have
      BY <1>1, <2>1
    <3>2. Kept /\ marks = {} /\ table = "museum" /\ row.repaired => x.seen >= Needed
      BY <2>1 DEF TablesInv, RepairedIsThere
    <3>3. Kept /\ table = "land" => row.count <= x.seen
      BY <2>1 DEF TablesInv, OthersAreRecorded
    <3> QED
      BY <2>1, <3>1, <3>2, <3>3 DEF DeskSound
  <2> QED
    BY <1>4, <1>5, <2>2 DEF ReadFarm, x
<1>6. CASE ReadTradable(k)
  <2> DEFINE x == [stage |-> "calibrate", seen |-> Surplus(have), old |-> FALSE]
  <2>1. Surplus(have) \in 0..MaxHave
    BY <1>1, TablesAssumption DEF Surplus
  <2>2. x \in Desks /\ x.stage = "calibrate"
    BY <2>1 DEF Desks
  <2> HIDE DEF x
  <2>3. DeskSound(x)
    BY <1>6, <2>2 DEF DeskSound, ReadTradable
  <2> QED
    BY <1>4, <1>6, <2>3 DEF ReadTradable, x
<1> QED
  BY <1>5, <1>6

LEMMA GainKeeps ==
    ASSUME TablesInv, Gain
    PROVE  TablesInv'
<1>1. have \in 0..MaxHave /\ desk \in [Clerk -> Desks]
  BY TablesTypes DEF TablesInv
<1>2. UNCHANGED <<table, row, desk, deal, marks>> /\ have' \in 0..MaxHave /\ have <= have'
  BY <1>1, TablesAssumption DEF Gain
<1> QED
  BY <1>1, <1>2, DesksAreSound, DeskKeeps

LEMMA UpgradeKeeps ==
    ASSUME TablesInv, NEW k \in Clerk, UpgradeLand(k)
    PROVE  TablesInv'
<1>1. have \in 0..MaxHave /\ desk \in [Clerk -> Desks]
  BY TablesTypes DEF TablesInv
<1>2. UNCHANGED <<table, row, deal, marks>> /\ have' \in 0..MaxHave /\ have <= have'
  BY <1>1, TablesAssumption DEF UpgradeLand
<1> DEFINE x == [desk[k] EXCEPT !.stage = "sync"]
<1>3. desk' = [desk EXCEPT ![k] = x] /\ desk[k].stage = "farm" /\ desk[k] \in Desks
  BY <1>1 DEF UpgradeLand
<1>4. x \in Desks /\ x.stage = "sync" /\ x.seen = desk[k].seen /\ x.old = desk[k].old
  BY <1>3 DEF Desks
<1> HIDE DEF x
<1>5. DeskSound(desk[k])
  BY DesksAreSound
<1>6. DeskSound(x)
  BY <1>3, <1>4, <1>5 DEF DeskSound
<1> QED
  BY <1>2, <1>3, <1>6, OneDesk, DeskKeeps

LEMMA NothingWrittenKeeps ==
    ASSUME TablesInv, NEW k \in Clerk, NothingWritten(k), UNCHANGED <<table, have>>
    PROVE  TablesInv'
<1>1. have \in 0..MaxHave /\ have <= have
  BY TablesTypes, TablesAssumption DEF TablesInv
<1>2. desk' = [desk EXCEPT ![k] = IdleDesk] /\ DeskSound(IdleDesk)
  BY DesksAreSound DEF NothingWritten
<1>3. desk' \in [Clerk -> Desks] /\ \A c \in Clerk : DeskSound(desk'[c])
  BY <1>2, OneDesk
<1> QED
  BY <1>1, <1>3, DeskKeeps DEF NothingWritten

LEMMA DeskIsIdle ==
    ASSUME NEW x \in Desks, x.stage = "idle", x.seen = 0, x.old = FALSE
    PROVE  x = IdleDesk
BY DEF Desks, IdleDesk

\* Other clerks' readings and the check of a trade are older than a row written now.
LEMMA WritingAges ==
    ASSUME TablesTypeOK, NEW k \in Clerk, Written(k)
    PROVE  /\ desk' \in [Clerk -> Desks] /\ deal' \in [Side -> Deals]
           /\ \A c \in Clerk :
                /\ desk'[c].stage = "idle" => desk'[c] = IdleDesk
                /\ desk'[c].stage # "idle" =>
                     desk'[c].stage = desk[c].stage /\ desk'[c].seen = desk[c].seen /\ desk'[c].old
           /\ \A d \in Side :
                /\ deal'[d].stage = deal[d].stage /\ deal'[d].qty = deal[d].qty
                /\ Accepting(d) => deal'[d].mixed
<1>1. desk \in [Clerk -> Desks] /\ deal \in [Side -> Deals]
      /\ \A c \in Clerk : desk[c].stage = "idle" => desk[c] = IdleDesk
  BY TablesTypes
<1>2. IdleDesk \in Desks
      /\ IdleDesk.stage = "idle" /\ IdleDesk.seen = 0 /\ IdleDesk.old = FALSE
  BY TablesAssumption DEF IdleDesk, Desks
<1> DEFINE Aged(c) == [desk[c] EXCEPT !.old = desk[c].stage # "idle"]
           Mixed(d) == [deal[d] EXCEPT !.mixed = @ \/ deal[d].stage \in {"checked", "performed"}]
<1>3. ASSUME NEW c \in Clerk
      PROVE  /\ Aged(c) \in Desks /\ Aged(c).stage = desk[c].stage /\ Aged(c).seen = desk[c].seen
             /\ Aged(c).old = (desk[c].stage # "idle")
             /\ desk[c].stage = "idle" => Aged(c) = IdleDesk
  <2>1. desk[c] \in Desks
    BY <1>1
  <2>2. /\ Aged(c) \in Desks /\ Aged(c).stage = desk[c].stage /\ Aged(c).seen = desk[c].seen
        /\ Aged(c).old = (desk[c].stage # "idle")
    BY <2>1 DEF Desks
  <2>3. ASSUME desk[c].stage = "idle" PROVE Aged(c) = IdleDesk
    <3>1. desk[c] = IdleDesk
      BY <1>1, <2>3
    <3> HIDE DEF Aged
    <3>2. Aged(c).stage = "idle" /\ Aged(c).seen = 0 /\ Aged(c).old = FALSE
      BY <1>2, <2>2, <2>3, <3>1
    <3> QED
      BY <2>2, <3>2, DeskIsIdle
  <2> QED
    BY <2>2, <2>3
<1>4. ASSUME NEW d \in Side
      PROVE  /\ Mixed(d) \in Deals /\ Mixed(d).stage = deal[d].stage /\ Mixed(d).qty = deal[d].qty
             /\ Accepting(d) => Mixed(d).mixed
  <2>1. deal[d] \in Deals
    BY <1>1
  <2> QED
    BY <2>1 DEF Deals, Accepting
<1>5. desk' = [c \in Clerk |-> IF c = k THEN IdleDesk ELSE Aged(c)]
  BY DEF Written
<1>6. deal' = [d \in Side |-> Mixed(d)]
  BY <1>1 DEF Written
<1> HIDE DEF Aged, Mixed
<1>7. desk' \in [Clerk -> Desks] /\ deal' \in [Side -> Deals]
  BY <1>2, <1>3, <1>4, <1>5, <1>6
<1>8. \A c \in Clerk : desk'[c] = IF c = k THEN IdleDesk ELSE Aged(c)
  BY <1>5
<1>9. \A c \in Clerk :
        /\ desk'[c].stage = "idle" => desk'[c] = IdleDesk
        /\ desk'[c].stage # "idle" =>
             desk'[c].stage = desk[c].stage /\ desk'[c].seen = desk[c].seen /\ desk'[c].old
  BY <1>2, <1>3, <1>8
<1>10. \A d \in Side :
         /\ deal'[d].stage = deal[d].stage /\ deal'[d].qty = deal[d].qty
         /\ Accepting(d) => deal'[d].mixed
  BY <1>4, <1>6
<1> QED
  BY <1>7, <1>9, <1>10

LEMMA WritingKeeps ==
    ASSUME TablesInv, NEW k \in Clerk, Written(k), UNCHANGED <<table, have>>,
           row' \in Rows, marks' \subseteq {"given", "stale", "mixed", "stacked", "unheard", "byhand"},
           table = "museum" /\ marks' \subseteq {"given"} => row'.trade <= Surplus(have),
           table = "museum" /\ marks' = {} /\ ~Done("give") /\ ~Done("get") => row'.count <= have,
           table = "museum" /\ marks' = {} /\ row'.repaired => have >= Needed,
           table # "museum" => /\ row'.count <= have /\ (row'.repaired <=> row'.count >= Needed)
                               /\ row'.trade >= 0,
           marks' \cap {"mixed"} = {} => row'.trade >= 0
    PROVE  TablesInv'
<1>1. /\ desk' \in [Clerk -> Desks] /\ deal' \in [Side -> Deals]
      /\ \A c \in Clerk :
           /\ desk'[c].stage = "idle" => desk'[c] = IdleDesk
           /\ desk'[c].stage # "idle" =>
                desk'[c].stage = desk[c].stage /\ desk'[c].seen = desk[c].seen /\ desk'[c].old
      /\ \A d \in Side :
           /\ deal'[d].stage = deal[d].stage /\ deal'[d].qty = deal[d].qty
           /\ Accepting(d) => deal'[d].mixed
  BY WritingAges DEF TablesInv
<1>2. table \in {"museum", "collection", "land"} /\ have \in 0..MaxHave
  BY TablesTypes DEF TablesInv
<1>3. TablesTypeOK'
  BY <1>1, <1>2 DEF TablesTypeOK, Rows, Desks, Deals, Side
<1>4. OneDeal'
  BY <1>1 DEF TablesInv, OneDeal, Accepting, Side
<1>5. \A d \in Side : (Done(d)' <=> Done(d)) /\ (Done(d) => deal'[d].mixed)
                      /\ (Accepting(d)' <=> Accepting(d))
  BY <1>1 DEF Done, Accepting
<1>6. SurplusIsThere'
  BY <1>5 DEF SurplusIsThere, Side, Surplus
<1>7. CountIsThere'
  BY <1>5 DEF CountIsThere, Side
<1>8. CheckedIsThere'
  BY <1>1, <1>5 DEF CheckedIsThere, Side
<1>9. RepairedIsThere' /\ NeverOverdrawn'
  BY DEF RepairedIsThere, NeverOverdrawn
<1>10. OthersAreRecorded'
  <2>1. table # "museum" =>
          \A c \in Clerk : desk'[c].stage # "calibrate" /\ desk'[c].seen <= have
    <3> SUFFICES ASSUME table # "museum", NEW c \in Clerk
                 PROVE  desk'[c].stage # "calibrate" /\ desk'[c].seen <= have
      OBVIOUS
    <3>1. CASE desk'[c].stage = "idle"
      BY <1>1, <1>2, <3>1, TablesAssumption DEF IdleDesk
    <3>2. CASE desk'[c].stage # "idle"
      BY <1>1, <3>2 DEF TablesInv, OthersAreRecorded
    <3> QED
      BY <3>1, <3>2
  <2> QED
    BY <2>1 DEF OthersAreRecorded
<1>11. ReadingsCover'
  BY <1>1 DEF ReadingsCover
<1> QED
  BY <1>3, <1>4, <1>6, <1>7, <1>8, <1>9, <1>10, <1>11 DEF TablesInv

LEMMA SyncKeeps ==
    ASSUME TablesInv, NEW k \in Clerk, SyncTable(k)
    PROVE  TablesInv'
<1> DEFINE n == desk[k].seen
<1>1. n \in Nat /\ have \in Nat /\ Needed \in Nat
  BY TablesTypes, TablesAssumption DEF TablesInv, Desks
<1>2. /\ Recorded(n) \in Rows
      /\ Recorded(n).count = n /\ Recorded(n).trade = Surplus(n)
      /\ Recorded(n).repaired <=> n >= Needed
      /\ Surplus(n) \in Nat
  BY <1>1, Recording
<1>3. UNCHANGED <<table, have>>
  BY DEF SyncTable
<1>4. CASE NothingWritten(k)
  BY <1>3, <1>4, NothingWrittenKeeps
<1>5. CASE /\ row' = Synchronised(n) /\ Written(k)
           /\ marks' = IF n > have THEN {"stale"} ELSE {}
  <2>1. marks' \subseteq {"given", "stale", "mixed", "stacked", "unheard", "byhand"}
        /\ (marks' \subseteq {"given"} => n <= have)
    BY <1>1, <1>5
  <2>2. table = "museum" => row' = Recorded(n)
    BY <1>5 DEF Synchronised
  <2>3. row' = Recorded(n) \/ (row' = row /\ Kept /\ table # "museum")
    BY <1>5 DEF Synchronised, Kept
  <2>4. row' \in Rows
    BY <1>2, <2>3, TablesTypes DEF TablesInv, Kept
  <2>5. n <= have => Surplus(n) <= Surplus(have)
    BY <1>1, SurplusGrows
  <2>6. table = "museum" /\ marks' \subseteq {"given"} => row'.trade <= Surplus(have)
    BY <1>2, <2>1, <2>2, <2>5
  <2>7. table = "museum" /\ marks' = {} => row'.count <= have
    BY <1>2, <2>1, <2>2
  <2>8. table = "museum" /\ marks' = {} /\ row'.repaired => have >= Needed
    BY <1>1, <1>2, <2>1, <2>2
  <2>9. table # "museum" => /\ row'.count <= have /\ (row'.repaired <=> row'.count >= Needed)
                            /\ row'.trade >= 0
    <3>1. table # "museum" => n <= have
      BY DEF TablesInv, OthersAreRecorded
    <3> QED
      BY <1>1, <1>2, <2>3, <3>1 DEF TablesInv, OthersAreRecorded
  <2>10. row'.trade >= 0
    BY <1>2, <2>2, <2>9
  <2> QED
    BY <1>3, <1>5, <2>1, <2>4, <2>6, <2>7, <2>8, <2>9, <2>10, WritingKeeps
<1> QED
  BY <1>4, <1>5 DEF SyncTable

LEMMA CalibrateKeeps ==
    ASSUME TablesInv, NEW k \in Clerk, Calibrate(k)
    PROVE  TablesInv'
<1> DEFINE n == desk[k].seen
<1>1. n \in Nat /\ have \in Nat /\ Needed \in Nat /\ Surplus(have) \in Nat
  BY TablesTypes, TablesAssumption DEF TablesInv, Desks, Surplus
<1>2. UNCHANGED <<table, have>> /\ desk[k].stage = "calibrate"
  BY DEF Calibrate
<1>3. table = "museum"
  BY <1>2 DEF TablesInv, OthersAreRecorded
<1>4. CASE NothingWritten(k)
  BY <1>2, <1>4, NothingWrittenKeeps
<1>5. CASE /\ row # Missing /\ row' = [row EXCEPT !.trade = n] /\ Written(k)
           /\ marks' = IF n > Surplus(have) THEN marks \cup {"stale"} ELSE marks
  <2>1. row \in Rows
    BY <1>5, TablesTypes DEF TablesInv
  <2>2. /\ row' \in Rows /\ row'.trade = n
        /\ row'.count = row.count /\ row'.repaired = row.repaired
    BY <1>1, <1>5, <2>1 DEF Rows
  <2>3. marks' \subseteq {"given", "stale", "mixed", "stacked", "unheard", "byhand"}
        /\ (marks' \subseteq {"given"} => n <= Surplus(have)) /\ (marks' = {} => marks = {})
    BY <1>1, <1>5, TablesTypes DEF TablesInv
  <2>4. marks' = {} /\ ~Done("give") /\ ~Done("get") => row'.count <= have
    BY <1>3, <1>5, <2>2, <2>3 DEF TablesInv, CountIsThere, Kept
  <2>5. marks' = {} /\ row'.repaired => have >= Needed
    BY <1>3, <1>5, <2>2, <2>3 DEF TablesInv, RepairedIsThere, Kept
  <2>6. row'.trade >= 0
    BY <1>1, <2>2
  <2> QED
    BY <1>2, <1>3, <1>5, <2>2, <2>3, <2>4, <2>5, <2>6, WritingKeeps
<1> QED
  BY <1>4, <1>5 DEF Calibrate

\* A trade is offered, checked or rejected: the row and the game are left alone.
LEMMA DealKeeps ==
    ASSUME TablesInv, UNCHANGED <<table, have, row, desk, marks>>, NEW d \in Side, NEW x \in Deals,
           deal' = [deal EXCEPT ![d] = x], ~Done(d), x.stage # "performed",
           x.stage # "none" => x.qty > 0 /\ table = "museum",
           x.stage = "checked" =>
               /\ \A e \in Side \ {d} : ~Accepting(e)
               /\ d = "give" /\ Kept => row.trade >= x.qty
    PROVE  TablesInv'
<1>1. deal \in [Side -> Deals]
  BY TablesTypes DEF TablesInv
<1>2. /\ deal' \in [Side -> Deals] /\ deal'[d] = x
      /\ \A e \in Side \ {d} : deal'[e] = deal[e]
  BY <1>1
<1>3. TablesTypeOK'
  BY <1>2 DEF TablesInv, TablesTypeOK, Side, Deals
<1>4. \A e \in Side : Done(e)' <=> Done(e)
  BY <1>2 DEF Done
<1>5. \A e \in Side : Done(e) => deal'[e] = deal[e]
  BY <1>2 DEF Done
<1>6. OneDeal'
  BY <1>2 DEF TablesInv, OneDeal, Accepting
<1>7. SurplusIsThere'
  BY <1>4, <1>5 DEF TablesInv, SurplusIsThere, Side, Kept, Surplus
<1>8. CountIsThere'
  BY <1>4, <1>5 DEF TablesInv, CountIsThere, Side, Kept
<1>9. CheckedIsThere'
  <2>1. CASE d = "give"
    BY <1>2, <2>1 DEF CheckedIsThere, Accepting, Kept
  <2>2. CASE d # "give"
    BY <1>2, <2>2 DEF TablesInv, CheckedIsThere, Accepting, Kept, Side
  <2> QED
    BY <2>1, <2>2
<1>10. RepairedIsThere' /\ OthersAreRecorded' /\ ReadingsCover' /\ NeverOverdrawn'
  BY DEF TablesInv, RepairedIsThere, OthersAreRecorded, ReadingsCover, NeverOverdrawn, Kept
<1> QED
  BY <1>3, <1>6, <1>7, <1>8, <1>9, <1>10 DEF TablesInv

LEMMA NegotiationKeeps ==
    ASSUME TablesInv, NEW d \in Side, Offer(d) \/ CheckTrade(d) \/ Reject(d)
    PROVE  TablesInv'
<1>1. deal \in [Side -> Deals] /\ MaxHave \in Nat /\ DOMAIN deal = Side
  BY TablesTypes, TablesAssumption DEF TablesInv
<1>2. UNCHANGED <<table, have, row, desk, marks>>
  BY DEF Offer, CheckTrade, Reject, OnlyDeal
<1>3. NoDeal \in Deals /\ NoDeal.stage = "none"
  BY <1>1 DEF NoDeal, Deals
<1>4. CASE Offer(d)
  <2>1. PICK n \in 1..(IF d = "give" THEN row.trade ELSE MaxHave) :
          n <= MaxHave /\ deal' = [deal EXCEPT ![d] = [NoDeal EXCEPT !.stage = "offered", !.qty = n]]
    BY <1>4 DEF Offer
  <2>2. row # Missing
    BY <1>4 DEF Offer
  <2>3. n \in Nat /\ n > 0
    BY <1>1, <2>1, <2>2, TablesTypes DEF TablesInv, Rows
  <2> DEFINE x == [NoDeal EXCEPT !.stage = "offered", !.qty = n]
  <2>4. x \in Deals /\ x.stage = "offered" /\ x.qty = n
    <3>1. n \in 0..MaxHave
      BY <1>1, <2>1, <2>3
    <3>2. ASSUME NEW r \in Deals
          PROVE  LET y == [r EXCEPT !.stage = "offered", !.qty = n]
                 IN  y \in Deals /\ y.stage = "offered" /\ y.qty = n
      BY <3>1 DEF Deals
    <3> QED
      BY <1>3, <3>2
  <2>5. table = "museum" /\ ~Done(d)
    BY <1>4 DEF Offer, Done
  <2> HIDE DEF x
  <2> QED
    BY <1>2, <2>1, <2>3, <2>4, <2>5, DealKeeps DEF x
<1>5. CASE CheckTrade(d)
  <2> DEFINE x == [deal[d] EXCEPT !.stage = "checked"]
  <2>1. deal[d] \in Deals /\ deal[d].stage = "offered"
    BY <1>1, <1>5 DEF CheckTrade
  <2>2. x \in Deals /\ x.stage = "checked" /\ x.qty = deal[d].qty
    BY <2>1 DEF Deals
  <2>3. deal' = [deal EXCEPT ![d] = IF Enough(d) THEN x ELSE NoDeal]
    BY <1>1, <1>5 DEF CheckTrade
  <2>4. ~Done(d) /\ table = "museum" /\ deal[d].qty > 0
    BY <2>1 DEF Done, TablesInv, OneDeal
  <2>5. \A e \in Side : ~Accepting(e)
    BY <1>1, <1>5 DEF CheckTrade, Accepting
  <2>6. Enough(d) /\ d = "give" => row.trade >= deal[d].qty
    BY DEF Enough
  <2> HIDE DEF x
  <2>7. CASE Enough(d)
    <3>1. deal' = [deal EXCEPT ![d] = x]
      BY <2>3, <2>7
    <3> QED
      BY <1>2, <2>2, <2>4, <2>5, <2>6, <2>7, <3>1, DealKeeps
  <2>8. CASE ~Enough(d)
    <3>1. deal' = [deal EXCEPT ![d] = NoDeal]
      BY <2>3, <2>8
    <3> QED
      BY <1>2, <1>3, <2>4, <3>1, DealKeeps
  <2> QED
    BY <2>7, <2>8
<1>6. CASE Reject(d)
  <2>1. ~Done(d) /\ deal' = [deal EXCEPT ![d] = NoDeal]
    BY <1>6 DEF Reject, Done
  <2> QED
    BY <1>2, <1>3, <2>1, DealKeeps
<1> QED
  BY <1>4, <1>5, <1>6

\* When no trade is being accepted, the row itself is covered.
LEMMA QuietKeeps ==
    ASSUME TablesTypeOK', OneDeal', \A e \in Side : ~Accepting(e)',
           (table = "museum" /\ Kept /\ marks \subseteq {"given"} => row.trade <= Surplus(have))',
           (table = "museum" /\ Kept /\ marks = {} =>
                row.count <= have /\ (row.repaired => have >= Needed))',
           OthersAreRecorded', ReadingsCover', NeverOverdrawn'
    PROVE  TablesInv'
<1>1. \A e \in Side : ~Done(e)'
  BY DEF Done, Accepting
<1>2. SurplusIsThere' /\ CountIsThere' /\ CheckedIsThere' /\ RepairedIsThere'
  BY <1>1 DEF SurplusIsThere, CountIsThere, CheckedIsThere, RepairedIsThere, Side
<1> QED
  BY <1>2 DEF TablesInv

\* A trade ends, whether well or not.
LEMMA EndingQuiets ==
    ASSUME TablesInv, NEW d \in Side, Accepting(d), deal' = [deal EXCEPT ![d] = NoDeal],
           table' = table
    PROVE  /\ deal' \in [Side -> Deals] /\ OneDeal'
           /\ \A e \in Side : ~Accepting(e)'
           /\ table = "museum" /\ deal[d].qty \in Nat /\ deal[d].qty > 0
           /\ \A e \in Side \ {d} : ~Accepting(e)
<1>1. deal \in [Side -> Deals] /\ MaxHave \in Nat
  BY TablesTypes, TablesAssumption DEF TablesInv
<1>2. NoDeal \in Deals /\ NoDeal.stage = "none"
  BY <1>1 DEF NoDeal, Deals
<1>3. /\ deal' \in [Side -> Deals] /\ deal'[d] = NoDeal
      /\ \A e \in Side \ {d} : deal'[e] = deal[e]
  BY <1>1, <1>2
<1>4. \A e \in Side \ {d} : ~Accepting(e)
  BY DEF TablesInv, OneDeal
<1>5. \A e \in Side : ~Accepting(e)'
  BY <1>2, <1>3, <1>4 DEF Accepting
<1>6. OneDeal'
  BY <1>2, <1>3, <1>5 DEF TablesInv, OneDeal
<1>7. table = "museum" /\ deal[d].qty \in Nat /\ deal[d].qty > 0
  BY <1>1 DEF TablesInv, OneDeal, Accepting, Deals
<1> QED
  BY <1>3, <1>4, <1>5, <1>6, <1>7

LEMMA PerformKeeps ==
    ASSUME TablesInv, NEW d \in Side, PerformTrade(d)
    PROVE  TablesInv'
<1> DEFINE n == deal[d].qty
<1>1. /\ deal \in [Side -> Deals] /\ have \in Nat /\ have' \in 0..MaxHave /\ have' \in Nat
      /\ row \in Rows \cup {Missing} /\ Needed \in Nat /\ Needed > 0
  BY TablesTypes, TablesAssumption DEF TablesInv, PerformTrade
<1>2. /\ deal[d].stage = "checked" /\ Accepting(d)
      /\ d = "give" => Surplus(have) >= n
      /\ have' = Traded(d) /\ UNCHANGED <<table, row, desk>>
  BY DEF PerformTrade, Accepting
<1>3. /\ table = "museum" /\ n \in Nat /\ n > 0 /\ n \in 0..MaxHave
      /\ \A e \in Side \ {d} : ~Accepting(e)
  BY <1>1, <1>2 DEF TablesInv, OneDeal, Accepting, Deals
<1>4. ~Done("give") /\ ~Done("get")
  BY <1>2, <1>3 DEF Done, Accepting, Side
<1>5. OthersAreRecorded'
  BY <1>2, <1>3 DEF OthersAreRecorded
<1>6. CASE deal' = [deal EXCEPT ![d] = NoDeal] /\ marks' = marks \cup {"unheard"}
  <2>1. /\ deal' \in [Side -> Deals] /\ OneDeal' /\ \A e \in Side : ~Accepting(e)'
    BY <1>2, <1>6, EndingQuiets
  <2>2. TablesTypeOK'
    BY <1>1, <1>2, <1>6, <2>1 DEF TablesInv, TablesTypeOK, Side, Deals
  <2>3. "unheard" \in marks' /\ ("mixed" \in marks => "mixed" \in marks')
    BY <1>6
  <2>4. ReadingsCover'
    BY <2>3 DEF ReadingsCover
  <2>5. NeverOverdrawn'
    BY <1>2, <2>3 DEF TablesInv, NeverOverdrawn
  <2> QED
    BY <1>5, <2>1, <2>2, <2>3, <2>4, <2>5, QuietKeeps
<1>7. CASE deal' = [deal EXCEPT ![d].stage = "performed"] /\ UNCHANGED marks
  <2>1. deal[d] \in Deals
    BY <1>1
  <2>2. /\ deal' \in [Side -> Deals] /\ deal'[d].stage = "performed" /\ deal'[d].qty = n
        /\ deal'[d].mixed = deal[d].mixed
        /\ \A e \in Side \ {d} : deal'[e] = deal[e]
    BY <1>1, <1>7, <2>1 DEF Deals
  <2>3. TablesTypeOK'
    BY <1>1, <1>2, <1>7, <2>2 DEF TablesInv, TablesTypeOK, Side, Deals
  <2>4. OneDeal'
    BY <1>2, <1>3, <2>2 DEF TablesInv, OneDeal, Accepting
  <2>5. \A e \in Side : Accepting(e)' <=> e = d
    BY <1>3, <2>2 DEF Accepting
  <2>6. \A e \in Side : Done(e)' <=> e = d
    BY <1>3, <2>2 DEF Done, Accepting
  <2>7. ReadingsCover' /\ NeverOverdrawn'
    BY <1>2, <1>7 DEF TablesInv, ReadingsCover, NeverOverdrawn, Kept
  <2>8. CheckedIsThere'
    BY <1>2, <2>2, <2>5 DEF TablesInv, CheckedIsThere, Kept, Side
  <2>9. Kept => row.count \in Nat /\ row.trade \in Int
    BY <1>1 DEF Kept, Rows
  <2>10. CASE d = "give"
    <3>1. have' = have - n /\ have' >= Needed /\ Surplus(have') = Surplus(have) - n
          /\ Surplus(have) \in Nat
      BY <1>1, <1>2, <1>3, <2>10 DEF Traded, Surplus
    <3>2. SurplusIsThere'
      <4> SUFFICES ASSUME Kept, marks \subseteq {"given"}
                   PROVE  row.trade - n <= Surplus(have')
        BY <1>2, <1>7, <2>2, <2>6, <2>10 DEF SurplusIsThere, Kept, Side, Surplus
      <4>1. row.trade <= Surplus(have)
        BY <1>3, <1>4 DEF TablesInv, SurplusIsThere
      <4> QED
        BY <1>3, <2>9, <3>1, <4>1
    <3>3. CountIsThere'
      BY <2>6, <2>10 DEF CountIsThere, Side
    <3>4. RepairedIsThere'
      BY <3>1 DEF RepairedIsThere
    <3> QED
      BY <1>5, <2>3, <2>4, <2>7, <2>8, <3>2, <3>3, <3>4 DEF TablesInv
  <2>11. CASE d = "get"
    <3>1. have' = have + n /\ Surplus(have) \in Nat /\ Surplus(have') \in Nat
          /\ Surplus(have) <= Surplus(have')
      BY <1>1, <1>2, <1>3, <2>11 DEF Traded, Surplus
    <3>2. SurplusIsThere'
      <4> SUFFICES ASSUME Kept, marks \subseteq {"given"}
                   PROVE  row.trade <= Surplus(have')
        BY <1>2, <1>7, <2>2, <2>6, <2>11 DEF SurplusIsThere, Kept, Side, Surplus
      <4>1. row.trade <= Surplus(have)
        BY <1>3, <1>4 DEF TablesInv, SurplusIsThere
      <4> QED
        BY <1>3, <2>9, <3>1, <4>1
    <3>3. CountIsThere'
      <4> SUFFICES ASSUME Kept, marks = {}
                   PROVE  row.count + n <= have'
        BY <1>2, <1>7, <2>2, <2>6, <2>11 DEF CountIsThere, Kept, Side
      <4>1. row.count <= have
        BY <1>3, <1>4 DEF TablesInv, CountIsThere
      <4> QED
        BY <1>1, <1>3, <2>9, <3>1, <4>1
    <3>4. RepairedIsThere'
      BY <1>1, <1>2, <1>3, <1>7, <3>1 DEF TablesInv, RepairedIsThere, Kept
    <3> QED
      BY <1>5, <2>3, <2>4, <2>7, <2>8, <3>2, <3>3, <3>4 DEF TablesInv
  <2> QED
    BY <2>10, <2>11 DEF Side
<1> QED
  BY <1>6, <1>7 DEF PerformTrade

LEMMA ByHandKeeps ==
    ASSUME TablesInv, NEW d \in Side, AcceptByHand(d)
    PROVE  TablesInv'
<1>1. /\ deal \in [Side -> Deals] /\ have \in Nat /\ have \in 0..MaxHave /\ MaxHave \in Nat
      /\ row \in Rows \cup {Missing} /\ Needed \in Nat /\ Needed > 0
  BY TablesTypes, TablesAssumption DEF TablesInv
<1>2. table = "museum" /\ UNCHANGED <<table, row, desk>>
  BY DEF AcceptByHand
<1>3. PICK n \in 1..MaxHave :
          /\ \/ UNCHANGED deal
             \/ /\ deal[d].stage \in {"offered", "checked"}
                /\ deal' = [deal EXCEPT ![d] = NoDeal]
          /\ \/ /\ d = "give" /\ Surplus(have) >= n /\ have' = have - n
                /\ marks' = marks \cup {"byhand"}
             \/ d = "get" /\ have + n <= MaxHave /\ have' = have + n /\ UNCHANGED marks
  BY DEF AcceptByHand
<1>4. NoDeal \in Deals /\ NoDeal.stage = "none"
  BY <1>1 DEF NoDeal, Deals
<1>5. /\ deal' \in [Side -> Deals]
      /\ \A e \in Side : deal'[e] = deal[e] \/ (deal'[e] = NoDeal /\ ~Done(e))
  <2>1. CASE UNCHANGED deal
    BY <1>1, <2>1
  <2>2. CASE deal[d].stage \in {"offered", "checked"} /\ deal' = [deal EXCEPT ![d] = NoDeal]
    BY <1>1, <1>4, <2>2 DEF Done
  <2> QED
    BY <1>3, <2>1, <2>2
<1>6. have' \in 0..MaxHave /\ Surplus(have') \in Nat /\ Surplus(have) \in Nat
      /\ (have >= Needed => have' >= Needed)
  BY <1>1, <1>3 DEF Surplus
<1>7. /\ marks \subseteq marks' /\ marks' \subseteq marks \cup {"byhand"}
      /\ marks' \subseteq {"given"} => marks' = marks /\ have <= have'
                                       /\ Surplus(have) <= Surplus(have')
  BY <1>1, <1>3 DEF Surplus
<1>8. TablesTypeOK'
  BY <1>2, <1>5, <1>6, <1>7, TablesTypes DEF TablesInv, TablesTypeOK, Side, Deals
<1>9. /\ \A e \in Side : Done(e)' <=> Done(e)
      /\ \A e \in Side : Done(e) => deal'[e] = deal[e]
      /\ \A e \in Side : Accepting(e)' => Accepting(e) /\ deal'[e] = deal[e]
  BY <1>4, <1>5 DEF Done, Accepting
<1>10. OneDeal'
  BY <1>2, <1>4, <1>5, <1>9 DEF TablesInv, OneDeal
<1>11. Kept => row.count \in Nat /\ row.trade \in Int
  BY <1>1 DEF Kept, Rows
<1>12. SurplusIsThere'
  <2> SUFFICES ASSUME Kept, marks' \subseteq {"given"}
               PROVE  /\ ~Done("give") => row.trade <= Surplus(have')
                      /\ Done("give") /\ ~deal["give"].mixed =>
                            row.trade - deal["give"].qty <= Surplus(have')
    BY <1>2, <1>9 DEF SurplusIsThere, Kept, Side, Surplus
  <2>1. /\ ~Done("give") => row.trade <= Surplus(have)
        /\ Done("give") /\ ~deal["give"].mixed => row.trade - deal["give"].qty <= Surplus(have)
    BY <1>2, <1>7 DEF TablesInv, SurplusIsThere
  <2>2. deal["give"].qty \in Nat
    BY <1>1 DEF Side, Deals
  <2> QED
    BY <1>6, <1>7, <1>11, <2>1, <2>2
<1>13. CountIsThere'
  <2> SUFFICES ASSUME Kept, marks' = {}, ~Done("give")
               PROVE  /\ ~Done("get") => row.count <= have'
                      /\ Done("get") /\ ~deal["get"].mixed => row.count + deal["get"].qty <= have'
    BY <1>2, <1>9 DEF CountIsThere, Kept, Side
  <2>1. /\ ~Done("get") => row.count <= have
        /\ Done("get") /\ ~deal["get"].mixed => row.count + deal["get"].qty <= have
    BY <1>2, <1>7 DEF TablesInv, CountIsThere
  <2>2. deal["get"].qty \in Nat /\ have' \in Nat
    BY <1>1, <1>6 DEF Side, Deals
  <2> QED
    BY <1>1, <1>7, <1>11, <2>1, <2>2
<1>14. CheckedIsThere'
  BY <1>2, <1>9 DEF TablesInv, CheckedIsThere, Kept, Side
<1>15. RepairedIsThere'
  BY <1>2, <1>6, <1>7 DEF TablesInv, RepairedIsThere, Kept
<1>16. OthersAreRecorded' /\ NeverOverdrawn' /\ ReadingsCover'
  BY <1>2, <1>7 DEF TablesInv, OthersAreRecorded, NeverOverdrawn, ReadingsCover, Kept
<1> QED
  BY <1>8, <1>10, <1>12, <1>13, <1>14, <1>15, <1>16 DEF TablesInv

\* What a trade does to a row.
LEMMA Moving ==
    ASSUME NEW r \in Rows, NEW n \in Nat, NEW d \in Side
    PROVE  LET s == Moved(d, r, n) IN
           /\ s \in Rows
           /\ d = "give" => s.trade = r.trade - n /\ s.count = r.count /\ s.repaired = r.repaired
           /\ d = "get" => /\ s.count = r.count + n
                           /\ s.repaired => r.repaired \/ r.count + n >= Needed
                           /\ \/ s.trade = r.trade
                              \/ s.trade = Surplus(r.count + n) /\ r.count + n >= Needed
                           /\ s.trade >= 0 \/ s.trade = r.trade
                           /\ r.repaired => s.repaired
<1>1. r.count \in Nat /\ r.trade \in Int /\ r.repaired \in BOOLEAN /\ Needed \in Nat
      /\ r.count + n \in Nat
  BY TablesAssumption DEF Rows
<1>2. CASE d = "give"
  <2> DEFINE s == [r EXCEPT !.trade = @ - n]
  <2>1. s \in Rows /\ s.trade = r.trade - n /\ s.count = r.count /\ s.repaired = r.repaired
    BY <1>1 DEF Rows
  <2>2. Moved(d, r, n) = s
    BY <1>2 DEF Moved
  <2> HIDE DEF s
  <2> QED
    BY <1>2, <2>1, <2>2
<1>3. CASE d = "get" /\ r.count + n >= Needed
  <2> DEFINE s == Recorded(r.count + n)
  <2>1. /\ s \in Rows /\ s.count = r.count + n /\ s.trade = Surplus(r.count + n)
        /\ s.repaired <=> r.count + n >= Needed
        /\ Surplus(r.count + n) \in Nat
    BY <1>1, Recording
  <2>2. Moved(d, r, n) = s
    BY <1>3 DEF Moved, Received
  <2> HIDE DEF s
  <2> QED
    BY <1>3, <2>1, <2>2
<1>4. CASE d = "get" /\ ~(r.count + n >= Needed)
  <2> DEFINE s == [r EXCEPT !.count = @ + n]
  <2>1. s \in Rows /\ s.count = r.count + n /\ s.trade = r.trade /\ s.repaired = r.repaired
    BY <1>1 DEF Rows
  <2>2. Moved(d, r, n) = s
    BY <1>4 DEF Moved, Received
  <2> HIDE DEF s
  <2> QED
    BY <1>4, <2>1, <2>2
<1> QED
  BY <1>2, <1>3, <1>4 DEF Side

\* Readings are older than what a trade has written.
LEMMA ApplyingAges ==
    ASSUME TablesTypeOK, desk' = [c \in Clerk |-> [desk[c] EXCEPT !.old = desk[c].stage # "idle"]]
    PROVE  /\ desk' \in [Clerk -> Desks]
           /\ \A c \in Clerk :
                /\ desk'[c].stage = "idle" => desk'[c] = IdleDesk
                /\ desk'[c].stage = desk[c].stage /\ desk'[c].seen = desk[c].seen
                /\ desk'[c].stage # "idle" => desk'[c].old
<1>1. desk \in [Clerk -> Desks] /\ \A c \in Clerk : desk[c].stage = "idle" => desk[c] = IdleDesk
  BY TablesTypes
<1>2. IdleDesk.seen = 0
  BY DEF IdleDesk
<1> DEFINE Aged(c) == [desk[c] EXCEPT !.old = desk[c].stage # "idle"]
<1>3. ASSUME NEW c \in Clerk
      PROVE  /\ Aged(c) \in Desks /\ Aged(c).stage = desk[c].stage /\ Aged(c).seen = desk[c].seen
             /\ Aged(c).old = (desk[c].stage # "idle")
  <2>1. desk[c] \in Desks
    BY <1>1
  <2> QED
    BY <2>1 DEF Desks
<1> HIDE DEF Aged
<1>4. desk' = [c \in Clerk |-> Aged(c)]
  BY DEF Aged
<1>5. /\ desk' \in [Clerk -> Desks]
      /\ \A c \in Clerk :
           /\ desk'[c].stage = desk[c].stage /\ desk'[c].seen = desk[c].seen
           /\ desk'[c].old = (desk[c].stage # "idle")
  BY <1>3, <1>4
<1>6. ASSUME NEW c \in Clerk, desk'[c].stage = "idle" PROVE desk'[c] = IdleDesk
  <2>1. desk[c].stage = "idle"
    BY <1>5, <1>6
  <2>2. desk[c].seen = 0
    BY <1>1, <1>2, <2>1
  <2>3. desk'[c] \in Desks
    BY <1>5
  <2>4. desk'[c].seen = desk[c].seen /\ desk'[c].old = (desk[c].stage # "idle")
    BY <1>5
  <2>5. desk'[c].seen = 0 /\ desk'[c].old = FALSE
    BY <2>1, <2>2, <2>4
  <2> QED
    BY <1>6, <2>3, <2>5, DeskIsIdle
<1> QED
  BY <1>5, <1>6

LEMMA ApplyKeeps ==
    ASSUME TablesInv, NEW d \in Side, ApplyTrade(d)
    PROVE  TablesInv'
<1> DEFINE n == deal[d].qty
<1>1. /\ deal \in [Side -> Deals] /\ have \in Nat /\ have \in 0..MaxHave
      /\ row \in Rows \cup {Missing} /\ Needed \in Nat
      /\ table \in {"museum", "collection", "land"}
      /\ marks \subseteq {"given", "stale", "mixed", "stacked", "unheard", "byhand"}
  BY TablesTypes, TablesAssumption DEF TablesInv
<1>2. /\ deal[d].stage = "performed" /\ Accepting(d) /\ Done(d)
      /\ deal' = [deal EXCEPT ![d] = NoDeal] /\ UNCHANGED <<table, have>>
  BY DEF ApplyTrade, Accepting, Done
<1>3. /\ deal' \in [Side -> Deals] /\ OneDeal'
      /\ \A e \in Side : ~Accepting(e)'
      /\ table = "museum" /\ n \in Nat /\ n > 0
      /\ \A e \in Side \ {d} : ~Accepting(e)
  BY <1>2, EndingQuiets
<1>4. \A e \in Side \ {d} : ~Done(e)
  BY <1>3 DEF Done, Accepting
<1>5. OthersAreRecorded'
  BY <1>2, <1>3 DEF OthersAreRecorded
<1>6. CASE UNCHANGED <<row, desk>> /\ marks' = marks \cup {"unheard"}
  <2>1. TablesTypeOK'
    BY <1>1, <1>2, <1>3, <1>6 DEF TablesInv, TablesTypeOK, Side, Deals
  <2>2. "unheard" \in marks' /\ ("mixed" \in marks => "mixed" \in marks')
    BY <1>6
  <2>3. ReadingsCover'
    BY <2>2 DEF ReadingsCover
  <2>4. NeverOverdrawn'
    BY <1>6, <2>2 DEF TablesInv, NeverOverdrawn
  <2> QED
    BY <1>3, <1>5, <2>1, <2>2, <2>3, <2>4, QuietKeeps
<1>7. CASE /\ row' = IF row = Missing THEN row ELSE Moved(d, row, n)
           /\ desk' = [c \in Clerk |-> [desk[c] EXCEPT !.old = desk[c].stage # "idle"]]
           /\ marks' = marks \cup (IF deal[d].mixed THEN {"mixed"} ELSE {})
                             \cup (IF d = "give" THEN {"given"}
                                   ELSE IF "given" \in marks THEN {"stacked"} ELSE {})
  <2>1. /\ desk' \in [Clerk -> Desks]
        /\ \A c \in Clerk :
             /\ desk'[c].stage = "idle" => desk'[c] = IdleDesk
             /\ desk'[c].stage = desk[c].stage /\ desk'[c].seen = desk[c].seen
             /\ desk'[c].stage # "idle" => desk'[c].old
    BY <1>7, ApplyingAges DEF TablesInv
  <2>2. /\ marks \subseteq marks' /\ marks' \subseteq {"given", "stale", "mixed", "stacked", "unheard", "byhand"}
        /\ deal[d].mixed => "mixed" \in marks'
        /\ d = "give" => "given" \in marks'
        /\ d = "get" /\ "given" \in marks => "stacked" \in marks'
    BY <1>1, <1>7 DEF Side
  <2>3. ReadingsCover'
    BY <2>1 DEF ReadingsCover
  <2>4. CASE ~Kept
    <3>1. row' = Missing
      BY <1>7, <2>4 DEF Kept
    <3>2. TablesTypeOK'
      BY <1>1, <1>2, <1>3, <2>1, <2>2, <3>1 DEF TablesTypeOK, Side, Deals, Desks
    <3> QED
      BY <1>3, <1>5, <2>3, <3>1, <3>2, QuietKeeps DEF Kept, NeverOverdrawn
  <2>5. CASE Kept
    <3>1. row \in Rows /\ row' = Moved(d, row, n)
      BY <1>1, <1>7, <2>5 DEF Kept
    <3>2. /\ row' \in Rows
          /\ d = "give" => /\ row'.trade = row.trade - n /\ row'.count = row.count
                           /\ row'.repaired = row.repaired
          /\ d = "get" => /\ row'.count = row.count + n
                          /\ row'.repaired => row.repaired \/ row.count + n >= Needed
                          /\ \/ row'.trade = row.trade
                             \/ row'.trade = Surplus(row.count + n) /\ row.count + n >= Needed
                          /\ row'.trade >= 0 \/ row'.trade = row.trade
      BY <1>3, <3>1, Moving
    <3>3. TablesTypeOK'
      BY <1>1, <1>2, <1>3, <2>1, <2>2, <3>2 DEF TablesTypeOK, Side, Deals, Desks, Rows
    <3>4. row.count \in Nat /\ row.trade \in Int
      BY <3>1 DEF Rows
    <3>5. CASE d = "give"
      <4>1. marks' \subseteq {"given"} => row'.trade <= Surplus(have)
        BY <1>2, <1>3, <2>2, <2>5, <3>2, <3>5 DEF TablesInv, SurplusIsThere
      <4>2. marks' # {}
        BY <2>2, <3>5
      <4>3. NeverOverdrawn'
        <5> SUFFICES ASSUME marks' \cap {"mixed"} = {} PROVE row.trade - n >= 0
          BY <3>2, <3>5 DEF NeverOverdrawn
        <5>1. ~deal["give"].mixed
          BY <2>2, <3>5
        <5>2. row.trade >= n
          BY <1>2, <2>5, <3>5, <5>1 DEF TablesInv, CheckedIsThere
        <5> QED
          BY <1>3, <3>4, <5>2
      <4> QED
        BY <1>2, <1>3, <1>5, <2>3, <3>3, <4>1, <4>2, <4>3, QuietKeeps DEF Surplus
    <3>6. CASE d = "get"
      <4>1. ASSUME marks' \subseteq {"given"}
            PROVE  /\ marks = {} /\ ~deal["get"].mixed /\ row.count + n <= have
                   /\ row.trade <= Surplus(have)
        <5>1. marks = {} /\ ~deal["get"].mixed
          BY <1>1, <2>2, <3>6, <4>1
        <5>2. ~Done("give") /\ Done("get")
          BY <1>2, <1>4, <3>6 DEF Side
        <5>3. row.count + n <= have
          BY <1>3, <2>5, <3>6, <5>1, <5>2 DEF TablesInv, CountIsThere
        <5>4. row.trade <= Surplus(have)
          BY <1>3, <2>5, <5>1, <5>2 DEF TablesInv, SurplusIsThere
        <5> QED
          BY <5>1, <5>3, <5>4
      <4>2. marks' \subseteq {"given"} => row'.trade <= Surplus(have)
        <5> SUFFICES ASSUME marks' \subseteq {"given"} PROVE row'.trade <= Surplus(have)
          OBVIOUS
        <5>1. row.count + n \in Nat /\ row.count + n <= have
          BY <1>3, <3>4, <4>1
        <5>2. Surplus(row.count + n) <= Surplus(have)
          BY <1>1, <5>1, SurplusGrows
        <5> QED
          BY <3>2, <3>6, <4>1, <5>2
      <4>3. marks' = {} => row'.count <= have /\ (row'.repaired => have >= Needed)
        <5> SUFFICES ASSUME marks' = {}
                     PROVE  row'.count <= have /\ (row'.repaired => have >= Needed)
          OBVIOUS
        <5>1. row.count + n <= have /\ marks = {}
          BY <4>1
        <5>2. row.repaired => have >= Needed
          BY <1>3, <2>5, <5>1 DEF TablesInv, RepairedIsThere
        <5>3. row.count + n >= Needed => have >= Needed
          BY <1>1, <1>3, <3>4, <5>1
        <5> QED
          BY <3>2, <3>6, <5>1, <5>2, <5>3
      <4>4. NeverOverdrawn'
        BY <2>2, <2>5, <3>2, <3>6 DEF TablesInv, NeverOverdrawn, Kept
      <4> QED
        BY <1>2, <1>3, <1>5, <2>3, <3>3, <4>2, <4>3, <4>4, QuietKeeps DEF Surplus
    <3> QED
      BY <3>5, <3>6 DEF Side
  <2> QED
    BY <2>4, <2>5
<1> QED
  BY <1>6, <1>7 DEF ApplyTrade

LEMMA LoseKeeps ==
    ASSUME TablesInv, LoseProcess
    PROVE  TablesInv'
<1>1. /\ deal \in [Side -> Deals] /\ have \in 0..MaxHave /\ MaxHave \in Nat
      /\ row \in Rows \cup {Missing}
      /\ table \in {"museum", "collection", "land"}
      /\ marks \subseteq {"given", "stale", "mixed", "stacked", "unheard", "byhand"}
  BY TablesTypes, TablesAssumption DEF TablesInv
<1>2. UNCHANGED <<table, have, row>> /\ desk' = [k \in Clerk |-> IdleDesk]
  BY DEF LoseProcess
<1>3. IdleDesk \in Desks /\ IdleDesk.stage = "idle" /\ IdleDesk.seen = 0
  BY <1>1 DEF IdleDesk, Desks
<1>4. desk' \in [Clerk -> Desks] /\ \A k \in Clerk : desk'[k] = IdleDesk
  BY <1>2, <1>3
<1> DEFINE Left(d) == IF deal[d].stage = "performed" THEN NoDeal
                      ELSE IF deal[d].stage = "checked"
                      THEN [deal[d] EXCEPT !.stage = "offered", !.mixed = FALSE]
                      ELSE deal[d]
<1>5. deal' = [d \in Side |-> Left(d)]
  BY <1>1 DEF LoseProcess
<1>6. ASSUME NEW d \in Side
      PROVE  /\ Left(d) \in Deals /\ Left(d).stage \in {"none", "offered"}
             /\ Left(d).stage # "none" => deal[d].stage # "none" /\ Left(d).qty = deal[d].qty
  <2>1. deal[d] \in Deals
    BY <1>1
  <2>2. NoDeal \in Deals /\ NoDeal.stage = "none"
    BY <1>1 DEF NoDeal, Deals
  <2>3. ASSUME NEW x \in Deals
        PROVE  LET y == [x EXCEPT !.stage = "offered", !.mixed = FALSE]
               IN  y \in Deals /\ y.stage = "offered" /\ y.qty = x.qty
    BY DEF Deals
  <2>4. CASE deal[d].stage = "performed"
    BY <2>2, <2>4
  <2>5. CASE deal[d].stage = "checked"
    BY <2>1, <2>3, <2>5
  <2>6. CASE deal[d].stage \notin {"performed", "checked"}
    BY <2>1, <2>6 DEF Deals
  <2> QED
    BY <2>4, <2>5, <2>6
<1> HIDE DEF Left
<1>7. /\ deal' \in [Side -> Deals]
      /\ \A d \in Side :
           /\ deal'[d].stage \in {"none", "offered"}
           /\ deal'[d].stage # "none" => deal[d].stage # "none" /\ deal'[d].qty = deal[d].qty
  BY <1>5, <1>6
<1>8. \A d \in Side : ~Accepting(d)'
  BY <1>7 DEF Accepting
<1>9. OneDeal'
  BY <1>2, <1>7, <1>8 DEF TablesInv, OneDeal
<1>10. /\ marks \subseteq marks'
       /\ marks' \subseteq {"given", "stale", "mixed", "stacked", "unheard", "byhand"}
       /\ "unheard" \in marks' \/ (marks' = marks /\ ~Done("give") /\ ~Done("get"))
  BY <1>1 DEF LoseProcess, Done, Side
<1>11. TablesTypeOK'
  BY <1>1, <1>2, <1>3, <1>4, <1>7, <1>10 DEF TablesTypeOK, Side, Deals, Desks, Rows
<1>12. table = "museum" /\ Kept /\ marks' \subseteq {"given"} => row.trade <= Surplus(have)
  BY <1>10 DEF TablesInv, SurplusIsThere
<1>13. table = "museum" /\ Kept /\ marks' = {} => row.count <= have /\ (row.repaired => have >= Needed)
  BY <1>10 DEF TablesInv, CountIsThere, RepairedIsThere
<1>14. OthersAreRecorded'
  BY <1>1, <1>2, <1>3, <1>4 DEF TablesInv, OthersAreRecorded, Kept
<1>15. ReadingsCover'
  BY <1>3, <1>4 DEF ReadingsCover
<1>16. NeverOverdrawn'
  BY <1>2, <1>10 DEF TablesInv, NeverOverdrawn
<1> QED
  BY <1>2, <1>8, <1>9, <1>11, <1>12, <1>13, <1>14, <1>15, <1>16, QuietKeeps DEF Kept, Surplus

LEMMA StepTables == TablesInv /\ [TablesNext]_tableVars => TablesInv'
<1> SUFFICES ASSUME TablesInv, [TablesNext]_tableVars PROVE TablesInv'
  OBVIOUS
<1>1. CASE Gain
  BY <1>1, GainKeeps
<1>2. CASE LoseProcess
  BY <1>2, LoseKeeps
<1>3. ASSUME NEW k \in Clerk, ReadFarm(k) \/ ReadTradable(k) PROVE TablesInv'
  BY <1>3, ReadingKeeps
<1>4. ASSUME NEW k \in Clerk, UpgradeLand(k) PROVE TablesInv'
  BY <1>4, UpgradeKeeps
<1>5. ASSUME NEW k \in Clerk, SyncTable(k) PROVE TablesInv'
  BY <1>5, SyncKeeps
<1>6. ASSUME NEW k \in Clerk, Calibrate(k) PROVE TablesInv'
  BY <1>6, CalibrateKeeps
<1>7. ASSUME NEW d \in Side, Offer(d) \/ CheckTrade(d) \/ Reject(d) PROVE TablesInv'
  BY <1>7, NegotiationKeeps
<1>8. ASSUME NEW d \in Side, PerformTrade(d) PROVE TablesInv'
  BY <1>8, PerformKeeps
<1>9. ASSUME NEW d \in Side, ApplyTrade(d) PROVE TablesInv'
  BY <1>9, ApplyKeeps
<1>10. ASSUME NEW d \in Side, AcceptByHand(d) PROVE TablesInv'
  BY <1>10, ByHandKeeps
<1>11. CASE UNCHANGED tableVars
  <2>1. have \in 0..MaxHave /\ have <= have /\ desk \in [Clerk -> Desks]
    BY TablesTypes, TablesAssumption DEF TablesInv
  <2>2. \A k \in Clerk : DeskSound(desk[k])
    BY DesksAreSound
  <2> QED
    BY <1>11, <2>1, <2>2, DeskKeeps DEF tableVars
<1> QED
  BY <1>1, <1>2, <1>3, <1>4, <1>5, <1>6, <1>7, <1>8, <1>9, <1>10, <1>11 DEF TablesNext, Side

LEMMA TablesInvariant == TablesSpec => []TablesInv
BY InitTables, StepTables, PTL DEF TablesSpec

\* Types, for every number of clerks, fragments and levels.
THEOREM TablesTypeCorrect == TablesSpec => []TablesTypeOK
<1>1. TablesInv => TablesTypeOK
  BY DEF TablesInv
<1> QED
  BY <1>1, TablesInvariant, PTL

\* _match_and_create() never offers more than the game would let go, but for
\* the marked ways in which a row comes to lag behind the game.
THEOREM OversoldCorrect == TablesSpec => []NeverOversold
<1>1. TablesInv => NeverOversold
  BY DEF TablesInv, SurplusIsThere, NeverOversold, Kept, Done
<1> QED
  BY <1>1, TablesInvariant, PTL

\* _apply_trade() never takes more off a row than the row has, unless the row
\* was written between the check and the application.
THEOREM OverdrawnCorrect == TablesSpec => []NeverOverdrawn
<1>1. TablesInv => NeverOverdrawn
  BY DEF TablesInv
<1> QED
  BY <1>1, TablesInvariant, PTL

\* What a step of the tables may do to a row that is not marked.
Onward ==
    row # Missing /\ marks = {} =>
        \/ /\ row' # Missing
           /\ row.repaired => row'.repaired
           /\ table # "museum" => row'.count >= row.count
        \/ /\ table # "collection"
           /\ \E k \in Clerk : /\ desk[k].old /\ desk[k].stage \in {"farm", "sync"}
                               /\ desk'[k] = IdleDesk /\ row' = Recorded(desk[k].seen)

LEMMA SyncIsOnward ==
    ASSUME TablesInv, NEW k \in Clerk, SyncTable(k), row # Missing, marks = {}
    PROVE  Onward
<1> DEFINE n == desk[k].seen
<1>1. n \in Nat /\ Needed \in Nat /\ row \in Rows /\ desk[k].old \in BOOLEAN
      /\ table \in {"museum", "collection", "land"}
  BY TablesTypes, TablesAssumption DEF TablesInv, Desks
<1>2. /\ Recorded(n) # Missing /\ Recorded(n).count = n
      /\ Recorded(n).repaired <=> n >= Needed
  BY <1>1, Recording
<1>3. row.count \in Nat
  BY <1>1 DEF Rows
<1>4. desk[k].stage \in {"farm", "sync"}
  BY DEF SyncTable
<1>5. row' = row \/ row' = Synchronised(n)
  BY DEF SyncTable, NothingWritten
<1>6. CASE row' = row
  BY <1>3, <1>6 DEF Onward
<1>7. CASE row' = Synchronised(n) /\ table = "collection"
  <2>1. row' = row \/ (row' = Recorded(n) /\ row.count <= n)
    BY <1>1, <1>3, <1>7 DEF Synchronised
  <2>2. row.repaired <=> row.count >= Needed
    BY <1>7 DEF TablesInv, OthersAreRecorded, Kept
  <2> QED
    BY <1>1, <1>2, <1>3, <1>6, <2>1, <2>2 DEF Onward
<1>8. CASE row' = Synchronised(n) /\ table # "collection" /\ ~desk[k].old
  <2>1. row' = Recorded(n)
    BY <1>8 DEF Synchronised
  <2>2. /\ table = "museum" /\ row.repaired => n >= Needed
        /\ table = "land" => row.count <= n
    BY <1>4, <1>8 DEF TablesInv, ReadingsCover, Kept
  <2>3. table = "land" => (row.repaired <=> row.count >= Needed)
    BY DEF TablesInv, OthersAreRecorded, Kept
  <2> QED
    BY <1>1, <1>2, <1>3, <1>8, <2>1, <2>2, <2>3 DEF Onward
<1>9. CASE row' = Synchronised(n) /\ table # "collection" /\ desk[k].old /\ row' # row
  <2>1. row' = Recorded(n)
    BY <1>9 DEF Synchronised
  <2>2. desk \in [Clerk -> Desks]
    BY TablesTypes DEF TablesInv
  <2>3. desk'[k] = IdleDesk
    BY <1>9, <2>2 DEF SyncTable, Written, NothingWritten
  <2> QED
    BY <1>4, <1>9, <2>1, <2>3 DEF Onward
<1> QED
  BY <1>5, <1>6, <1>7, <1>8, <1>9

LEMMA OthersAreOnward ==
    ASSUME TablesInv, row # Missing, marks = {}, row' # row, TablesNext,
           \A k \in Clerk : ~SyncTable(k)
    PROVE  Onward
<1>1. row \in Rows /\ Missing \notin Rows /\ desk \in [Clerk -> Desks]
      /\ deal \in [Side -> Deals] /\ Needed \in Nat
  BY TablesTypes, TablesAssumption DEF TablesInv, Rows
<1>2. ~Gain /\ ~LoseProcess
  BY DEF Gain, LoseProcess
<1>3. ASSUME NEW k \in Clerk PROVE ~ReadFarm(k) /\ ~UpgradeLand(k) /\ ~ReadTradable(k)
  BY DEF ReadFarm, UpgradeLand, ReadTradable, OnlyDesk
<1>4. ASSUME NEW d \in Side
      PROVE  /\ ~Offer(d) /\ ~CheckTrade(d) /\ ~Reject(d)
             /\ ~PerformTrade(d) /\ ~AcceptByHand(d)
  BY DEF Offer, CheckTrade, Reject, PerformTrade, AcceptByHand, OnlyDeal
<1>5. ASSUME NEW k \in Clerk, Calibrate(k) PROVE Onward
  <2>1. table = "museum"
    BY <1>5 DEF TablesInv, OthersAreRecorded, Calibrate
  <2>2. desk[k].seen \in Int
    BY <1>1, TablesAssumption DEF Desks
  <2>3. row' = [row EXCEPT !.trade = desk[k].seen]
    BY <1>5 DEF Calibrate, NothingWritten
  <2>4. row' \in Rows /\ row'.repaired = row.repaired
    BY <1>1, <2>2, <2>3 DEF Rows
  <2> QED
    BY <1>1, <2>1, <2>4 DEF Onward
<1>6. ASSUME NEW d \in Side, ApplyTrade(d) PROVE Onward
  <2>1. deal[d].stage = "performed" /\ deal[d].qty \in Nat
    BY <1>1, <1>6, TablesAssumption DEF ApplyTrade, Deals
  <2>2. table = "museum"
    BY <2>1 DEF TablesInv, OneDeal
  <2>3. row' = Moved(d, row, deal[d].qty)
    BY <1>6 DEF ApplyTrade
  <2>4. row' \in Rows /\ (row.repaired => row'.repaired)
    BY <1>1, <2>1, <2>3, Moving DEF Side
  <2> QED
    BY <1>1, <2>2, <2>4 DEF Onward
<1> QED
  BY <1>2, <1>3, <1>4, <1>5, <1>6 DEF TablesNext, Side

\* _sync_museum(), _sync_collection() and _sync_land() never undo a repair, a
\* collected crop or a level with a reading that is not older than the row, and
\* neither the calibration nor a trade ever does.
THEOREM NeverBackCorrect == TablesSpec => NeverBack
<1>1. TablesInv /\ [TablesNext]_tableVars => [Onward]_tableVars
  <2> SUFFICES ASSUME TablesInv, TablesNext PROVE Onward
    BY DEF tableVars
  <2>1. CASE row = Missing \/ marks # {}
    BY <2>1 DEF Onward
  <2>2. CASE row # Missing /\ marks = {} /\ row' = row
    <3>1. row.count \in Nat
      BY <2>2, TablesTypes DEF TablesInv, Rows
    <3> QED
      BY <2>2, <3>1 DEF Onward
  <2>3. CASE row # Missing /\ marks = {} /\ \E k \in Clerk : SyncTable(k)
    BY <2>3, SyncIsOnward
  <2> QED
    BY <2>1, <2>2, <2>3, OthersAreOnward
<1>2. TablesSpec => [][Onward]_tableVars
  BY <1>1, TablesInvariant, PTL DEF TablesSpec
<1> QED
  BY <1>2 DEF NeverBack, Onward
=============================================================================
