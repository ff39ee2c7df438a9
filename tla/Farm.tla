--------------------------------- MODULE Farm ---------------------------------
(***************************************************************************)
(* The cycle of an account's own farm, GameEngine._run_farm_own(): it      *)
(* harvests, clears, waters and plants by one status read at the           *)
(* beginning, request by request, while the crops change and another       *)
(* coroutine works through the same cycle: the farm loop, the main cycle   *)
(* and the route "farm" may overlap.  (Digging, land and the               *)
(* synchronisation of the tables are in FarmTables.)                       *)
(***************************************************************************)
EXTENDS Naturals, FiniteSetsExt

CONSTANTS
    Hand,       \* coroutines that may run the cycle: a bound
    Plots,      \* number of plots
    CareLimit,  \* 5 waterings of the own farm in a day
    Growth      \* changes of the crops by themselves: a bound

ASSUME FarmAssumption == Plots \in Nat \ {0} /\ CareLimit \in Nat /\ Growth \in Nat

Plot == 0..(Plots - 1)

VARIABLES
    plot,       \* plot[p]: what the game has there
    grown,      \* how often the crops have changed by themselves
    cared,      \* todayCareCount of the game
    reaped,     \* plots really harvested
    sown,       \* plots really planted
    premium,    \* isPremium
    plan,       \* plan[h][c]: the plots coroutine h has left for chore c
    fresh,      \* fresh[h]: planted in this run, not yet in planted
    harvested,  \* FarmHarvest._harvested
    planted,    \* FarmPlant._planted
    crossed,    \* two cycles have been under way at the same time
    unheard,    \* the answer to a planting has been lost
    outdated    \* a harvest of everything met other plots than the status had

farmVars == <<plot, grown, cared, reaped, sown, premium, plan, fresh, harvested, planted,
              crossed, unheard, outdated>>

Crop   == {"empty", "growing", "dry", "mature", "withered"}
Sowing == {"vip", "missing", "rest"}
Chore  == {"all", "reap", "clear", "care"} \cup Sowing
Nothing == [c \in Chore |-> {}]

Busy(h) == plan[h] # Nothing

FarmTypeOK ==
    /\ plot \in [Plot -> Crop] /\ grown \in 0..Growth
    /\ cared \in Nat /\ reaped \in Nat /\ sown \in Nat /\ premium \in BOOLEAN
    /\ plan \in [Hand -> [Chore -> SUBSET Plot]]
    /\ \A h \in Hand : plan[h]["vip"] \cup plan[h]["missing"] \subseteq plan[h]["rest"]
    /\ fresh \in [Hand -> Nat] /\ \A h \in Hand : ~Busy(h) => fresh[h] = 0
    /\ harvested \in Nat /\ planted \in Nat
    /\ crossed \in BOOLEAN /\ unheard \in BOOLEAN /\ outdated \in BOOLEAN

FarmInit ==
    /\ plot \in [Plot -> Crop] /\ premium \in BOOLEAN
    /\ grown = 0 /\ cared = 0 /\ reaped = 0 /\ sown = 0 /\ harvested = 0 /\ planted = 0
    /\ plan = [h \in Hand |-> Nothing] /\ fresh = [h \in Hand |-> 0]
    /\ crossed = FALSE /\ unheard = FALSE /\ outdated = FALSE

Is(crop) == {p \in Plot : plot[p] = crop}

\* What a crop does by itself.
Grow(p) ==
    /\ grown < Growth /\ grown' = grown + 1
    /\ \/ plot[p] \in {"growing", "dry"} /\ plot' = [plot EXCEPT ![p] = "mature"]
       \/ plot[p] = "growing" /\ plot' = [plot EXCEPT ![p] = "dry"]
       \/ plot[p] = "mature" /\ plot' = [plot EXCEPT ![p] = "withered"]
    /\ UNCHANGED <<cared, reaped, sown, premium, plan, fresh, harvested, planted,
                   crossed, unheard, outdated>>

-----------------------------------------------------------------------------
(* The plan of a cycle. *)

FirstOf(S, n) == {p \in S : Cardinality({q \in S : q < p}) < n}
\* Mutant of Allowed: every dry plot.
Unrationed == Plots

Allowed == IF cared < CareLimit THEN CareLimit - cared ELSE 0

\* The last plot stands for the VIP slot; the first completes the collection
\* if a crop is missing there; those of the daily task and the rest come last.
Planned(missing) ==
    LET empty == Is("empty") IN
    [c \in Chore |->
        CASE c = "all"     -> IF premium /\ Is("mature") = Plot THEN {0} ELSE {}
          [] c = "reap"    -> Is("mature")
          [] c = "clear"   -> Is("withered")
          [] c = "care"    -> FirstOf(Is("dry"), Allowed)
          [] c = "vip"     -> IF premium THEN empty \cap {Plots - 1} ELSE {}
          [] c = "missing" -> IF missing THEN empty \cap {0} ELSE {}
          [] c = "rest"    -> empty]

\* Without a status the cycle is skipped.
ReadStatus(h) ==
    /\ ~Busy(h)
    /\ \E missing \in BOOLEAN : plan' = [plan EXCEPT ![h] = Planned(missing)]
    /\ crossed' = (crossed \/ \E g \in Hand \ {h} : Busy(g))
    /\ UNCHANGED <<plot, grown, cared, reaped, sown, premium, fresh, harvested, planted,
                   unheard, outdated>>

Rank(c) == CASE c = "all" -> 1 [] c = "reap" -> 2 [] c = "clear" -> 3 [] c = "care" -> 4
             [] c = "vip" -> 5 [] c = "missing" -> 6 [] c = "rest" -> 7

\* The next thing to do: plot p, for chore c.
Turn(h, c, p) ==
    /\ plan[h][c] # {} /\ p = Min(plan[h][c])
    /\ \A d \in Chore : Rank(d) < Rank(c) => plan[h][d] = {}

\* p is done for the chores cs.
Strikes(h, p, cs) ==
    plan' = [plan EXCEPT ![h] = [c \in Chore |-> IF c \in cs THEN @[c] \ {p} ELSE @[c]]]

OnlyCrops == UNCHANGED <<grown, premium, fresh, planted, crossed, unheard, sown>>

-----------------------------------------------------------------------------
(* A request is performed and answered, performed unheard, or not performed. *)

Gathers(S) ==
    /\ plot' = [p \in Plot |-> IF p \in S THEN "empty" ELSE plot[p]]
    /\ reaped' = reaped + Cardinality(S)

\* farm_harvest_all(): what is counted is the plots of the status; on failure
\* they are harvested one by one.
HarvestAll(h) ==
    /\ Turn(h, "all", 0)
    /\ \/ /\ Strikes(h, 0, {"all"}) /\ UNCHANGED <<harvested, outdated>>
          /\ Gathers(Is("mature")) \/ UNCHANGED <<plot, reaped>>
       \/ /\ plan' = [plan EXCEPT ![h]["all"] = {}, ![h]["reap"] = {}]
          /\ Gathers(Is("mature"))
          /\ harvested' = harvested + Cardinality(plan[h]["reap"])
          /\ outdated' = (outdated \/ Is("mature") # plan[h]["reap"])
    /\ OnlyCrops /\ UNCHANGED cared

\* The code adds its count when the loop is through; a cycle cut short counts
\* fewer.
Harvest(h) == \E p \in Plot :
    /\ Turn(h, "reap", p) /\ Strikes(h, p, {"reap"})
    /\ \/ plot[p] = "mature" /\ Gathers({p}) /\ harvested' \in {harvested, harvested + 1}
       \/ UNCHANGED <<plot, reaped, harvested>>
    /\ OnlyCrops /\ UNCHANGED <<cared, outdated>>

RemoveWithered(h) == \E p \in Plot :
    /\ Turn(h, "clear", p) /\ Strikes(h, p, {"clear"})
    /\ plot' \in {plot, IF plot[p] = "withered" THEN [plot EXCEPT ![p] = "empty"] ELSE plot}
    /\ OnlyCrops /\ UNCHANGED <<cared, reaped, harvested, outdated>>

Water(h) == \E p \in Plot :
    /\ Turn(h, "care", p) /\ Strikes(h, p, {"care"})
    /\ \/ plot[p] = "dry" /\ plot' = [plot EXCEPT ![p] = "growing"] /\ cared' = cared + 1
       \/ UNCHANGED <<plot, cared>>
    /\ OnlyCrops /\ UNCHANGED <<reaped, harvested, outdated>>

-----------------------------------------------------------------------------
(* FarmPlant.run() *)

\* Mutant of Struck: a planted plot stays on the other lists.
TickedOff(c, ok) == {c}

\* A plot is planted once; one whose planting for the VIP slot or the
\* collection failed is tried again with the rest.
Struck(c, ok) == IF ok THEN Sowing ELSE {c}

\* Mutant of Successes: attempts are counted.
Attempts(h, ok) == fresh[h] + 1

Successes(h, ok) == IF ok THEN fresh[h] + 1 ELSE fresh[h]

\* The last one adds what was planted to _planted.
Counts(h, n) ==
    IF plan'[h] = Nothing
    THEN fresh' = [fresh EXCEPT ![h] = 0] /\ planted' = planted + n
    ELSE fresh' = [fresh EXCEPT ![h] = n] /\ UNCHANGED planted

PlantOne(h) == \E c \in Sowing, p \in Plot, ok \in BOOLEAN :
    /\ Turn(h, c, p) /\ Strikes(h, p, Struck(c, ok))
    /\ Counts(h, Successes(h, ok))
    /\ \/ plot[p] = "empty" /\ plot' = [plot EXCEPT ![p] = "growing"] /\ sown' = sown + 1
          /\ unheard' = (unheard \/ ~ok)
       \/ ~ok /\ UNCHANGED <<plot, sown, unheard>>
    /\ UNCHANGED <<grown, cared, reaped, premium, harvested, crossed, outdated>>

\* A cycle ends early: stop() cancels it, an exception ends it, or nothing is
\* known of the crops when it comes to plant.  What it planted is not counted.
Abandon(h) ==
    /\ Busy(h)
    /\ plan' = [plan EXCEPT ![h] = Nothing] /\ fresh' = [fresh EXCEPT ![h] = 0]
    /\ UNCHANGED <<plot, grown, cared, reaped, sown, premium, harvested, planted,
                   crossed, unheard, outdated>>

FarmNext ==
    \/ \E p \in Plot : Grow(p)
    \/ \E h \in Hand :
          \/ ReadStatus(h) \/ Abandon(h) \/ HarvestAll(h) \/ Harvest(h) \/ RemoveWithered(h)
          \/ Water(h) \/ PlantOne(h)

FarmSpec == FarmInit /\ [][FarmNext]_farmVars

-----------------------------------------------------------------------------
(* Properties *)

\* Cycles that do not overlap water no more than the day's limit, whatever
\* fails: attempts are rationed, and only those the game performed are counted.
CareWithinLimit == ~crossed => cared <= CareLimit

\* What cycles under way have planted, the i-th planting of h as <<h, i>>.
Unreported == UNION {{h} \X (1..fresh[h]) : h \in Hand}

\* The counters that go into the daily record never exceed what was done, with
\* overlapping cycles, lost answers and plots that change under way; a harvest
\* of everything is excepted that meets other plots than the status had.
CountsWereDone ==
    /\ ~outdated => harvested <= reaped
    /\ planted + Cardinality(Unreported) <= sown

\* A cycle alone never plants where something stands: not where it planted
\* before in this run, although three passes go over the same plots.
NoVainPlanting ==
    ~crossed /\ ~unheard =>
        \A h \in Hand : \A c \in Sowing : \A p \in plan[h][c] : plot[p] = "empty"
=============================================================================
