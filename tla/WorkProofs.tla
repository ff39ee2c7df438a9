------------------------------- MODULE WorkProofs -------------------------------
(***************************************************************************)
(* Theorems about what an engine does in the game: Activities, for any     *)
(* number of coroutines, any limit and any supply of items; and, with the  *)
(* theorems about the farm, about all that the run engine_work follows.    *)
(***************************************************************************)
EXTENDS MCEngineWork, FarmProofs

-----------------------------------------------------------------------------
(***************************************************************************)
(* What is true of one runner, by its place a, its call c and its locals   *)
(* m, and of the game g.  A behaviour follows one activity, so errand is   *)
(* not a parameter.                                                        *)
(***************************************************************************)
Places == {"idle", "free", "fight", "send", "resend", "look", "open", "again", "claim",
           "sync"}
Calls  == {"none", "ensure", "list", "use"}
Locals == [left: 0..(Limit + Items), free: 0..Items, done: 0..Limit,
           hand: 0..(2 * Items), warm: Nat, bag: 0..Items, fought: Nat]
Games  == [stock: 0..(2 * Items), bag: 0..Items, free: 0..Items, used: Nat,
           won: Nat, warm: Nat, due: BOOLEAN]

\* Every activity has places of its own.
Seated(a) ==
    /\ a \in {"send", "resend"} => errand \in Flowers
    /\ a = "look" => errand = "tower"
    /\ a \in {"open", "again"} => errand = "chest"
    /\ a = "claim" => errand = "ad"
    /\ a = "sync" => errand = "gang"

\* What a runner is about to use, it believes to be there.
Provided(a, m) ==
    /\ errand \in Flowers => m.left + m.done <= Limit
    /\ a = "free" => m.free > 0
    /\ a = "fight" => IF errand = "gang" THEN m.left > 0 ELSE errand = "tower" /\ m.hand > 0

Sound(a, c, m) ==
    /\ a \in Places /\ c \in Calls /\ m \in Locals
    /\ a = "idle" => c = "none" /\ m = NoLocals
    /\ Seated(a) /\ Provided(a, m)

\* Items go from the bag to the warehouse; an advertisement is due only while
\* one is left.
Stocked(g) ==
    /\ g \in Games /\ g.stock + g.bag <= 2 * Items
    /\ errand = "ad" => g.used <= Limit /\ (g.due => g.used < Limit)

\* The limit, as long as it is kept: o is overlap, w is misled.
DayFits(o, w, g) ==
    ~o => /\ errand \in Flowers /\ ~w => g.used <= Limit
          /\ errand = "gang" => g.won + g.free <= Limit + Items
          /\ errand = "chest" => g.used <= Limit

\* What the runner may still do fits into it.  Books are used for what is left of
\* the day by the fights d that the engine knows of.
Room(o, w, g, d, a, m) ==
    ~o => /\ errand \in Flowers /\ ~w => m.left + g.used <= Limit
          /\ errand = "gang" /\ a = "free" => LeftOf(d) + g.free + g.won <= Limit + Items
          /\ errand = "gang" /\ a = "fight" => m.left + g.free + g.won <= Limit + Items
          /\ errand = "chest" /\ a = "open" => g.used < Limit

Alone == ~overlap => \A r, s \in Runner : at[r] # "idle" /\ at[s] # "idle" => r = s

Counted == IsFiniteSet(Uncounted) /\ CountedOnce

ActivityInv ==
    /\ errand \in Errand /\ enabled \in BOOLEAN /\ Stocked(game)
    /\ listed \in 0..Items \cup {Unlisted} /\ cooling \in BOOLEAN
    /\ tally \in Nat /\ fights \in Nat /\ overlap \in BOOLEAN /\ misled \in BOOLEAN
    /\ at \in [Runner -> Places] /\ call \in [Runner -> Calls] /\ mine \in [Runner -> Locals]
    /\ \A r \in Runner : /\ Sound(at[r], call[r], mine[r])
                         /\ errand = "ad" => mine[r].done <= game.used
                         /\ Room(overlap, misled, game, fights, at[r], mine[r])
    /\ DayFits(overlap, misled, game) /\ Alone /\ Counted

LEMMA Numbers ==
    /\ Limit \in Nat /\ Limit > 0 /\ Items \in Nat /\ Items > 0 /\ 2 * Items \in Nat
    /\ NoLocals \in Locals /\ NoLocals.left = 0 /\ NoLocals.done = 0 /\ NoLocals.free = 0
<1>1. Limit \in Nat /\ Limit > 0 /\ Items \in Nat /\ Items > 0 /\ 2 * Items \in Nat
  BY ActivityAssumption
<1> QED
  BY <1>1 DEF NoLocals, Locals

\* What a runner has sent is replaced by n.
LEMMA Recounted ==
    ASSUME NEW S, NEW f \in [S -> Nat], NEW x \in S, NEW n \in Nat, IsFiniteSet(Numbered(S, f)),
           NEW g \in [S -> Nat], \A y \in S : g[y] = IF y = x THEN n ELSE f[y]
    PROVE  /\ IsFiniteSet(Numbered(S, g))
           /\ Cardinality(Numbered(S, g)) + f[x] = Cardinality(Numbered(S, f)) + n
           /\ Cardinality(Numbered(S, f)) \in Nat
           /\ Cardinality(Numbered(S, g)) \in Nat
<1> DEFINE M == {x} \X (1..n)
<1>1. PICK h \in [S -> Nat] : h = [f EXCEPT ![x] = 0]
  OBVIOUS
<1>2. /\ h = [g EXCEPT ![x] = 0] /\ g[x] = n
      /\ \A y \in S : g[y] = IF y = x THEN n ELSE h[y]
  BY <1>1
<1> HIDE DEF M
<1>3. /\ IsFiniteSet(Numbered(S, h))
      /\ Cardinality(Numbered(S, h)) + f[x] = Cardinality(Numbered(S, f))
  BY <1>1, Forgotten
<1>4. IsFiniteSet(Numbered(S, h))
  BY <1>3
<1>5. Numbered(S, g) \subseteq Numbered(S, h) \cup M
  <2> SUFFICES ASSUME NEW e \in Numbered(S, g) PROVE e \in Numbered(S, h) \cup M
    OBVIOUS
  <2>1. PICK y \in S : \E i \in 1..g[y] : e = <<y, i>>
    BY DEF Numbered
  <2>2. PICK i \in 1..g[y] : e = <<y, i>>
    BY <2>1
  <2>3. CASE y = x
    BY <1>2, <2>2, <2>3 DEF M
  <2>4. CASE y # x
    <3>1. i \in 1..h[y]
      BY <1>2, <2>2, <2>4
    <3> QED
      BY <2>2, <3>1 DEF Numbered
  <2> QED
    BY <2>3, <2>4
<1>6. IsFiniteSet(M)
  <2>1. IsFiniteSet({x})
    BY FS_Singleton
  <2>2. IsFiniteSet(1..n)
    BY FS_Interval
  <2> QED
    BY <2>1, <2>2, FS_Product DEF M
<1>7. IsFiniteSet(Numbered(S, g))
  BY <1>4, <1>5, <1>6, FS_Union, FS_Subset
<1>8. Cardinality(Numbered(S, h)) + n = Cardinality(Numbered(S, g))
  <2>1. Cardinality(Numbered(S, h)) + g[x] = Cardinality(Numbered(S, g))
    BY <1>2, <1>7, Forgotten
  <2> QED
    BY <1>2, <2>1
<1>9. Cardinality(Numbered(S, f)) \in Nat /\ Cardinality(Numbered(S, g)) \in Nat
  BY <1>7, FS_CardinalityType
<1> QED
  <2>1. Cardinality(Numbered(S, h)) \in Nat /\ f[x] \in Nat
    BY <1>4, FS_CardinalityType
  <2> QED
    BY <1>3, <1>7, <1>8, <1>9, <2>1

-----------------------------------------------------------------------------
(* One runner goes on, ends or begins. *)

\* What a step of r does to everything but places, calls, locals and the tally.
Onwards(r) ==
    /\ errand' = errand /\ enabled' \in BOOLEAN /\ Stocked(game')
    /\ listed' \in 0..Items \cup {Unlisted} /\ cooling' \in BOOLEAN
    /\ overlap' \in BOOLEAN /\ misled' \in BOOLEAN /\ fights' \in Nat
    /\ game.used <= game'.used /\ (overlap => overlap') /\ (misled => misled')
    /\ ~overlap' => \A s \in Runner \ {r} : at[s] = "idle"
    /\ DayFits(overlap', misled', game')

\* A locals of r become m: nothing is counted that the game did not do.
Tallied(r, m) ==
    /\ tally' \in Nat
    /\ errand = "ad" => tally' <= game'.used /\ m.done <= game'.used
    /\ errand \in Flowers => tally' + m.done + game.used <= tally + mine[r].done + game'.used

LEMMA TurnCounts ==
    ASSUME ActivityInv, NEW r \in Runner, NEW m \in Locals, errand' = errand,
           mine' = [mine EXCEPT ![r] = m], Tallied(r, m), Stocked(game')
    PROVE  Counted'
<1> DEFINE f == [s \in Runner |-> mine[s].done]
           g == [s \in Runner |-> mine'[s].done]
<1>1. mine \in [Runner -> Locals] /\ mine' \in [Runner -> Locals]
      /\ \A s \in Runner : mine'[s] = IF s = r THEN m ELSE mine[s]
  BY DEF ActivityInv
<1>2. \A l \in Locals : l.done \in Nat
  BY Numbers DEF Locals
<1>3. f \in [Runner -> Nat] /\ g \in [Runner -> Nat]
      /\ \A s \in Runner : g[s] = IF s = r THEN m.done ELSE f[s]
  BY <1>1, <1>2
<1>4. Uncounted = Numbered(Runner, f) /\ Uncounted' = Numbered(Runner, g)
  BY DEF Uncounted, Numbered
<1>5. f[r] = mine[r].done
  OBVIOUS
<1> HIDE DEF f, g
<1>6. IsFiniteSet(Numbered(Runner, f))
  BY <1>4 DEF ActivityInv, Counted
<1>7. m.done \in Nat
  BY <1>2
<1>8. /\ IsFiniteSet(Numbered(Runner, g))
      /\ Cardinality(Numbered(Runner, g)) + f[r] = Cardinality(Numbered(Runner, f)) + m.done
      /\ Cardinality(Numbered(Runner, f)) \in Nat
      /\ Cardinality(Numbered(Runner, g)) \in Nat
  BY <1>3, <1>6, <1>7, Recounted
<1>9. /\ tally \in Nat /\ tally' \in Nat /\ game.used \in Nat /\ game'.used \in Nat
      /\ mine[r].done \in Nat
  BY <1>1, <1>2 DEF ActivityInv, Tallied, Stocked, Games
<1>10. errand \in Flowers => tally' + Cardinality(Uncounted') <= game'.used
  <2> SUFFICES ASSUME errand \in Flowers
               PROVE  tally' + Cardinality(Numbered(Runner, g)) <= game'.used
    BY <1>4
  <2>1. tally + Cardinality(Numbered(Runner, f)) <= game.used
    BY <1>4 DEF ActivityInv, Counted, CountedOnce
  <2>2. tally' + m.done + game.used <= tally + mine[r].done + game'.used
    BY DEF Tallied
  <2> QED
    BY <1>5, <1>7, <1>8, <1>9, <2>1, <2>2
<1>11. CountedOnce'
  BY <1>10 DEF CountedOnce, Tallied
<1> QED
  BY <1>4, <1>8, <1>11 DEF Counted

LEMMA RunnerTurns ==
    ASSUME ActivityInv, NEW r \in Runner, NEW a, NEW c, NEW m,
           Onwards(r), Goes(r, a, c, m), Sound(a, c, m), Tallied(r, m),
           Room(overlap', misled', game', fights', a, m)
    PROVE  ActivityInv'
<1>1. /\ at \in [Runner -> Places] /\ call \in [Runner -> Calls] /\ mine \in [Runner -> Locals]
      /\ a \in Places /\ c \in Calls /\ m \in Locals
  BY DEF ActivityInv, Sound
<1>2. /\ at' = [at EXCEPT ![r] = a] /\ call' = [call EXCEPT ![r] = c]
      /\ mine' = [mine EXCEPT ![r] = m]
  BY DEF Goes
<1>3. /\ at' \in [Runner -> Places] /\ call' \in [Runner -> Calls] /\ mine' \in [Runner -> Locals]
      /\ \A s \in Runner : s # r => at'[s] = at[s] /\ call'[s] = call[s] /\ mine'[s] = mine[s]
      /\ at'[r] = a /\ call'[r] = c /\ mine'[r] = m
  BY <1>1, <1>2
<1>4. \A s \in Runner : Sound(at[s], call[s], mine[s])
  BY DEF ActivityInv
<1>5. \A s \in Runner : Sound(at'[s], call'[s], mine'[s])
  BY <1>3, <1>4
<1>6. errand' = errand
  BY DEF Onwards
<1>7. ASSUME NEW s \in Runner PROVE errand = "ad" => mine'[s].done <= game'.used
  <2>1. CASE s = r
    BY <1>3, <2>1 DEF Tallied
  <2>2. CASE s # r
    <3>1. mine[s].done \in Nat /\ game.used \in Nat /\ game'.used \in Nat
      BY <1>1, Numbers DEF ActivityInv, Onwards, Stocked, Games, Locals
    <3>2. errand = "ad" => mine[s].done <= game.used
      BY DEF ActivityInv
    <3>3. game.used <= game'.used
      BY DEF Onwards
    <3> QED
      BY <1>3, <2>2, <3>1, <3>2, <3>3
  <2> QED
    BY <2>1, <2>2
<1>8. ASSUME NEW s \in Runner
      PROVE  Room(overlap', misled', game', fights', at'[s], mine'[s])
  <2>1. CASE s = r
    BY <1>3, <2>1
  <2>2. CASE s # r
    <3>1. ~overlap' => at'[s] = "idle" /\ mine'[s] = NoLocals
      BY <1>3, <1>4, <2>2 DEF Onwards, Sound
    <3>2. game'.used \in Nat /\ game'.free \in Nat
      BY Numbers DEF Onwards, Stocked, Games
    <3> QED
      BY <3>1, <3>2, Numbers DEF Onwards, DayFits, Room
  <2> QED
    BY <2>1, <2>2
<1>9. Alone'
  BY <1>3 DEF Alone, Onwards
<1>10. Counted'
  BY <1>1, <1>2, TurnCounts DEF Onwards
<1>11. Errand' = Errand /\ Unlisted' = Unlisted
  BY DEF Errand, Unlisted
<1>12. /\ errand' \in Errand /\ enabled' \in BOOLEAN /\ Stocked(game)'
       /\ listed' \in 0..Items \cup {Unlisted} /\ cooling' \in BOOLEAN
       /\ tally' \in Nat /\ fights' \in Nat /\ overlap' \in BOOLEAN /\ misled' \in BOOLEAN
       /\ DayFits(overlap, misled, game)'
  BY DEF ActivityInv, Onwards, Tallied, Stocked, DayFits
<1>13. \A s \in Runner : /\ Sound(at[s], call[s], mine[s])'
                         /\ errand' = "ad" => mine'[s].done <= game'.used
                         /\ Room(overlap, misled, game, fights, at[s], mine[s])'
  BY <1>5, <1>6, <1>7, <1>8 DEF Sound, Seated, Provided, Room
<1>14. Places' = Places /\ Calls' = Calls /\ Locals' = Locals
  BY DEF Places, Calls, Locals
<1> QED
  BY <1>3, <1>9, <1>10, <1>12, <1>13 DEF ActivityInv

\* The run ends.
LEMMA RunnerStops ==
    ASSUME ActivityInv, NEW r \in Runner, Onwards(r), Stops(r), Tallied(r, NoLocals)
    PROVE  ActivityInv'
<1>1. Sound("idle", "none", NoLocals)
  BY Numbers DEF Sound, Seated, Provided, Places, Calls
<1>2. game'.used \in Nat /\ game'.free \in Nat
  BY Numbers DEF Onwards, Stocked, Games
<1>3. Room(overlap', misled', game', fights', "idle", NoLocals)
  BY <1>2, Numbers DEF Onwards, DayFits, Room
<1> QED
  BY <1>1, <1>3, RunnerTurns DEF Stops

\* The runner stays where it is, and only learns what the bag holds.
LEMMA RunnerStays ==
    ASSUME ActivityInv, NEW r \in Runner, Onwards(r), call[r] # "none", tally' = tally,
           UNCHANGED fights, game'.used = game.used,
           game'.free = game.free, game'.won = game.won, NEW c \in Calls, NEW m \in Locals,
           m.left = mine[r].left, m.free = mine[r].free, m.done = mine[r].done,
           m.hand = mine[r].hand, Goes(r, at[r], c, m)
    PROVE  ActivityInv'
<1>1. /\ Sound(at[r], call[r], mine[r]) /\ tally \in Nat
      /\ errand = "ad" => mine[r].done <= game.used
      /\ Room(overlap, misled, game, fights, at[r], mine[r])
      /\ CountedOnce
  BY DEF ActivityInv, Counted
<1>2. Sound(at[r], c, m)
  BY <1>1 DEF Sound, Provided
<1>3. /\ tally \in Nat /\ game.used \in Nat /\ game.free \in Nat
      /\ mine[r].done \in Nat /\ mine[r].left \in Nat
  BY Numbers DEF ActivityInv, Locals, Stocked, Games
<1>4. Tallied(r, m)
  BY <1>1, <1>3 DEF Tallied, CountedOnce
<1>5. (overlap => overlap') /\ (misled => misled')
  BY DEF Onwards
<1>6. Room(overlap', misled', game', fights', at[r], m)
  BY <1>1, <1>3, <1>5 DEF Room
<1> QED
  BY <1>2, <1>4, <1>6, RunnerTurns

\* Nothing happens in the game.
LEMMA QuietGoesOn ==
    ASSUME ActivityInv, NEW r \in Runner, at[r] # "idle", UNCHANGED <<errand, enabled, game, overlap>>,
           fights' = fights \/ fights' \in Nat, listed' \in 0..Items \cup {Unlisted}, cooling' \in BOOLEAN,
           misled' \in BOOLEAN, misled => misled'
    PROVE  Onwards(r)
<1>1. game.used \in Nat
  BY DEF ActivityInv, Stocked, Games
<1>2. ~overlap => \A s \in Runner \ {r} : at[s] = "idle"
  BY DEF ActivityInv, Alone
<1>3. DayFits(overlap', misled', game')
  BY DEF ActivityInv, DayFits
<1> QED
  BY <1>1, <1>2, <1>3 DEF ActivityInv, Onwards

LEMMA BeginningGoesOn ==
    ASSUME ActivityInv, NEW r \in Runner, NEW which, Begins(r, which),
           misled' \in BOOLEAN, misled => misled', fights' = fights \/ fights' \in Nat
    PROVE  Onwards(r) /\ mine[r] = NoLocals /\ UNCHANGED <<game, errand>> /\ errand = which
<1>1. game.used \in Nat
  BY DEF ActivityInv, Stocked, Games
<1>2. /\ errand = which /\ at[r] = "idle" /\ UNCHANGED <<errand, enabled, game, listed, cooling>>
      /\ overlap' = (overlap \/ \E s \in Runner \ {r} : at[s] # "idle")
  BY DEF Begins, Bag
<1>3. mine[r] = NoLocals
  BY <1>2 DEF ActivityInv, Sound
<1>4. overlap' \in BOOLEAN /\ (overlap => overlap')
      /\ (~overlap' => \A s \in Runner \ {r} : at[s] = "idle")
  BY <1>2 DEF ActivityInv
<1>5. DayFits(overlap', misled', game')
  BY <1>2, <1>4 DEF ActivityInv, DayFits
<1> QED
  BY <1>1, <1>2, <1>3, <1>4, <1>5 DEF ActivityInv, Onwards

-----------------------------------------------------------------------------
(* The supply, and what happens to nobody's run. *)

LEMMA SuppliedStays ==
    ASSUME ActivityInv, NEW r \in Runner, Onwards(r), call[r] # "none", tally' = tally,
           UNCHANGED fights, game'.used = game.used,
           game'.free = game.free, game'.won = game.won, NEW b \in BOOLEAN, Supplied(r, b)
    PROVE  ActivityInv'
<1>1. mine[r] \in Locals /\ "none" \in Calls
  BY DEF ActivityInv, Calls
<1>2. CASE Stops(r)
  <2>1. /\ tally \in Nat /\ game.used \in Nat /\ mine[r].done \in Nat
        /\ errand = "ad" => tally <= game.used
    BY Numbers DEF ActivityInv, Locals, Stocked, Games, Counted, CountedOnce
  <2>2. Tallied(r, NoLocals)
    BY <2>1, Numbers DEF Tallied
  <2> QED
    BY <1>2, <2>2, RunnerStops
<1>3. CASE Goes(r, at[r], "none", mine[r])
  BY <1>1, <1>3, RunnerStays
<1> QED
  BY <1>2, <1>3 DEF Supplied

LEMMA EnsureKeeps ==
    ASSUME ActivityInv, NEW r \in Runner, Ensure(r)
    PROVE  ActivityInv'
<1>1. /\ call[r] = "ensure" /\ UNCHANGED <<errand, enabled, game, overlap, listed, fights, tally, misled>>
      /\ cooling' \in BOOLEAN
  BY DEF Ensure, Settings, ActivityInv
<1>2. at[r] # "idle" /\ mine[r] \in Locals
  BY <1>1 DEF ActivityInv, Sound
<1>3. Onwards(r)
  BY <1>1, <1>2, QuietGoesOn DEF ActivityInv
<1>4. ASSUME NEW b \in BOOLEAN, Supplied(r, b) PROVE ActivityInv'
  BY <1>1, <1>3, <1>4, SuppliedStays
<1>5. CASE Goes(r, at[r], "list", [mine[r] EXCEPT !.bag = game.bag])
  <2> DEFINE m == [mine[r] EXCEPT !.bag = game.bag]
  <2>1. game.bag \in 0..Items
    BY DEF ActivityInv, Stocked, Games
  <2>2. /\ m \in Locals /\ m.left = mine[r].left /\ m.free = mine[r].free
        /\ m.done = mine[r].done /\ m.hand = mine[r].hand
    BY <1>2, <2>1 DEF Locals
  <2> HIDE DEF m
  <2> QED
    BY <1>1, <1>3, <1>5, <2>2, RunnerStays DEF Calls, m
<1>6. CASE Goes(r, at[r], "use", mine[r])
  BY <1>1, <1>2, <1>3, <1>6, RunnerStays DEF Calls
<1> QED
  BY <1>4, <1>5, <1>6 DEF Ensure

LEMMA ListedKeeps ==
    ASSUME ActivityInv, NEW r \in Runner, Listed(r)
    PROVE  ActivityInv'
<1>1. /\ call[r] = "list" /\ UNCHANGED <<errand, enabled, game, overlap, fights, tally, misled>>
      /\ cooling' \in BOOLEAN /\ listed' \in {mine[r].bag, listed}
  BY DEF Listed, Settings, ActivityInv
<1>2. at[r] # "idle" /\ mine[r] \in Locals
  BY <1>1 DEF ActivityInv, Sound
<1>3. listed' \in 0..Items \cup {Unlisted}
  BY <1>1, <1>2 DEF ActivityInv, Locals
<1>4. Onwards(r)
  BY <1>1, <1>2, <1>3, QuietGoesOn DEF ActivityInv
<1>5. CASE Supplied(r, FALSE)
  BY <1>1, <1>4, <1>5, SuppliedStays
<1>6. CASE Goes(r, at[r], "use", [mine[r] EXCEPT !.bag = 0])
  <2> DEFINE m == [mine[r] EXCEPT !.bag = 0]
  <2>1. /\ m \in Locals /\ m.left = mine[r].left /\ m.free = mine[r].free
        /\ m.done = mine[r].done /\ m.hand = mine[r].hand
    BY <1>2, Numbers DEF Locals
  <2> HIDE DEF m
  <2> QED
    BY <1>1, <1>4, <1>6, <2>1, RunnerStays DEF Calls, m
<1> QED
  BY <1>5, <1>6 DEF Listed

LEMMA UseKeeps ==
    ASSUME ActivityInv, NEW r \in Runner, UseItem(r)
    PROVE  ActivityInv'
<1>1. call[r] = "use" /\ UNCHANGED <<errand, enabled, overlap, fights, tally>>
  BY DEF UseItem, Settings
<1>2. at[r] # "idle" /\ game \in Games /\ game.stock + game.bag <= 2 * Items
  BY <1>1 DEF ActivityInv, Sound, Stocked
<1>3. (\E b \in BOOLEAN : Supplied(r, b))
      /\ listed' \in {listed, Unlisted} /\ (cooling' = TRUE \/ cooling' = cooling)
      /\ (misled' = TRUE \/ misled' = misled)
  BY DEF UseItem, Asked
<1>4. PICK b \in BOOLEAN : Supplied(r, b)
  BY <1>3
<1>5. /\ listed' \in 0..Items \cup {Unlisted} /\ cooling' \in BOOLEAN /\ misled' \in BOOLEAN
      /\ misled => misled'
  <2>1. listed' \in 0..Items \cup {Unlisted}
    BY <1>3 DEF ActivityInv
  <2>2. cooling' \in BOOLEAN /\ misled' \in BOOLEAN
    BY <1>3 DEF ActivityInv
  <2>3. misled => misled'
    BY <1>3, Zenon
  <2> QED
    BY <2>1, <2>2, <2>3
<1>6. CASE game' = game
  <2>1. Onwards(r)
    BY <1>1, <1>2, <1>6, <1>5, QuietGoesOn
  <2> QED
    BY <1>1, <1>4, <1>6, <2>1, SuppliedStays
<1>7. CASE game.bag > 0 /\ game' = [game EXCEPT !.bag = @ - 1, !.stock = @ + 1]
  <2>1. game.stock \in Nat /\ game.bag \in 0..Items /\ game.used \in Nat /\ game.free \in 0..Items
    BY <1>2, Numbers DEF Games
  <2>2. game.stock + 1 \in 0..(2 * Items) /\ game.bag - 1 \in 0..Items
        /\ (game.stock + 1) + (game.bag - 1) <= 2 * Items
    BY <1>2, <1>7, <2>1, Numbers
  <2>3. /\ game' \in Games /\ game'.stock = game.stock + 1 /\ game'.bag = game.bag - 1
        /\ game'.used = game.used /\ game'.free = game.free /\ game'.due = game.due
        /\ game'.won = game.won
    BY <1>2, <1>7, <2>2 DEF Games
  <2>4. Stocked(game')
    BY <2>2, <2>3 DEF ActivityInv, Stocked
  <2>5. DayFits(overlap', misled', game')
    BY <1>1, <1>3, <2>3 DEF ActivityInv, DayFits
  <2>6. ~overlap => \A s \in Runner \ {r} : at[s] = "idle"
    BY <1>2 DEF ActivityInv, Alone
  <2>7. Onwards(r)
    BY <1>1, <1>5, <2>1, <2>3, <2>4, <2>5, <2>6 DEF ActivityInv, Onwards
  <2> QED
    BY <1>1, <1>4, <2>3, <2>7, SuppliedStays
<1> QED
  BY <1>6, <1>7 DEF UseItem, Asked

\* A request, in which the game does nothing or something that fits.
LEMMA RequestGoesOn ==
    ASSUME ActivityInv, NEW r \in Runner, at[r] # "idle", Settings, Bag,
           misled' = misled \/ misled' = TRUE,
           game' = game \/ (/\ Stocked(game') /\ game.used <= game'.used
                            /\ DayFits(overlap, misled', game'))
    PROVE  Onwards(r)
<1>1. UNCHANGED <<errand, enabled, overlap, listed, cooling, fights>>
  BY DEF Settings, Bag
<1>2. misled' \in BOOLEAN
  BY DEF ActivityInv
<1>3. misled => misled'
  BY Zenon
<1>4. CASE game' = game
  BY <1>1, <1>2, <1>3, <1>4, QuietGoesOn DEF ActivityInv
<1>5. CASE /\ Stocked(game') /\ game.used <= game'.used
           /\ DayFits(overlap, misled', game')
  <2>1. ~overlap => \A s \in Runner \ {r} : at[s] = "idle"
    BY DEF ActivityInv, Alone
  <2>2. DayFits(overlap', misled', game')
    BY <1>1, <1>5 DEF DayFits
  <2> QED
    BY <1>1, <1>2, <1>3, <1>5, <2>1, <2>2 DEF ActivityInv, Onwards
<1> QED
  BY <1>4, <1>5

\* Only the tally of a run that ends in nothing counted.
LEMMA UncountedErrand ==
    ASSUME NEW r \in Runner, NEW m, errand \in {"gang", "tower", "chest"}, tally' \in Nat
    PROVE  Tallied(r, m)
BY DEF Tallied, Flowers

LEMMA CancelledKeeps ==
    ASSUME ActivityInv, NEW r \in Runner, Cancelled(r)
    PROVE  ActivityInv'
<1>1. /\ at[r] # "idle" /\ Stops(r) /\ Settings /\ Bag
      /\ UNCHANGED <<game, tally, misled>>
  BY DEF Cancelled
<1>2. Onwards(r)
  BY <1>1, RequestGoesOn
<1>3. /\ tally \in Nat /\ game.used \in Nat /\ mine[r].done \in Nat
      /\ errand = "ad" => tally <= game.used
  BY Numbers DEF ActivityInv, Locals, Stocked, Games, Counted, CountedOnce
<1>4. Tallied(r, NoLocals)
  BY <1>1, <1>3, Numbers DEF Tallied
<1> QED
  BY <1>1, <1>2, <1>4, RunnerStops

\* Nobody's run: an advertisement falls due, and the supply may be asked again.
LEMMA AsideKeeps ==
    ASSUME ActivityInv, UNCHANGED <<errand, enabled, at, call, mine, listed, overlap, misled>>,
           cooling' \in BOOLEAN, tally' \in Nat, errand \in {"ad"} \cup Flowers => tally' = tally,
           Stocked(game'), UNCHANGED fights, game'.used = game.used,
           game'.free = game.free, game'.won = game.won
    PROVE  ActivityInv'
<1>1. Counted'
  <2>1. Uncounted' = Uncounted
    BY DEF Uncounted
  <2> QED
    BY <2>1 DEF ActivityInv, Counted, CountedOnce
<1>2. Alone' /\ DayFits(overlap, misled, game)'
  BY DEF ActivityInv, Alone, DayFits
<1>3. \A r \in Runner : /\ Sound(at[r], call[r], mine[r])'
                        /\ errand' = "ad" => mine'[r].done <= game'.used
                        /\ Room(overlap, misled, game, fights, at[r], mine[r])'
  BY DEF ActivityInv, Sound, Seated, Provided, Room
<1>4. Stocked(game)'
  BY DEF Stocked
<1> QED
  BY <1>1, <1>2, <1>3, <1>4 DEF ActivityInv, Places, Calls, Locals, Errand, Unlisted

LEMMA OthersKeep ==
    ASSUME ActivityInv, AdDue \/ CoolsDown \/ UNCHANGED activityVars
    PROVE  ActivityInv'
<1>1. game \in Games /\ game.stock \in Nat /\ tally \in Nat /\ cooling \in BOOLEAN
      /\ Stocked(game)
  BY DEF ActivityInv, Stocked, Games
<1>3. CASE AdDue
  <2>1. game' \in Games /\ game'.used = game.used /\ game'.free = game.free
        /\ game'.won = game.won /\ game'.stock = game.stock /\ game'.bag = game.bag
    BY <1>1, <1>3 DEF AdDue, Games
  <2>2. Stocked(game')
    BY <1>1, <1>3, <2>1 DEF AdDue, Stocked
  <2> QED
    BY <1>1, <1>3, <2>1, <2>2, AsideKeeps DEF AdDue, Settings, Bag
<1>4. CASE CoolsDown
  BY <1>1, <1>4, AsideKeeps DEF CoolsDown, Settings
<1>5. CASE UNCHANGED activityVars
  BY <1>1, <1>5, AsideKeeps DEF activityVars
<1> QED
  BY <1>3, <1>4, <1>5

-----------------------------------------------------------------------------
(* MarriageFlowers and MarriageGift *)

LEMMA FirstReading ==
    ASSUME ActivityInv
    PROVE  /\ Reading \in Locals /\ Reading.done = 0 /\ Reading.left = LeftOf(game.used)
           /\ LeftOf(game.used) \in Nat /\ LeftOf(game.used) <= Limit
           /\ game.used <= Limit => LeftOf(game.used) + game.used <= Limit
<1>1. game.used \in Nat /\ game.warm \in Nat
  BY DEF ActivityInv, Stocked, Games
<1>2. /\ LeftOf(game.used) \in Nat /\ LeftOf(game.used) <= Limit
      /\ game.used <= Limit => LeftOf(game.used) + game.used <= Limit
  BY <1>1, Numbers DEF LeftOf
<1>3. LeftOf(game.used) \in 0..(Limit + Items)
  BY <1>2, Numbers
<1>4. Reading \in Locals /\ Reading.done = 0 /\ Reading.left = LeftOf(game.used)
  BY <1>1, <1>3, Numbers DEF Reading, Locals, NoLocals
<1> QED
  BY <1>2, <1>4

LEMMA SendsOnKeeps ==
    ASSUME ActivityInv, NEW r \in Runner, Onwards(r), errand \in Flowers, NEW m \in Locals,
           SendsOn(r, m), m.left + m.done <= Limit,
           m.done + game.used <= mine[r].done + game'.used,
           ~overlap' /\ ~misled' => m.left + game'.used <= Limit
    PROVE  ActivityInv'
<1>1. /\ tally \in Nat /\ m.done \in Nat /\ mine[r].done \in Nat /\ m.left \in Nat
      /\ game.used \in Nat /\ game'.used \in Nat
  BY Numbers DEF ActivityInv, Locals, Onwards, Stocked, Games
<1>2. errand # "ad" /\ errand # "gang" /\ errand # "chest" /\ errand # "tower"
  BY DEF Flowers
<1>3. CASE Goes(r, "send", "none", m) /\ tally' = tally
  <2>1. Sound("send", "none", m)
    BY <1>2 DEF Sound, Seated, Provided, Places, Calls
  <2>2. Tallied(r, m)
    BY <1>1, <1>2, <1>3 DEF Tallied
  <2>3. Room(overlap', misled', game', fights', "send", m)
    BY <1>2 DEF Room
  <2> QED
    BY <1>3, <2>1, <2>2, <2>3, RunnerTurns
<1>4. CASE Stops(r) /\ tally' = tally + m.done
  <2>1. tally' \in Nat /\ tally' + 0 + game.used <= tally + mine[r].done + game'.used
    BY <1>1, <1>4
  <2>2. Tallied(r, NoLocals)
    BY <1>2, <2>1, Numbers DEF Tallied
  <2> QED
    BY <1>4, <2>2, RunnerStops
<1> QED
  BY <1>3, <1>4 DEF SendsOn, OfTheRun

LEMMA BeginFlowersKeeps ==
    ASSUME ActivityInv, NEW r \in Runner, BeginFlowers(r)
    PROVE  ActivityInv'
<1>1. Begins(r, "flowers") /\ UNCHANGED <<fights, tally>>
      /\ (misled' = misled \/ misled' = TRUE)
  BY DEF BeginFlowers
<1>2. misled \in BOOLEAN /\ misled' \in BOOLEAN /\ tally \in Nat /\ game.used \in Nat
  BY <1>1 DEF ActivityInv, Stocked, Games
<1>3. misled => misled'
  BY <1>1, Zenon
<1>4. Onwards(r) /\ mine[r] = NoLocals /\ UNCHANGED <<game, errand>> /\ errand = "flowers"
  BY <1>1, <1>2, <1>3, BeginningGoesOn
<1>5. ASSUME NEW m \in Locals, Goes(r, "send", "ensure", m), m.done = 0, m.left <= Limit,
             ~overlap' /\ ~misled' => m.left + game.used <= Limit
      PROVE  ActivityInv'
  <2>1. m.left \in Nat
    BY Numbers DEF Locals
  <2>2. Sound("send", "ensure", m)
    BY <1>4, <1>5, <2>1, Numbers DEF Sound, Seated, Provided, Places, Calls, Flowers
  <2>3. Tallied(r, m)
    BY <1>1, <1>2, <1>4, <1>5, Numbers DEF Tallied
  <2>4. Room(overlap', misled', game', fights', "send", m)
    BY <1>4, <1>5 DEF Room
  <2> QED
    BY <1>4, <1>5, <2>2, <2>3, <2>4, RunnerTurns
<1>6. CASE Goes(r, "send", "ensure", Reading) /\ UNCHANGED misled
  <2>1. ~overlap' /\ ~misled' => game.used <= Limit
    BY <1>4, <1>6 DEF Onwards, DayFits, Flowers
  <2> QED
    BY <1>5, <1>6, <2>1, FirstReading
<1>7. CASE Goes(r, "send", "ensure", [NoLocals EXCEPT !.left = Limit]) /\ misled' = TRUE
  <2> DEFINE m == [NoLocals EXCEPT !.left = Limit]
  <2>1. m \in Locals /\ m.done = 0 /\ m.left = Limit
    BY Numbers DEF Locals, NoLocals
  <2> HIDE DEF m
  <2>2. Goes(r, "send", "ensure", m)
    BY <1>7 DEF m
  <2> QED
    BY <1>5, <1>7, <2>1, <2>2, Numbers
<1> QED
  BY <1>6, <1>7 DEF BeginFlowers

LEMMA BeginGiftKeeps ==
    ASSUME ActivityInv, NEW r \in Runner, BeginGift(r)
    PROVE  ActivityInv'
<1>1. Begins(r, "gift") /\ UNCHANGED <<fights, misled>>
  BY DEF BeginGift
<1>2. misled \in BOOLEAN /\ tally \in Nat /\ game.used \in Nat
  BY <1>1 DEF ActivityInv, Stocked, Games
<1>3. Onwards(r) /\ mine[r] = NoLocals /\ UNCHANGED <<game, errand>> /\ errand = "gift"
  BY <1>1, <1>2, BeginningGoesOn
<1>4. CASE SendsOn(r, Reading)
  <2>1. ~overlap' /\ ~misled' => game.used <= Limit
    BY <1>3 DEF Onwards, DayFits, Flowers
  <2>2. errand \in Flowers /\ Reading.left + Reading.done <= Limit
        /\ Reading.done + game.used <= mine[r].done + game'.used
    BY <1>2, <1>3, FirstReading, Numbers DEF Flowers
  <2>3. ~overlap' /\ ~misled' => Reading.left + game'.used <= Limit
    BY <1>3, <2>1, FirstReading
  <2> QED
    BY <1>3, <1>4, <2>2, <2>3, FirstReading, SendsOnKeeps
<1>5. CASE Stops(r) /\ UNCHANGED tally
  <2>1. Tallied(r, NoLocals)
    BY <1>2, <1>3, <1>5, Numbers DEF Tallied
  <2> QED
    BY <1>3, <1>5, <2>1, RunnerStops
<1> QED
  BY <1>4, <1>5 DEF BeginGift

LEMMA SendKeeps ==
    ASSUME ActivityInv, NEW r \in Runner, Send(r)
    PROVE  ActivityInv'
<1> DEFINE m == mine[r]
           next == [m EXCEPT !.left = Less(@), !.done = @ + 1, !.warm = @ + 1]
           after == [game EXCEPT !.stock = @ - 1, !.used = @ + 1, !.warm = @ + 1]
<1>1. at[r] \in {"send", "resend"} /\ call[r] = "none" /\ Settings /\ Bag
  BY DEF Send
<1>2. /\ m \in Locals /\ errand \in Flowers /\ at[r] # "idle"
      /\ m.left + m.done <= Limit
      /\ ~overlap /\ ~misled => m.left + game.used <= Limit
  BY <1>1 DEF ActivityInv, Sound, Seated, Provided, Room
<1>3. /\ m.left \in Nat /\ m.done \in Nat /\ m.warm \in Nat /\ tally \in Nat
      /\ game \in Games /\ game.used \in Nat /\ game.stock \in 0..(2 * Items)
      /\ game.warm \in Nat
  BY <1>2, Numbers DEF ActivityInv, Locals, Stocked, Games
<1>4. misled' = misled \/ misled' = TRUE
  BY DEF Send, Asked
<1>5. overlap' = overlap /\ errand' = errand /\ errand # "ad"
  BY <1>1, <1>2 DEF Settings, Flowers
<1>6. CASE game' = game
  <2>1. Onwards(r)
    BY <1>1, <1>2, <1>4, <1>6, RequestGoesOn
  <2>2. (overlap => overlap') /\ (misled => misled')
    BY <2>1 DEF Onwards
  <2>3. ~overlap' /\ ~misled' => m.left + game'.used <= Limit
    BY <1>2, <1>6, <2>2
  <2>4. CASE SendsOn(r, m)
    BY <1>2, <1>3, <1>6, <2>1, <2>3, <2>4, SendsOnKeeps
  <2>5. CASE Goes(r, "resend", "ensure", m) /\ UNCHANGED tally
    <3>1. Sound("resend", "ensure", m)
      BY <1>2 DEF Sound, Seated, Provided, Places, Calls
    <3>2. Tallied(r, m)
      BY <1>3, <1>5, <1>6, <2>5 DEF Tallied
    <3>3. Room(overlap', misled', game', fights', "resend", m)
      BY <1>2, <2>3 DEF Room, Flowers
    <3> QED
      BY <2>1, <2>5, <3>1, <3>2, <3>3, RunnerTurns
  <2>6. CASE Stops(r) /\ tally' = tally + m.done
    <3>1. Tallied(r, NoLocals)
      BY <1>3, <1>5, <1>6, <2>6, Numbers DEF Tallied
    <3> QED
      BY <2>1, <2>6, <3>1, RunnerStops
  <2>7. game' # after
    <3>1. after.used = game.used + 1
      BY <1>3 DEF Games
    <3> HIDE DEF after
    <3> QED
      BY <1>3, <1>6, <3>1
  <2> QED
    BY <1>1, <2>4, <2>5, <2>6, <2>7 DEF Send, Asked, OfTheRun
<1>7. CASE game' # game
  <2>1. /\ m.left > 0 /\ m.warm < Full /\ game.stock > 0 /\ game' = after
        /\ \/ SendsOn(r, next) /\ UNCHANGED misled
           \/ /\ misled' = TRUE
              /\ \/ Goes(r, "resend", "ensure", m) /\ UNCHANGED tally
                 \/ Stops(r) /\ tally' = tally + m.done
    BY <1>7 DEF Send, Asked, OfTheRun
  <2>2. /\ game' \in Games /\ game'.used = game.used + 1 /\ game'.stock = game.stock - 1
        /\ game'.bag = game.bag
    <3>1. game.stock - 1 \in 0..(2 * Items) /\ game.used + 1 \in Nat /\ game.warm + 1 \in Nat
      BY <1>3, <2>1, Numbers
    <3> QED
      BY <1>3, <2>1, <3>1 DEF Games
  <2>3. Stocked(game')
    <3>1. game.stock + game.bag <= 2 * Items /\ game.bag \in Nat
      BY Numbers DEF ActivityInv, Stocked, Games
    <3> QED
      BY <1>3, <1>5, <2>2, <3>1, Numbers DEF Stocked
  <2>4. ~overlap /\ ~misled' => m.left + game.used <= Limit
    BY <1>2, <2>1
  <2>5. DayFits(overlap, misled', game')
    BY <1>2, <1>3, <2>1, <2>2, <2>4, Numbers DEF DayFits, Flowers
  <2>6. Onwards(r)
    <3>1. game.used <= game'.used
      BY <1>3, <2>2
    <3> QED
      BY <1>1, <1>2, <1>4, <2>3, <2>5, <3>1, RequestGoesOn
  <2>7. CASE SendsOn(r, next) /\ UNCHANGED misled
    <3>1. /\ next.left = m.left - 1 /\ next.done = m.done + 1 /\ next.warm = m.warm + 1
          /\ next \in Locals
      <4>1. /\ Less(m.left) = m.left - 1 /\ m.left - 1 \in 0..(Limit + Items)
            /\ m.done + 1 \in 0..Limit /\ m.warm + 1 \in Nat
        BY <1>2, <1>3, <2>1, Numbers DEF Less
      <4> QED
        BY <1>2, <4>1 DEF Locals
    <3> HIDE DEF next
    <3>2. next.left + next.done <= Limit /\ next.done + game.used <= m.done + game'.used
      BY <1>2, <1>3, <2>2, <3>1, Numbers
    <3>3. ~overlap' /\ ~misled' => next.left + game'.used <= Limit
      BY <1>3, <1>5, <2>2, <2>4, <3>1, Numbers
    <3> QED
      BY <1>2, <2>6, <2>7, <3>1, <3>2, <3>3, SendsOnKeeps
  <2>8. CASE misled' = TRUE /\ Goes(r, "resend", "ensure", m) /\ UNCHANGED tally
    <3>1. Sound("resend", "ensure", m)
      BY <1>2 DEF Sound, Seated, Provided, Places, Calls
    <3>2. Tallied(r, m)
      BY <1>3, <1>5, <2>2, <2>8 DEF Tallied
    <3>3. Room(overlap', misled', game', fights', "resend", m)
      BY <1>2, <2>8 DEF Room, Flowers
    <3> QED
      BY <2>6, <2>8, <3>1, <3>2, <3>3, RunnerTurns
  <2>9. CASE misled' = TRUE /\ Stops(r) /\ tally' = tally + m.done
    <3>1. Tallied(r, NoLocals)
      BY <1>3, <1>5, <2>2, <2>9, Numbers DEF Tallied
    <3> QED
      BY <2>6, <2>9, <3>1, RunnerStops
  <2> QED
    BY <2>1, <2>7, <2>8, <2>9
<1> QED
  BY <1>6, <1>7

-----------------------------------------------------------------------------
(* GangBoss and Tower *)

\* One locals' field lower.
LEMMA OneLess ==
    ASSUME NEW m \in Locals
    PROVE  /\ m.free > 0 => /\ [m EXCEPT !.free = @ - 1] \in Locals
                            /\ [m EXCEPT !.free = @ - 1].left = m.left
           /\ m.left > 0 => /\ [m EXCEPT !.left = @ - 1] \in Locals
                            /\ [m EXCEPT !.left = @ - 1].left = m.left - 1
           /\ m.hand > 0 => [m EXCEPT !.hand = @ - 1] \in Locals
<1>1. /\ m.free \in 0..Items /\ m.left \in 0..(Limit + Items) /\ m.hand \in 0..(2 * Items)
      /\ Limit + Items \in Nat
  BY Numbers DEF Locals
<1>2. /\ m.free > 0 => m.free - 1 \in 0..Items
      /\ m.left > 0 => m.left - 1 \in 0..(Limit + Items)
      /\ m.hand > 0 => m.hand - 1 \in 0..(2 * Items)
  BY <1>1, Numbers
<1>3. ASSUME m.free > 0
      PROVE  [m EXCEPT !.free = @ - 1] \in Locals /\ [m EXCEPT !.free = @ - 1].left = m.left
  BY <1>2, <1>3 DEF Locals
<1>4. ASSUME m.left > 0
      PROVE  [m EXCEPT !.left = @ - 1] \in Locals /\ [m EXCEPT !.left = @ - 1].left = m.left - 1
  BY <1>2, <1>4 DEF Locals
<1>5. ASSUME m.hand > 0 PROVE [m EXCEPT !.hand = @ - 1] \in Locals
  BY <1>2, <1>5 DEF Locals
<1> QED
  BY <1>3, <1>4, <1>5

\* What a challenge costs.
LEMMA Fought ==
    ASSUME ActivityInv, errand \in {"gang", "tower"}, NEW w \in {0, 1}
    PROVE  /\ game.free > 0 => /\ Stocked(FreeFought(w)) /\ FreeFought(w).used = game.used + 1
                               /\ FreeFought(w).won = game.won + w
                               /\ FreeFought(w).free + 1 = game.free
           /\ game.stock > 0 => /\ Stocked(PaidFought(w)) /\ PaidFought(w).used = game.used + 1
                                /\ PaidFought(w).won = game.won + w
                                /\ PaidFought(w).free = game.free
           /\ game.used \in Nat /\ game.free \in Nat /\ game.won \in Nat
<1>1. /\ game \in Games /\ game.free \in 0..Items /\ game.stock \in 0..(2 * Items)
      /\ game.bag \in 0..Items /\ game.used \in Nat /\ game.won \in Nat
      /\ game.stock + game.bag <= 2 * Items
  BY DEF ActivityInv, Stocked, Games
<1>2. /\ game.used + 1 \in Nat /\ game.won + w \in Nat
      /\ game.free > 0 => game.free - 1 \in 0..Items
      /\ game.stock > 0 => game.stock - 1 \in 0..(2 * Items)
                           /\ (game.stock - 1) + game.bag <= 2 * Items
  BY <1>1, Numbers
<1>3. ASSUME game.free > 0
      PROVE  Stocked(FreeFought(w)) /\ FreeFought(w).used = game.used + 1
             /\ FreeFought(w).won = game.won + w /\ FreeFought(w).free + 1 = game.free
  <2>1. /\ FreeFought(w) \in Games /\ FreeFought(w).used = game.used + 1
        /\ FreeFought(w).won = game.won + w
        /\ FreeFought(w).free = game.free - 1 /\ FreeFought(w).stock = game.stock
        /\ FreeFought(w).bag = game.bag
    BY <1>1, <1>2, <1>3 DEF FreeFought, Games
  <2> QED
    BY <1>1, <2>1, Numbers DEF Stocked
<1>4. ASSUME game.stock > 0
      PROVE  Stocked(PaidFought(w)) /\ PaidFought(w).used = game.used + 1
             /\ PaidFought(w).won = game.won + w /\ PaidFought(w).free = game.free
  <2>1. /\ PaidFought(w) \in Games /\ PaidFought(w).used = game.used + 1
        /\ PaidFought(w).won = game.won + w
        /\ PaidFought(w).free = game.free /\ PaidFought(w).stock = game.stock - 1
        /\ PaidFought(w).bag = game.bag
    BY <1>1, <1>2, <1>4 DEF PaidFought, Games
  <2> QED
    BY <1>1, <1>2, <1>4, <2>1 DEF Stocked
<1> QED
  BY <1>1, <1>3, <1>4, Numbers

\* What is left of a day.
LEMMA Left ==
    ASSUME NEW n \in Nat
    PROVE  /\ LeftOf(n) \in Nat /\ LeftOf(n) <= Limit /\ LeftOf(n) \in 0..(Limit + Items)
           /\ \A k \in Nat : n + k <= Limit + Items /\ k <= Items =>
                                 LeftOf(n) + k + n <= Limit + Items
<1>1. LeftOf(n) \in Nat /\ LeftOf(n) <= Limit
  BY Numbers DEF LeftOf
<1>2. ASSUME NEW k \in Nat, n + k <= Limit + Items, k <= Items
      PROVE  LeftOf(n) + k + n <= Limit + Items
  BY <1>2, Numbers DEF LeftOf
<1> QED
  BY <1>1, <1>2, Numbers

\* One victory, ten contributions.
LEMMA Tenth == ASSUME ActivityInv PROVE TodayFights = game.won /\ TodayFights \in Nat
<1>1. game.won \in Nat
  BY DEF ActivityInv, Stocked, Games
<1>2. \A n \in Nat : (10 * n) \div 10 = n
  OBVIOUS
<1> QED
  BY <1>1, <1>2 DEF TodayFights

LEMMA BooksKeep ==
    ASSUME ActivityInv, NEW r \in Runner, Onwards(r), errand = "gang", tally' \in Nat,
           NEW m \in Locals, Books(r, m),
           ~overlap' => m.left + game'.free + game'.won <= Limit + Items
    PROVE  ActivityInv'
<1>1. m.left \in Nat
  BY Numbers DEF Locals
<1>2. Tallied(r, m) /\ Tallied(r, NoLocals)
  BY UncountedErrand
<1>3. CASE m.left > 0 /\ Goes(r, "fight", "ensure", m)
  <2>1. Sound("fight", "ensure", m)
    BY <1>3 DEF Sound, Seated, Provided, Places, Calls, Flowers
  <2>2. Room(overlap', misled', game', fights', "fight", m)
    BY DEF Room, Flowers
  <2> QED
    BY <1>2, <1>3, <2>1, <2>2, RunnerTurns
<1>4. CASE Stops(r)
  BY <1>2, <1>4, RunnerStops
<1> QED
  BY <1>3, <1>4 DEF Books

LEMMA FightsOnKeeps ==
    ASSUME ActivityInv, NEW r \in Runner, Onwards(r), errand = "gang", tally' \in Nat,
           NEW m \in Locals, FightsOn(r, m, fights'),
           ~overlap' => LeftOf(fights') + game'.free + game'.won <= Limit + Items
    PROVE  ActivityInv'
<1>1. m.free \in Nat /\ fights' \in Nat
  BY Numbers DEF Locals, Onwards
<1>2. CASE m.free > 0 /\ Goes(r, "free", "none", m)
  <2>1. Sound("free", "none", m)
    BY <1>2 DEF Sound, Seated, Provided, Places, Calls, Flowers
  <2>2. Room(overlap', misled', game', fights', "free", m)
    BY DEF Room, Flowers
  <2> QED
    BY <1>2, <2>1, <2>2, UncountedErrand, RunnerTurns
<1>3. CASE Books(r, [m EXCEPT !.left = LeftOf(fights')])
  <2> DEFINE b == [m EXCEPT !.left = LeftOf(fights')]
  <2>1. LeftOf(fights') \in 0..(Limit + Items)
    BY <1>1, Left
  <2>2. b \in Locals /\ b.left = LeftOf(fights')
    BY <2>1 DEF Locals
  <2>3. Books(r, b)
    BY <1>3
  <2> HIDE DEF b
  <2> QED
    BY <2>2, <2>3, BooksKeep
<1> QED
  BY <1>2, <1>3 DEF FightsOn

LEMMA BeginGangKeeps ==
    ASSUME ActivityInv, NEW r \in Runner, BeginGang(r)
    PROVE  ActivityInv'
<1>1. Begins(r, "gang") /\ misled' = misled
  BY DEF BeginGang
<1>2. /\ misled \in BOOLEAN /\ tally \in Nat /\ fights \in Nat /\ game.won \in Nat
      /\ game.stock \in Nat /\ game.free \in 0..Items
  BY Numbers DEF ActivityInv, Stocked, Games
<1>3. tally' \in Nat /\ fights' \in Nat
  BY <1>2, Tenth DEF BeginGang
<1>4. Onwards(r) /\ UNCHANGED <<game, errand>> /\ errand = "gang"
  BY <1>1, <1>2, <1>3, BeginningGoesOn
<1>5. CASE fights' = TodayFights /\ FightsOn(r, [NoLocals EXCEPT !.free = game.free], TodayFights)
  <2> DEFINE m == [NoLocals EXCEPT !.free = game.free]
  <2>1. m \in Locals
    BY <1>2, Numbers DEF Locals, NoLocals
  <2>2. FightsOn(r, m, fights')
    BY <1>5
  <2> HIDE DEF m
  <2>3. ~overlap' => game.won + game.free <= Limit + Items
    BY <1>4 DEF Onwards, DayFits
  <2>4. fights' = game.won /\ game.free \in Nat /\ game.free <= Items
    BY <1>2, <1>5, Tenth, Numbers
  <2>5. ~overlap' => LeftOf(fights') + game'.free + game'.won <= Limit + Items
    BY <1>2, <1>4, <2>3, <2>4, Left
  <2> QED
    BY <1>3, <1>4, <2>1, <2>2, <2>5, FightsOnKeeps
<1>6. CASE Stops(r)
  BY <1>3, <1>4, <1>6, UncountedErrand, RunnerStops
<1> QED
  BY <1>5, <1>6 DEF BeginGang

LEMMA FreeChallengeKeeps ==
    ASSUME ActivityInv, NEW r \in Runner, FreeChallenge(r)
    PROVE  ActivityInv'
<1> DEFINE m == [mine[r] EXCEPT !.free = @ - 1]
<1>1. PICK w \in {0, 1} :
          /\ errand = "gang" /\ at[r] = "free" /\ Settings /\ Bag /\ tally' = tally
          /\ FightsOn(r, m, fights) /\ (misled' = misled \/ misled' = TRUE)
          /\ game' = game \/ (game.free > 0 /\ game' = FreeFought(w))
  BY DEF FreeChallenge, Asked
<1>2. /\ mine[r] \in Locals /\ mine[r].free > 0 /\ fights \in Nat
      /\ ~overlap => LeftOf(fights) + game.free + game.won <= Limit + Items
      /\ tally \in Nat /\ DayFits(overlap, misled, game)
  BY <1>1, Numbers DEF ActivityInv, Sound, Provided, Room
<1>3. m \in Locals /\ LeftOf(fights) \in Nat
  BY <1>2, OneLess, Left
<1> HIDE DEF m
<1>4. /\ game.used \in Nat /\ game.free \in Nat /\ game.won \in Nat
      /\ game.free > 0 => /\ Stocked(FreeFought(w)) /\ FreeFought(w).used = game.used + 1
                          /\ FreeFought(w).won = game.won + w
                          /\ FreeFought(w).free + 1 = game.free /\ FreeFought(w).free \in Nat
  <2>1. Stocked(FreeFought(w)) => FreeFought(w).free \in Nat
    BY Numbers DEF Stocked, Games
  <2> QED
    BY <1>1, <2>1, Fought
<1>5. ~overlap => game.won + game.free <= Limit + Items
  BY <1>1, <1>2 DEF DayFits
<1>6. game.free > 0 => FreeFought(w).won + FreeFought(w).free <= game.won + game.free
  BY <1>4
<1>7. game.free > 0 => DayFits(overlap, misled', FreeFought(w))
  BY <1>1, <1>4, <1>5, <1>6, Numbers DEF DayFits, Flowers
<1>8. Onwards(r)
  <2>1. game' = game \/ (/\ Stocked(game') /\ game.used <= game'.used
                         /\ DayFits(overlap, misled', game'))
    BY <1>1, <1>4, <1>7
  <2>2. at[r] # "idle"
    BY <1>1
  <2> QED
    BY <1>1, <2>1, <2>2, RequestGoesOn
<1>9. fights' = fights /\ overlap' = overlap
  BY <1>1 DEF Settings
<1>10. ~overlap' => LeftOf(fights') + game'.free + game'.won <= Limit + Items
  BY <1>1, <1>2, <1>3, <1>4, <1>9, Numbers
<1> QED
  BY <1>1, <1>2, <1>3, <1>8, <1>9, <1>10, FightsOnKeeps

LEMMA BookChallengeKeeps ==
    ASSUME ActivityInv, NEW r \in Runner, BookChallenge(r)
    PROVE  ActivityInv'
<1> DEFINE m == [mine[r] EXCEPT !.left = @ - 1]
<1>1. PICK w \in {0, 1} :
          /\ errand = "gang" /\ at[r] = "fight" /\ Settings /\ Bag
          /\ misled' = misled \/ misled' = TRUE
          /\ \/ game.stock > 0 /\ game' = PaidFought(w) /\ Books(r, m) /\ tally' = Less(tally)
             \/ /\ game' = game \/ (game.stock > 0 /\ game' = PaidFought(w))
                /\ Stops(r) /\ tally' = tally
  BY DEF BookChallenge, Asked
<1>2. /\ mine[r] \in Locals /\ mine[r].left > 0 /\ mine[r].left \in Nat
      /\ ~overlap => mine[r].left + game.free + game.won <= Limit + Items
      /\ tally \in Nat
  BY <1>1, Numbers DEF ActivityInv, Sound, Provided, Room, Locals
<1>3. m \in Locals /\ m.left = mine[r].left - 1
  BY <1>2, OneLess
<1> HIDE DEF m
<1>4. /\ game.used \in Nat /\ game.free \in Nat /\ game.won \in Nat
      /\ game.stock > 0 => /\ Stocked(PaidFought(w)) /\ PaidFought(w).used = game.used + 1
                           /\ PaidFought(w).won = game.won + w
                           /\ PaidFought(w).free = game.free
  BY <1>1, Fought
<1>5. game.stock > 0 => DayFits(overlap, misled', PaidFought(w))
  BY <1>1, <1>2, <1>4, Numbers DEF DayFits, Flowers
<1>6. Onwards(r)
  <2>1. game' = game \/ (/\ Stocked(game') /\ game.used <= game'.used
                         /\ DayFits(overlap, misled', game'))
    BY <1>1, <1>4, <1>5
  <2>2. at[r] # "idle"
    BY <1>1
  <2> QED
    BY <1>1, <2>1, <2>2, RequestGoesOn
<1>7. tally' \in Nat
  BY <1>1, <1>2 DEF Less
<1>8. CASE game.stock > 0 /\ game' = PaidFought(w) /\ Books(r, m)
  <2>1. ~overlap' => ~overlap
    BY <1>6 DEF Onwards
  <2>2. ~overlap' => m.left + game'.free + game'.won <= Limit + Items
    BY <1>2, <1>3, <1>4, <1>8, <2>1, Numbers
  <2> QED
    BY <1>1, <1>3, <1>6, <1>7, <1>8, <2>2, BooksKeep
<1>9. CASE Stops(r)
  BY <1>1, <1>6, <1>7, <1>9, UncountedErrand, RunnerStops
<1> QED
  BY <1>1, <1>8, <1>9

\* A reading of the route and what it puts into the attributes: the next run
\* reads for itself, and no other is under way if none has overlapped.
LEMMA SyncBooksKeeps ==
    ASSUME ActivityInv, NEW r \in Runner, BeginSync(r) \/ SyncBooks(r)
    PROVE  ActivityInv'
<1>1. /\ misled \in BOOLEAN /\ tally \in Nat /\ fights \in Nat
      /\ game.stock \in 0..(2 * Items) /\ mine[r] \in Locals
  BY DEF ActivityInv, Stocked, Games
<1>2. CASE BeginSync(r)
  <2> DEFINE m == [NoLocals EXCEPT !.fought = TodayFights, !.hand = game.stock]
  <2>1. Begins(r, "gang") /\ UNCHANGED <<fights, tally, misled>> /\ Goes(r, "sync", "none", m)
    BY <1>2 DEF BeginSync
  <2>2. m \in Locals
    BY <1>1, Tenth, Numbers DEF Locals, NoLocals
  <2> HIDE DEF m
  <2>3. Onwards(r) /\ errand = "gang"
    BY <1>1, <2>1, BeginningGoesOn
  <2>4. Sound("sync", "none", m)
    BY <2>2, <2>3 DEF Sound, Seated, Provided, Places, Calls, Flowers
  <2>5. Room(overlap', misled', game', fights', "sync", m)
    BY <2>3 DEF Room, Flowers
  <2>6. Tallied(r, m)
    BY <1>1, <2>1, <2>3, UncountedErrand
  <2> QED
    BY <2>1, <2>3, <2>4, <2>5, <2>6, RunnerTurns
<1>3. CASE SyncBooks(r)
  <2>1. /\ at[r] = "sync" /\ Stops(r)
        /\ UNCHANGED <<errand, enabled, game, overlap, misled, listed, cooling>>
    BY <1>3 DEF SyncBooks, Bag
  <2>2. fights' \in Nat /\ tally' \in Nat
    BY <1>1, <1>3, Numbers DEF SyncBooks, Locals
  <2>3. errand = "gang"
    BY <2>1 DEF ActivityInv, Sound, Seated
  <2>4. Onwards(r)
    BY <1>1, <2>1, <2>2, QuietGoesOn DEF ActivityInv
  <2> QED
    BY <2>1, <2>2, <2>3, <2>4, UncountedErrand, RunnerStops
<1> QED
  BY <1>2, <1>3

\* The tower has no limit; what counts is that attempts and pills are there.
LEMMA ClimbsOnKeeps ==
    ASSUME ActivityInv, NEW r \in Runner, Onwards(r), errand = "tower", tally' \in Nat,
           NEW m \in Locals, ClimbsOn(r, m)
    PROVE  ActivityInv'
<1>1. m.free \in Nat
  BY Numbers DEF Locals
<1>2. Tallied(r, m) /\ Tallied(r, NoLocals) /\ \A a : Room(overlap', misled', game', fights', a, m)
  BY UncountedErrand DEF Room, Flowers
<1>3. CASE m.free > 0 /\ Goes(r, "free", "none", m)
  <2>1. Sound("free", "none", m)
    BY <1>3 DEF Sound, Seated, Provided, Places, Calls, Flowers
  <2> QED
    BY <1>2, <1>3, <2>1, RunnerTurns
<1>4. CASE Goes(r, "look", "ensure", m)
  <2>1. Sound("look", "ensure", m)
    BY DEF Sound, Seated, Provided, Places, Calls, Flowers
  <2> QED
    BY <1>2, <1>4, <2>1, RunnerTurns
<1>5. CASE Stops(r)
  BY <1>2, <1>5, RunnerStops
<1> QED
  BY <1>3, <1>4, <1>5 DEF ClimbsOn

LEMMA TowerKeeps ==
    ASSUME ActivityInv, NEW r \in Runner, BeginTower(r) \/ FreeFloor(r) \/ LookForPill(r) \/ PillFloor(r)
    PROVE  ActivityInv'
<1>1. /\ mine[r] \in Locals /\ tally \in Nat /\ misled \in BOOLEAN
      /\ game.free \in 0..Items /\ game.stock \in 0..(2 * Items)
  BY DEF ActivityInv, Stocked, Games
<1>2. tally' \in Nat
  BY <1>1 DEF BeginTower, FreeFloor, LookForPill, PillFloor
<1>3. CASE BeginTower(r)
  <2> DEFINE m == [NoLocals EXCEPT !.free = game.free, !.hand = game.stock]
  <2>1. Onwards(r) /\ errand = "tower"
    <3>1. Begins(r, "tower") /\ UNCHANGED <<fights, misled>>
      BY <1>3 DEF BeginTower
    <3> QED
      BY <1>1, <3>1, BeginningGoesOn
  <2>2. m \in Locals
    BY <1>1, Numbers DEF Locals, NoLocals
  <2>3. ClimbsOn(r, m) \/ Stops(r)
    BY <1>3 DEF BeginTower
  <2> HIDE DEF m
  <2> QED
    BY <1>2, <2>1, <2>2, <2>3, ClimbsOnKeeps, UncountedErrand, RunnerStops
<1>4. CASE FreeFloor(r)
  <2> DEFINE m == [mine[r] EXCEPT !.free = @ - 1]
  <2>1. /\ errand = "tower" /\ at[r] = "free" /\ at[r] # "idle" /\ Settings /\ Bag
        /\ misled' = misled \/ misled' = TRUE
        /\ game' = game \/ (game.free > 0 /\ game' = FreeFought(0))
        /\ ClimbsOn(r, m) \/ Stops(r)
    BY <1>4 DEF FreeFloor, Asked
  <2>2. m \in Locals
    BY <1>1, <2>1, OneLess DEF ActivityInv, Sound, Provided
  <2> HIDE DEF m
  <2>3. game.free > 0 => Stocked(FreeFought(0)) /\ game.used <= FreeFought(0).used
    BY <2>1, Fought
  <2>4. DayFits(overlap, misled', FreeFought(0))
    BY <2>1 DEF DayFits, Flowers
  <2>5. Onwards(r)
    BY <2>1, <2>3, <2>4, RequestGoesOn
  <2> QED
    BY <1>2, <2>1, <2>2, <2>5, ClimbsOnKeeps, UncountedErrand, RunnerStops
<1>5. CASE LookForPill(r)
  <2> DEFINE m == [mine[r] EXCEPT !.hand = game.stock]
  <2>1. /\ at[r] = "look" /\ at[r] # "idle" /\ Settings /\ Bag /\ game' = game /\ misled' = misled
        /\ (game.stock > 0 /\ Goes(r, "fight", "none", m)) \/ Stops(r)
    BY <1>5 DEF LookForPill
  <2>2. errand = "tower"
    BY <2>1 DEF ActivityInv, Sound, Seated
  <2>3. m \in Locals /\ m.hand = game.stock
    BY <1>1 DEF Locals
  <2> HIDE DEF m
  <2>4. Onwards(r) /\ Tallied(r, m) /\ Tallied(r, NoLocals)
    BY <1>2, <2>1, <2>2, RequestGoesOn, UncountedErrand
  <2>5. game.stock > 0 => Sound("fight", "none", m)
    BY <2>2, <2>3 DEF Sound, Seated, Provided, Places, Calls, Flowers
  <2>6. Room(overlap', misled', game', fights', "fight", m)
    BY <2>2 DEF Room, Flowers
  <2> QED
    BY <2>1, <2>4, <2>5, <2>6, RunnerTurns, RunnerStops
<1>6. CASE PillFloor(r)
  <2> DEFINE m == [mine[r] EXCEPT !.hand = @ - 1]
  <2>1. /\ errand = "tower" /\ at[r] = "fight" /\ at[r] # "idle" /\ Settings /\ Bag
        /\ misled' = misled \/ misled' = TRUE
        /\ game' = game \/ (game.stock > 0 /\ game' = PaidFought(0))
        /\ Goes(r, "look", "ensure", m) \/ Stops(r)
    BY <1>6 DEF PillFloor, Asked
  <2>2. m \in Locals
    BY <1>1, <2>1, OneLess DEF ActivityInv, Sound, Provided
  <2> HIDE DEF m
  <2>3. game.stock > 0 => Stocked(PaidFought(0)) /\ game.used <= PaidFought(0).used
    BY <2>1, Fought
  <2>4. DayFits(overlap, misled', PaidFought(0))
    BY <2>1 DEF DayFits, Flowers
  <2>5. Onwards(r) /\ Tallied(r, m) /\ Tallied(r, NoLocals)
    <3>1. game' = game \/ (/\ Stocked(game') /\ game.used <= game'.used
                           /\ DayFits(overlap, misled', game'))
      BY <2>1, <2>3, <2>4
    <3>2. Onwards(r)
      BY <2>1, <3>1, RequestGoesOn
    <3> QED
      BY <1>2, <2>1, <3>2, UncountedErrand
  <2>6. Sound("look", "ensure", m) /\ Room(overlap', misled', game', fights', "look", m)
    BY <2>1, <2>2 DEF Sound, Seated, Provided, Places, Calls, Flowers, Room
  <2> QED
    BY <2>1, <2>5, <2>6, RunnerTurns, RunnerStops
<1> QED
  BY <1>3, <1>4, <1>5, <1>6

-----------------------------------------------------------------------------
(* Chest and the three advertisements *)

LEMMA OpensOnKeeps ==
    ASSUME ActivityInv, NEW r \in Runner, Onwards(r), errand = "chest", tally' \in Nat,
           game' = game, OpensOn(r) \/ Stops(r)
    PROVE  ActivityInv'
<1>1. Tallied(r, NoLocals)
  BY UncountedErrand
<1>2. CASE game.used < Limit /\ Goes(r, "open", "none", NoLocals)
  <2>1. Sound("open", "none", NoLocals) /\ Room(overlap', misled', game', fights', "open", NoLocals)
    BY <1>2, Numbers DEF Sound, Seated, Provided, Places, Calls, Flowers, Room
  <2> QED
    BY <1>1, <1>2, <2>1, RunnerTurns
<1>3. CASE Stops(r)
  BY <1>1, <1>3, RunnerStops
<1> QED
  BY <1>2, <1>3 DEF OpensOn

LEMMA ChestKeeps ==
    ASSUME ActivityInv, NEW r \in Runner, BeginChest(r) \/ OpenChest(r) \/ ReadCost(r)
    PROVE  ActivityInv'
<1>1. /\ tally \in Nat /\ misled \in BOOLEAN /\ game \in Games /\ game.used \in Nat
      /\ game.stock + game.bag <= 2 * Items
  BY DEF ActivityInv, Stocked, Games
<1>2. tally' \in Nat
  BY <1>1 DEF BeginChest, OpenChest, ReadCost
<1>3. CASE BeginChest(r)
  <2>1. Begins(r, "chest") /\ UNCHANGED <<fights, misled>> /\ (OpensOn(r) \/ Stops(r))
    BY <1>3 DEF BeginChest
  <2>2. Onwards(r) /\ errand = "chest" /\ game' = game
    BY <1>1, <2>1, BeginningGoesOn
  <2> QED
    BY <1>2, <2>1, <2>2, OpensOnKeeps
<1>4. CASE OpenChest(r)
  <2> DEFINE after == [game EXCEPT !.used = @ + 1]
  <2>1. /\ at[r] = "open" /\ at[r] # "idle" /\ Settings /\ Bag
        /\ misled' = misled \/ misled' = TRUE
        /\ game' = game \/ game' = after
        /\ Goes(r, "again", "none", NoLocals) \/ Stops(r)
    BY <1>4 DEF OpenChest, Asked
  <2>2. errand = "chest"
    BY <2>1 DEF ActivityInv, Sound, Seated
  <2>3. ~overlap => game.used < Limit
    BY <2>1, <2>2 DEF ActivityInv, Room
  <2>4. after \in Games /\ after.used = game.used + 1 /\ after.stock = game.stock
        /\ after.bag = game.bag
    BY <1>1 DEF Games
  <2> HIDE DEF after
  <2>5. Stocked(after) /\ game.used <= after.used
    BY <1>1, <2>2, <2>4 DEF Stocked
  <2>6. DayFits(overlap, misled', after)
    BY <1>1, <2>2, <2>3, <2>4, Numbers DEF DayFits, Flowers
  <2>7. Onwards(r) /\ Tallied(r, NoLocals)
    <3>1. game' = game \/ (/\ Stocked(game') /\ game.used <= game'.used
                           /\ DayFits(overlap, misled', game'))
      BY <2>1, <2>5, <2>6
    <3>2. Onwards(r)
      BY <2>1, <3>1, RequestGoesOn
    <3> QED
      BY <1>2, <2>2, <3>2, UncountedErrand
  <2>8. Sound("again", "none", NoLocals) /\ Room(overlap', misled', game', fights', "again", NoLocals)
    BY <2>2, Numbers DEF Sound, Seated, Provided, Places, Calls, Flowers, Room
  <2> QED
    BY <2>1, <2>7, <2>8, RunnerTurns, RunnerStops
<1>5. CASE ReadCost(r)
  <2>1. /\ at[r] = "again" /\ at[r] # "idle" /\ Settings /\ Bag /\ game' = game
        /\ misled' = misled /\ (OpensOn(r) \/ Stops(r))
    BY <1>5 DEF ReadCost
  <2>2. errand = "chest"
    BY <2>1 DEF ActivityInv, Sound, Seated
  <2>3. Onwards(r)
    BY <2>1, RequestGoesOn
  <2> QED
    BY <1>2, <2>1, <2>2, <2>3, OpensOnKeeps
<1> QED
  BY <1>3, <1>4, <1>5

LEMMA AdKeeps ==
    ASSUME ActivityInv, NEW r \in Runner, BeginAd(r) \/ ClaimAd(r)
    PROVE  ActivityInv'
<1>1. /\ tally \in Nat /\ misled \in BOOLEAN /\ game \in Games /\ game.used \in Nat
      /\ game.stock + game.bag <= 2 * Items
      /\ mine[r] \in Locals /\ mine[r].done \in Nat
  BY Numbers DEF ActivityInv, Stocked, Games, Locals
<1>2. errand = "ad" => /\ game.used <= Limit /\ (game.due => game.used < Limit)
                       /\ tally <= game.used /\ mine[r].done <= game.used
  BY DEF ActivityInv, Stocked, Counted, CountedOnce
<1>3. CASE BeginAd(r)
  <2> DEFINE m == [NoLocals EXCEPT !.done = game.used]
  <2>1. /\ Begins(r, "ad") /\ UNCHANGED <<fights, misled>>
        /\ \/ tally' = game.used /\ (Goes(r, "claim", "none", m) \/ Stops(r))
           \/ Stops(r) /\ tally' = tally
    BY <1>3 DEF BeginAd
  <2>2. Onwards(r) /\ errand = "ad" /\ game' = game
    BY <1>1, <2>1, BeginningGoesOn
  <2>3. game.used \in 0..Limit
    BY <1>1, <1>2, <2>2, Numbers
  <2>4. m \in Locals /\ m.done = game.used
    BY <2>3, Numbers DEF Locals, NoLocals
  <2> HIDE DEF m
  <2>5. Sound("claim", "none", m) /\ Room(overlap', misled', game', fights', "claim", m)
    BY <2>2, <2>4 DEF Sound, Seated, Provided, Places, Calls, Flowers, Room
  <2>6. tally' \in Nat /\ tally' <= game'.used
    BY <1>1, <1>2, <2>1, <2>2
  <2>7. Tallied(r, m) /\ Tallied(r, NoLocals)
    BY <1>1, <2>2, <2>4, <2>6, Numbers DEF Tallied, Flowers
  <2> QED
    BY <2>1, <2>2, <2>5, <2>7, RunnerTurns, RunnerStops
<1>4. CASE ClaimAd(r)
  <2> DEFINE after == [game EXCEPT !.due = FALSE, !.used = @ + 1]
  <2>1. /\ at[r] = "claim" /\ at[r] # "idle" /\ Settings /\ Bag /\ Stops(r)
        /\ misled' = misled \/ misled' = TRUE
        /\ \/ game' = game /\ tally' = tally
           \/ game.due /\ game' = after /\ tally' \in {tally, mine[r].done + 1}
    BY <1>4 DEF ClaimAd, Asked
  <2>2. errand = "ad"
    BY <2>1 DEF ActivityInv, Sound, Seated
  <2>3. after \in Games /\ after.used = game.used + 1 /\ after.stock = game.stock
        /\ after.bag = game.bag /\ after.due = FALSE
    <3>1. game.used + 1 \in Nat
      BY <1>1
    <3> QED
      BY <1>1, <3>1 DEF Games
  <2> HIDE DEF after
  <2>4. game.due => Stocked(after) /\ game.used <= after.used
    BY <1>1, <1>2, <2>2, <2>3, Numbers DEF Stocked
  <2>5. DayFits(overlap, misled', after)
    BY <2>2 DEF DayFits, Flowers
  <2>6. Onwards(r)
    BY <2>1, <2>4, <2>5, RequestGoesOn
  <2>7. tally' \in Nat /\ tally' <= game'.used /\ game'.used \in Nat
    BY <1>1, <1>2, <2>1, <2>2, <2>3
  <2>8. Tallied(r, NoLocals)
    BY <2>2, <2>7, Numbers DEF Tallied, Flowers
  <2> QED
    BY <2>1, <2>6, <2>8, RunnerStops
<1> QED
  BY <1>3, <1>4

-----------------------------------------------------------------------------
(* The theorems *)

LEMMA InitActivity == ActivityInit => ActivityInv
<1> SUFFICES ASSUME ActivityInit PROVE ActivityInv
  OBVIOUS
<1>1. /\ errand \in Errand /\ enabled \in BOOLEAN
      /\ game \in [stock: 0..Items, bag: 0..Items, free: 0..Items, used: 0..Limit,
                   won: 0..Limit, warm: 0..Full, due: BOOLEAN]
      /\ game.won <= game.used /\ fights = 0
      /\ game.due => errand = "ad" /\ game.used < Limit
      /\ listed = Unlisted /\ cooling = FALSE /\ overlap = FALSE /\ misled = FALSE
      /\ at = [r \in Runner |-> "idle"] /\ call = [r \in Runner |-> "none"]
      /\ mine = [r \in Runner |-> NoLocals]
      /\ tally = IF errand = "gang" THEN game.stock ELSE game.used
  <2>1. game.won <= game.used
    <3>1. game.used \in 0..Limit
      BY DEF ActivityInit
    <3> QED
      BY <3>1, Numbers DEF ActivityInit
  <2> QED
    BY <2>1 DEF ActivityInit
<1>2. /\ game.stock \in 0..Items /\ game.bag \in 0..Items /\ game.free \in 0..Items
      /\ game.used \in 0..Limit /\ game.won \in 0..Limit /\ game.warm \in 0..Full /\ game.due \in BOOLEAN
      /\ Full \in Nat
  BY <1>1, ActivityAssumption
<1>3. game \in Games
  <2>1. /\ game.stock \in 0..(2 * Items) /\ game.bag \in 0..Items /\ game.free \in 0..Items
        /\ game.used \in Nat /\ game.won \in Nat /\ game.warm \in Nat
    BY <1>2, Numbers
  <2> QED
    BY <1>1, <2>1 DEF Games
<1>4. Stocked(game) /\ DayFits(overlap, misled, game) /\ tally \in Nat
  BY <1>1, <1>2, <1>3, Numbers DEF Stocked, DayFits, Flowers
<1>5. ASSUME NEW r \in Runner
      PROVE  /\ at[r] = "idle" /\ call[r] = "none" /\ mine[r] = NoLocals
             /\ Sound(at[r], call[r], mine[r])
             /\ errand = "ad" => mine[r].done <= game.used
             /\ Room(overlap, misled, game, fights, at[r], mine[r])
  <2>1. at[r] = "idle" /\ call[r] = "none" /\ mine[r] = NoLocals
    BY <1>1
  <2>2. Sound("idle", "none", NoLocals)
    BY Numbers DEF Sound, Seated, Provided, Places, Calls
  <2>3. Room(overlap, misled, game, fights, "idle", NoLocals)
    BY <1>2, <1>4, Numbers DEF Room, DayFits
  <2> QED
    BY <1>2, <2>1, <2>2, <2>3, Numbers
<1>6. /\ at \in [Runner -> Places] /\ call \in [Runner -> Calls] /\ mine \in [Runner -> Locals]
  BY <1>1, Numbers DEF Places, Calls
<1>7. Counted
  <2>1. \A r \in Runner : 1..mine[r].done = {}
    BY <1>5, Numbers
  <2>2. Uncounted = {}
    BY <2>1 DEF Uncounted
  <2>3. IsFiniteSet(Uncounted) /\ Cardinality(Uncounted) = 0
    BY <2>2, FS_EmptySet
  <2> QED
    BY <1>1, <1>2, <2>3, Numbers DEF Counted, CountedOnce, Flowers
<1> QED
  BY <1>1, <1>4, <1>5, <1>6, <1>7 DEF ActivityInv, Alone

LEMMA StepActivity == ActivityInv /\ [ActivityNext]_activityVars => ActivityInv'
<1> SUFFICES ASSUME ActivityInv, [ActivityNext]_activityVars PROVE ActivityInv'
  OBVIOUS
<1>1. ASSUME NEW r \in Runner, BeginFlowers(r) \/ BeginGift(r) \/ Send(r) PROVE ActivityInv'
  BY <1>1, BeginFlowersKeeps, BeginGiftKeeps, SendKeeps
<1>2. ASSUME NEW r \in Runner, BeginGang(r) \/ FreeChallenge(r) \/ BookChallenge(r)
                               \/ BeginSync(r) \/ SyncBooks(r)
      PROVE  ActivityInv'
  BY <1>2, BeginGangKeeps, FreeChallengeKeeps, BookChallengeKeeps, SyncBooksKeeps
<1>3. ASSUME NEW r \in Runner, BeginTower(r) \/ FreeFloor(r) \/ LookForPill(r) \/ PillFloor(r)
      PROVE  ActivityInv'
  BY <1>3, TowerKeeps
<1>4. ASSUME NEW r \in Runner, BeginChest(r) \/ OpenChest(r) \/ ReadCost(r) PROVE ActivityInv'
  BY <1>4, ChestKeeps
<1>5. ASSUME NEW r \in Runner, BeginAd(r) \/ ClaimAd(r) PROVE ActivityInv'
  BY <1>5, AdKeeps
<1>6. ASSUME NEW r \in Runner, Ensure(r) \/ Listed(r) \/ UseItem(r) \/ Cancelled(r)
      PROVE  ActivityInv'
  BY <1>6, EnsureKeeps, ListedKeeps, UseKeeps, CancelledKeeps
<1>7. CASE AdDue \/ CoolsDown \/ UNCHANGED activityVars
  BY <1>7, OthersKeep
<1> QED
  BY <1>1, <1>2, <1>3, <1>4, <1>5, <1>6, <1>7 DEF ActivityNext

LEMMA ActivityInvariant == ActivitySpec => []ActivityInv
BY InitActivity, StepActivity, PTL DEF ActivitySpec

LEMMA ActivityTypes == ActivityInv => ActivityTypeOK
<1> SUFFICES ASSUME ActivityInv PROVE ActivityTypeOK
  OBVIOUS
<1>1. at \in [Runner -> Places] /\ call \in [Runner -> Calls] /\ game \in Games
      /\ \A r \in Runner : mine[r] \in Locals
                           /\ (at[r] = "idle" => call[r] = "none" /\ mine[r] = NoLocals)
  BY DEF ActivityInv, Sound, Stocked
<1> QED
  BY <1>1 DEF ActivityInv, ActivityTypeOK, Places, Calls, Locals, Games

\* Types, for any number of coroutines, any limit and any supply.
THEOREM ActivityTypeCorrect == ActivitySpec => []ActivityTypeOK
BY ActivityTypes, ActivityInvariant, PTL

\* No run of an activity, alone and not misled, does more than the day allows; of
\* the fights with the gang boss, no more are won.
THEOREM LimitCorrect == ActivitySpec => []WithinLimit
<1>1. ActivityInv => WithinLimit
  <2> SUFFICES ASSUME ActivityInv, ~overlap, errand \in Flowers => ~misled, errand # "tower"
               PROVE  IF errand = "gang" THEN game.won <= Limit + Items ELSE game.used <= Limit
    BY DEF WithinLimit
  <2>1. /\ game.won \in Nat /\ game.free \in Nat /\ errand \in Errand
        /\ DayFits(overlap, misled, game)
        /\ errand = "ad" => game.used <= Limit
    BY Numbers DEF ActivityInv, Stocked, Games
  <2>2. errand = "gang" => game.won + game.free <= Limit + Items
    BY <2>1 DEF DayFits
  <2>3. errand # "gang" => game.used <= Limit
    BY <2>1 DEF DayFits, Errand, Flowers
  <2> QED
    BY <2>1, <2>2, <2>3, Numbers
<1> QED
  BY <1>1, ActivityInvariant, PTL

\* _flowers_sent and the today_count of an advertisement never exceed what the
\* game has accepted, with any overlap, loss or cancellation.
THEOREM CountedCorrect == ActivitySpec => []CountedOnce
<1>1. ActivityInv => CountedOnce
  BY DEF ActivityInv, Counted
<1> QED
  BY <1>1, ActivityInvariant, PTL

-----------------------------------------------------------------------------
(***************************************************************************)
(* MCEngineWork follows one of the four modules, and so keeps what each of *)
(* them keeps.                                                             *)
(***************************************************************************)
WorkInv ==
    /\ part = "activity" => ActivityInv
    /\ part = "farm" => FarmInv
    /\ part = "social" => SocialInv
    /\ part = "tables" => TablesInv

\* The module that a behaviour of MCEngineWork follows keeps its types.
THEOREM WorkTypeCorrect == MCSpec => []WorkTypeOK
<1>1. MCInit => WorkInv
  BY InitActivity, InitFarm, InitSocial, InitTables DEF MCInit, WorkInv
<1>2. WorkInv /\ [MCNext]_<<part, activityVars, farmVars, socialVars, tableVars>> => WorkInv'
  BY StepActivity, StepFarm, StepSocial, StepTables DEF MCNext, WorkInv
<1>3. WorkInv => WorkTypeOK
  BY ActivityTypes DEF WorkInv, WorkTypeOK, FarmInv, SocialInv, TablesInv
<1> QED
  BY <1>1, <1>2, <1>3, PTL DEF MCSpec

\* A behaviour of MCEngineWork is a behaviour of each of the four modules, so that
\* what is proved of them holds of all that engine_work checks.
THEOREM WorkIsEachPart == MCSpec => ActivitySpec /\ FarmSpec /\ SocialSpec /\ TablesSpec
<1>1. MCInit => ActivityInit /\ FarmInit /\ SocialInit /\ TablesInit
  BY DEF MCInit, ActivityRests, FarmRests, TablesRest
<1>2. [MCNext]_<<part, activityVars, farmVars, socialVars, tableVars>> =>
         /\ [ActivityNext]_activityVars /\ [FarmNext]_farmVars
         /\ [SocialNext]_socialVars /\ [TablesNext]_tableVars
  BY DEF MCNext
<1> QED
  BY <1>1, <1>2, PTL DEF MCSpec, ActivitySpec, FarmSpec, SocialSpec, TablesSpec

\* The limits of the day, the counts and the tables hold together, in the instance
\* that engine_work checks and in every larger one.
THEOREM WorkCorrect ==
    MCSpec => /\ []WithinLimit /\ []CountedOnce
              /\ []CareWithinLimit /\ []CountsWereDone /\ []NoVainPlanting
              /\ []QuotasNearlyKept
              /\ []NeverOversold /\ []NeverOverdrawn /\ NeverBack
BY WorkIsEachPart, LimitCorrect, CountedCorrect, CareCorrect, CountsCorrect, PlantingCorrect,
   QuotasCorrect, OversoldCorrect, OverdrawnCorrect, NeverBackCorrect, PTL
=============================================================================
