------------------------------ MODULE Activities ------------------------------
(***************************************************************************)
(* The activities that spend items or a daily allowance: the two ways of   *)
(* giving flowers, the gang boss, the tower, the chests and the            *)
(* advertisements, with the warehouse they draw on (ItemSupply) and the    *)
(* cached bag that refills it (Inventory).                                 *)
(*                                                                         *)
(* Each reads what the game says and then acts on that reading, request by *)
(* request.  Several coroutines of an engine run the same activity: the    *)
(* main cycle, a loop of its own, the cycle after a start, the routes.     *)
(* Activities share nothing but the form of their supply, so a behaviour   *)
(* follows one of them.                                                    *)
(***************************************************************************)
EXTENDS Naturals, FiniteSetsExt

CONSTANTS
    Runner,  \* coroutines that may run the activity at once: a bound
    Limit,   \* how often it is done in a day: ten flowers, dailyGiftLimit,
             \* dailyChallengeLimit, the chests of a budget
    Full,    \* the intimacy at which flowers end, in flowers
    Items    \* items in the bag, in the warehouse, and free attempts: a bound

ASSUME ActivityAssumption ==
    Limit \in Nat \ {0} /\ Full \in Nat \ {0} /\ Items \in Nat \ {0}

VARIABLES
    errand,   \* the activity
    enabled,  \* its supply is switched on in the configuration
    game,     \* what the game holds: items in warehouse and bag, free attempts,
              \* attempts made, victories of them that the gang boss gave
              \* contributions for, intimacy, whether an advertisement is due
    listed,   \* Inventory._cache: the items of the kind, Unlisted without it
    cooling,  \* ItemSupply failed less than a second ago
    at,       \* at[r]: where runner r is, or returns to from the supply
    call,     \* call[r]: where it is in ItemSupply.ensure()
    mine,     \* mine[r]: its local variables
    fights,   \* today_fights of the gang boss, as of the last status
    tally,    \* what the engine keeps: _flowers_sent, the today_count of an
              \* advertisement, the challenge_books of the gang boss
    overlap,  \* two runners have been under way at the same time
    misled    \* an answer of the game has been lost

activityVars == <<errand, enabled, game, listed, cooling, at, call, mine, fights, tally,
                  overlap, misled>>

Errand   == {"flowers", "gift", "gang", "tower", "chest", "ad"}
Flowers  == {"flowers", "gift"}
Unlisted == 2 * Items + 1
MostUsed == Limit * (1 + Cardinality(Runner)) + 3 * Items

\* left: attempts left by the reading; free: free ones left; done: attempts of
\* this run; hand: items it believes in the warehouse; warm: intimacy; bag and
\* fought: the items of the bag and today_fights in the answer it waits for.
NoLocals ==
    [left |-> 0, free |-> 0, done |-> 0, hand |-> 0, warm |-> 0, bag |-> 0, fought |-> 0]

ActivityTypeOK ==
    /\ errand \in Errand /\ enabled \in BOOLEAN
    /\ game \in [stock: 0..(2 * Items), bag: 0..Items, free: 0..Items, used: Nat,
                 won: Nat, warm: Nat, due: BOOLEAN]
    /\ listed \in 0..Items \cup {Unlisted} /\ cooling \in BOOLEAN
    /\ at \in [Runner -> {"idle", "free", "fight", "send", "resend", "look", "open",
                          "again", "claim", "sync"}]
    /\ call \in [Runner -> {"none", "ensure", "list", "use"}]
    /\ \A r \in Runner :
          /\ mine[r] \in [left: 0..(Limit + Items), free: 0..Items, done: 0..Limit,
                          hand: 0..(2 * Items), warm: Nat, bag: 0..Items, fought: Nat]
          /\ at[r] = "idle" => call[r] = "none" /\ mine[r] = NoLocals
    /\ fights \in Nat /\ tally \in Nat /\ overlap \in BOOLEAN /\ misled \in BOOLEAN

\* Attempts are counted from those of the day so far, which is a bound.
ActivityInit ==
    /\ errand \in Errand /\ enabled \in BOOLEAN
    /\ game \in [stock: 0..Items, bag: 0..Items, free: 0..Items, used: 0..Limit,
                 won: 0..Limit, warm: 0..Full, due: BOOLEAN]
    /\ game.won <= IF errand = "gang" THEN game.used ELSE 0
    /\ errand \notin {"gang", "tower"} => game.free = 0
    /\ errand \notin Flowers => game.warm = 0
    /\ errand \in {"chest", "ad"} => game.stock = 0 /\ game.bag = 0 /\ enabled
    /\ game.due => errand = "ad" /\ game.used < Limit
    /\ errand = "tower" => game.used = 0
    /\ listed = Unlisted /\ cooling = FALSE
    /\ at = [r \in Runner |-> "idle"] /\ call = [r \in Runner |-> "none"]
    /\ mine = [r \in Runner |-> NoLocals]
    /\ fights = 0 /\ tally = IF errand = "gang" THEN game.stock ELSE game.used
    /\ overlap = FALSE /\ misled = FALSE

-----------------------------------------------------------------------------
(* Requests and runs. *)

Less(n) == IF n > 0 THEN n - 1 ELSE 0

\* Mutant of LeftOf: off by one.
OneMoreLeftOf(n) == IF n < Limit THEN Limit - n + 1 ELSE 0

LeftOf(n) == IF n < Limit THEN Limit - n ELSE 0

\* A request is performed and answered, performed and its answer lost, or not
\* performed; the coroutine cannot tell the last two apart.
Asked(possible, after, ok, failed) ==
    \/ possible /\ game' = after /\ ok /\ UNCHANGED misled
    \/ possible /\ game' = after /\ failed /\ misled' = TRUE
    \/ failed /\ UNCHANGED <<game, misled>>

Goes(r, to, calls, local) ==
    /\ at' = [at EXCEPT ![r] = to]
    /\ call' = [call EXCEPT ![r] = calls]
    /\ mine' = [mine EXCEPT ![r] = local]

\* Mutant of Stops: the next run begins with the locals of this one.
StopsWith(r) == Goes(r, "idle", "none", mine[r])

Stops(r) == Goes(r, "idle", "none", NoLocals)

Settings == UNCHANGED <<errand, enabled, fights, overlap>>
Bag == UNCHANGED <<listed, cooling>>

\* Every run begins with a status of the game, read by one request.
Begins(r, which) ==
    /\ errand = which /\ at[r] = "idle" /\ game.used < MostUsed
    /\ overlap' = (overlap \/ \E s \in Runner \ {r} : at[s] # "idle")
    /\ UNCHANGED <<errand, enabled, game>> /\ Bag

\* stop() cancels a coroutine at whatever it waits for.
Cancelled(r) ==
    /\ at[r] # "idle" /\ Stops(r)
    /\ Settings /\ Bag /\ UNCHANGED <<game, tally, misled>>

-----------------------------------------------------------------------------
(* ItemSupply.ensure() and Inventory.use_by_name() *)

\* What the caller makes of the result: the gang boss stops without a book, the
\* tower asks for its status anyway, flowers are sent anyway.
Supplied(r, ok) ==
    IF errand = "gang" /\ ~ok THEN Stops(r) ELSE Goes(r, at[r], "none", mine[r])

Believed(r) == IF errand = "gang" THEN tally ELSE mine[r].hand

\* An item in the warehouse will do; a list younger than five minutes is used.
Ensure(r) ==
    /\ call[r] = "ensure"
    /\ \/ Believed(r) > 0 /\ Supplied(r, TRUE) /\ UNCHANGED cooling
       \/ Believed(r) = 0 /\ (cooling \/ ~enabled) /\ Supplied(r, FALSE) /\ UNCHANGED cooling
       \/ /\ Believed(r) = 0 /\ ~cooling /\ enabled
          /\ \/ Goes(r, at[r], "list", [mine[r] EXCEPT !.bag = game.bag]) /\ UNCHANGED cooling
             \/ /\ listed \in 1..Items
                /\ Goes(r, at[r], "use", mine[r]) /\ UNCHANGED cooling
             \/ listed = 0 /\ Supplied(r, FALSE) /\ cooling' = TRUE
    /\ Settings /\ UNCHANGED <<game, listed, tally, misled>>

\* get_inventory(): when the request fails, whatever list there is.
Listed(r) ==
    /\ call[r] = "list"
    /\ listed' \in {mine[r].bag, listed}
    /\ IF listed' \in 1..Items
       THEN Goes(r, at[r], "use", [mine[r] EXCEPT !.bag = 0]) /\ UNCHANGED cooling
       ELSE Supplied(r, FALSE) /\ cooling' = TRUE
    /\ Settings /\ UNCHANGED <<game, tally, misled>>

UseItem(r) ==
    /\ call[r] = "use"
    /\ Asked(game.bag > 0,
               [game EXCEPT !.bag = @ - 1, !.stock = @ + 1],
               Supplied(r, TRUE) /\ listed' = Unlisted /\ UNCHANGED cooling,
               Supplied(r, FALSE) /\ cooling' = TRUE /\ UNCHANGED listed)
    /\ Settings /\ UNCHANGED tally

CoolsDown ==
    /\ cooling /\ cooling' = FALSE
    /\ Settings /\ UNCHANGED <<game, listed, at, call, mine, tally, misled>>

-----------------------------------------------------------------------------
(* MarriageFlowers and MarriageGift *)

\* Mutant of OfTheRun: what was sent before the run counts again.
OfTheDay(m) == Limit - m.left

\* What a run adds to _flowers_sent.
OfTheRun(m) == m.done

\* The head of the loop: the run goes on, or ends and its flowers are counted.
SendsOn(r, m) ==
    IF m.left > 0 /\ m.warm < Full
    THEN Goes(r, "send", "none", m) /\ UNCHANGED tally
    ELSE Stops(r) /\ tally' = tally + OfTheRun(m)

Reading == [NoLocals EXCEPT !.left = LeftOf(game.used), !.warm = game.warm]

\* _flower_loop() and _run_marriage(): without an answer nothing has been sent
\* yet, and there is no intimacy.
BeginFlowers(r) ==
    /\ Begins(r, "flowers") /\ UNCHANGED <<fights, tally>>
    /\ \/ Goes(r, "send", "ensure", Reading) /\ UNCHANGED misled
       \/ Goes(r, "send", "ensure", [NoLocals EXCEPT !.left = Limit]) /\ misled' = TRUE

BeginGift(r) ==
    /\ Begins(r, "gift") /\ UNCHANGED <<fights, misled>>
    /\ SendsOn(r, Reading) \/ (Stops(r) /\ UNCHANGED tally)

\* A failure is taken for a lack of flowers, once.
Send(r) ==
    /\ at[r] \in {"send", "resend"} /\ call[r] = "none"
    /\ LET m == mine[r]
           goes == m.left > 0 /\ m.warm < Full
           next == [m EXCEPT !.left = Less(@), !.done = @ + 1, !.warm = @ + 1]
       IN  IF goes
           THEN Asked(game.stock > 0,
                        [game EXCEPT !.stock = @ - 1, !.used = @ + 1, !.warm = @ + 1],
                        SendsOn(r, next),
                        IF at[r] = "send"
                        THEN Goes(r, "resend", "ensure", m) /\ UNCHANGED tally
                        ELSE Stops(r) /\ tally' = tally + OfTheRun(m))
           ELSE SendsOn(r, m) /\ UNCHANGED <<game, misled>>
    /\ Settings /\ Bag

-----------------------------------------------------------------------------
(* GangBoss and Tower *)

\* Ten contributions for every victory, none for a defeat: a tenth of them is
\* taken for the number of fights.
TodayFights == (10 * game.won) \div 10

Books(r, m) == IF m.left > 0 THEN Goes(r, "fight", "ensure", m) ELSE Stops(r)

\* Books are left for the highest boss when all free challenges were tried: as
\* many as today_fights, which is n by then, leaves of the daily limit.
FightsOn(r, m, n) ==
    IF m.free > 0 THEN Goes(r, "free", "none", m)
    ELSE Books(r, [m EXCEPT !.left = LeftOf(n)])

\* With no boss unlocked the run ends after the reading.
BeginGang(r) ==
    /\ Begins(r, "gang") /\ UNCHANGED misled
    /\ \/ /\ tally' = game.stock /\ fights' = TodayFights
          /\ FightsOn(r, [NoLocals EXCEPT !.free = game.free], TodayFights) \/ Stops(r)
       \/ Stops(r) /\ UNCHANGED <<fights, tally>>

\* A fight is won, w = 1, or lost.
FreeFought(w) == [game EXCEPT !.free = @ - 1, !.used = @ + 1, !.won = @ + w]
PaidFought(w) == [game EXCEPT !.stock = @ - 1, !.used = @ + 1, !.won = @ + w]

\* A free challenge that fails is not tried again in this run.
FreeChallenge(r) ==
    /\ errand = "gang" /\ at[r] = "free"
    /\ LET on == FightsOn(r, [mine[r] EXCEPT !.free = @ - 1], fights)
       IN  \E w \in {0, 1} : Asked(game.free > 0, FreeFought(w), on, on)
    /\ Settings /\ Bag /\ UNCHANGED tally

BookChallenge(r) ==
    /\ errand = "gang" /\ at[r] = "fight" /\ call[r] = "none"
    /\ \E w \in {0, 1} :
         Asked(game.stock > 0, PaidFought(w),
               Books(r, [mine[r] EXCEPT !.left = @ - 1]) /\ tally' = Less(tally),
               Stops(r) /\ UNCHANGED tally)
    /\ Settings /\ Bag

\* The route sync-daily reads the status of the gang boss, too, and puts what it
\* has read into the attributes, whatever a run has done meanwhile.
BeginSync(r) ==
    /\ Begins(r, "gang") /\ UNCHANGED <<fights, tally, misled>>
    /\ Goes(r, "sync", "none", [NoLocals EXCEPT !.fought = TodayFights, !.hand = game.stock])

SyncBooks(r) ==
    /\ at[r] = "sync" /\ Stops(r)
    /\ \/ fights' = mine[r].fought /\ tally' = mine[r].hand
       \/ UNCHANGED <<fights, tally>>
    /\ Bag /\ UNCHANGED <<errand, enabled, game, overlap, misled>>

\* Pills only if no free attempt is left by the count, and tower_use_revive.
ClimbsOn(r, m) ==
    IF m.free > 0 THEN Goes(r, "free", "none", m)
    ELSE Goes(r, "look", "ensure", m) \/ Stops(r)

BeginTower(r) ==
    /\ Begins(r, "tower") /\ UNCHANGED <<fights, tally, misled>>
    /\ \/ ClimbsOn(r, [NoLocals EXCEPT !.free = game.free, !.hand = game.stock])
       \/ Stops(r)

FreeFloor(r) ==
    /\ errand = "tower" /\ at[r] = "free"
    /\ Asked(game.free > 0, FreeFought(0),
               ClimbsOn(r, [mine[r] EXCEPT !.free = @ - 1]), Stops(r))
    /\ Settings /\ Bag /\ UNCHANGED tally

\* The status is asked for before every floor; without an answer there are no
\* pills.
LookForPill(r) ==
    /\ at[r] = "look" /\ call[r] = "none"
    /\ \/ game.stock > 0 /\ Goes(r, "fight", "none", [mine[r] EXCEPT !.hand = game.stock])
       \/ Stops(r)
    /\ Settings /\ Bag /\ UNCHANGED <<game, tally, misled>>

PillFloor(r) ==
    /\ errand = "tower" /\ at[r] = "fight"
    /\ Asked(game.stock > 0 /\ game.used < MostUsed, PaidFought(0),
               Goes(r, "look", "ensure", [mine[r] EXCEPT !.hand = @ - 1]), Stops(r))
    /\ Settings /\ Bag /\ UNCHANGED tally

-----------------------------------------------------------------------------
(* Chest and the three advertisements *)

\* The next chest costs more than the budget once Limit of them are open.
OpensOn(r) == IF game.used < Limit THEN Goes(r, "open", "none", NoLocals) ELSE Stops(r)

BeginChest(r) ==
    /\ Begins(r, "chest") /\ UNCHANGED <<fights, tally, misled>>
    /\ OpensOn(r) \/ Stops(r)

OpenChest(r) ==
    /\ at[r] = "open"
    /\ Asked(TRUE, [game EXCEPT !.used = @ + 1], Goes(r, "again", "none", NoLocals), Stops(r))
    /\ Settings /\ Bag /\ UNCHANGED tally

ReadCost(r) ==
    /\ at[r] = "again"
    /\ OpensOn(r) \/ Stops(r)
    /\ Settings /\ Bag /\ UNCHANGED <<game, tally, misled>>

\* The count of the status is taken over; a claim sets it to one more.
BeginAd(r) ==
    /\ Begins(r, "ad") /\ UNCHANGED <<fights, misled>>
    /\ \/ /\ tally' = game.used
          /\ IF game.due
             THEN Goes(r, "claim", "none", [NoLocals EXCEPT !.done = game.used])
             ELSE Stops(r)
       \/ Stops(r) /\ UNCHANGED tally

ClaimAd(r) ==
    /\ at[r] = "claim"
    /\ Asked(game.due, [game EXCEPT !.due = FALSE, !.used = @ + 1],
               Stops(r) /\ tally' = mine[r].done + 1,
               Stops(r) /\ UNCHANGED tally)
    /\ Settings /\ Bag

\* Half an hour after the last one the game offers another.
AdDue ==
    /\ errand = "ad" /\ ~game.due /\ game.used < Limit
    /\ game' = [game EXCEPT !.due = TRUE]
    /\ Settings /\ Bag /\ UNCHANGED <<at, call, mine, tally, misled>>

ActivityNext ==
    \/ \E r \in Runner :
          \/ BeginFlowers(r) \/ BeginGift(r) \/ Send(r)
          \/ BeginGang(r) \/ FreeChallenge(r) \/ BookChallenge(r)
          \/ BeginSync(r) \/ SyncBooks(r)
          \/ BeginTower(r) \/ FreeFloor(r) \/ LookForPill(r) \/ PillFloor(r)
          \/ BeginChest(r) \/ OpenChest(r) \/ ReadCost(r)
          \/ BeginAd(r) \/ ClaimAd(r)
          \/ Ensure(r) \/ Listed(r) \/ UseItem(r) \/ Cancelled(r)
    \/ AdDue \/ CoolsDown

ActivitySpec == ActivityInit /\ [][ActivityNext]_activityVars

-----------------------------------------------------------------------------
(* Properties *)

\* What runs under way have sent, the i-th flower of r as <<r, i>>.
Uncounted == UNION {{r} \X (1..mine[r].done) : r \in Runner}

\* The daily limit is kept whatever fails or is cancelled, by one run at a
\* time.  Flowers need true answers, too: a lost reading counts as nothing
\* sent, a lost confirmation as a lack of flowers.  The gang boss counts
\* victories only, and exceeds the limit even with them by the free challenges,
\* which its reading does not have yet; how often it fights and is defeated is
\* bounded by nothing but the books.
WithinLimit ==
    ~overlap /\ (errand \in Flowers => ~misled) /\ errand # "tower" =>
        IF errand = "gang" THEN game.won <= Limit + Items ELSE game.used <= Limit

\* The engine never counts a flower or an advertisement twice, or one the game
\* refused, with any overlap, loss or cancellation.
CountedOnce ==
    /\ errand = "ad" => tally <= game.used
    /\ errand \in Flowers => tally + Cardinality(Uncounted) <= game.used
==============================================================================
