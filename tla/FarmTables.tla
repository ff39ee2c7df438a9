------------------------------ MODULE FarmTables ------------------------------
(***************************************************************************)
(* What the database believes of an account's farm: the row of one item in *)
(* player_museum, one crop in player_collection's, the row in farm_land.   *)
(*                                                                         *)
(* FarmSync writes them from a status read long before: a farm cycle reads *)
(* it, digs, harvests and upgrades the land, and writes it at its end.     *)
(* The calibration writes what the game lists as tradable, and the museum  *)
(* trade scheduler moves fragments of a trade by arithmetic of its own.    *)
(*                                                                         *)
(* The module follows one account, which may give fragments of the item in *)
(* a trade and get some in another, of the scheduler or of its player; how *)
(* trades come about is the subject of MuseumTrade.  Tables do not mix: a  *)
(* behaviour follows one of them.                                          *)
(***************************************************************************)
EXTENDS Integers, FiniteSetsExt

CONSTANTS
    Clerk,    \* coroutines of cycles and routes that write the tables: a bound
    Needed,   \* fragments that repair the item
    MaxHave,  \* fragments, crops or levels the game gives: a bound
    Missing   \* no row

ASSUME TablesAssumption ==
    /\ Needed \in Nat \ {0} /\ MaxHave \in Nat
    /\ Missing \notin [count: Nat, trade: Int, repaired: BOOLEAN]

VARIABLES
    table,  \* the table
    have,   \* what the game has: fragments, collected crops, the level
    row,    \* the row; of the collection and the land only the count matters
    desk,   \* desk[k]: what clerk k is at, what it has read, and whether the
            \* row has been written by another since
    deal,   \* deal[d]: the trade in which the item is given or got
    marks   \* why the row may be wrong, until it is synchronised

tableVars == <<table, have, row, desk, deal, marks>>

Surplus(n) == IF n >= Needed THEN n - Needed ELSE 0

\* What _sync_museum() makes of a fragment count.
Recorded(n) == [count |-> n, trade |-> Surplus(n), repaired |-> n >= Needed]

IdleDesk == [stage |-> "idle", seen |-> 0, old |-> FALSE]
NoDeal   == [stage |-> "none", qty |-> 0, mixed |-> FALSE]

TablesTypeOK ==
    /\ table \in {"museum", "collection", "land"}
    /\ have \in 0..MaxHave
    /\ row \in [count: Nat, trade: Int, repaired: BOOLEAN] \cup {Missing}
    /\ desk \in [Clerk -> [stage: {"idle", "farm", "sync", "calibrate"},
                           seen: 0..MaxHave, old: BOOLEAN]]
    /\ \A k \in Clerk : desk[k].stage = "idle" => desk[k] = IdleDesk
    /\ deal \in [{"give", "get"} -> [stage: {"none", "offered", "checked", "performed"},
                                     qty: 0..MaxHave, mixed: BOOLEAN]]
    /\ marks \subseteq {"given", "stale", "mixed", "stacked", "unheard", "byhand"}

TablesInit ==
    /\ table \in {"museum", "collection", "land"}
    /\ have \in 0..MaxHave
    /\ row \in {Missing, Recorded(have)}
    /\ desk = [k \in Clerk |-> IdleDesk] /\ deal = [d \in {"give", "get"} |-> NoDeal]
    /\ marks = {}

-----------------------------------------------------------------------------
(* Cycles, the route sync-farm and the calibration. *)

OnlyDesk == UNCHANGED <<table, have, row, deal, marks>>

ReadFarm(k) ==
    /\ desk[k].stage = "idle"
    /\ desk' = [desk EXCEPT ![k] = [stage |-> "farm", seen |-> have, old |-> FALSE]]
    /\ OnlyDesk

\* FarmDig.run(), dig_friend(), and a harvest of a crop not yet collected.
Gain ==
    /\ table # "land" /\ have < MaxHave /\ have' = have + 1
    /\ UNCHANGED <<table, row, desk, deal, marks>>

\* FarmLand.run(): if the status says so; heard or not, the game decides.
UpgradeLand(k) ==
    /\ desk[k].stage = "farm" /\ table = "land" /\ have < MaxHave
    /\ have' \in {have, have + 1}
    /\ desk' = [desk EXCEPT ![k].stage = "sync"]
    /\ UNCHANGED <<table, row, deal, marks>>

\* The row is written: readings that others hold are older than it, and so is
\* the check of a trade under way, which may be in the row already.
Written(k) ==
    /\ desk' = [c \in Clerk |->
                  IF c = k THEN IdleDesk
                  ELSE [desk[c] EXCEPT !.old = desk[c].stage # "idle"]]
    /\ deal' = [d \in DOMAIN deal |->
                  [deal[d] EXCEPT !.mixed = @ \/ deal[d].stage \in {"checked", "performed"}]]

NothingWritten(k) == desk' = [desk EXCEPT ![k] = IdleDesk] /\ UNCHANGED <<row, deal, marks>>

\* Mutant of Synchronised: collected crops are replaced as well.
Replaced(n) == Recorded(n)

\* The status replaces the row of the museum and of the land.  A crop once
\* collected stays so.
Synchronised(n) ==
    IF table = "collection" /\ row # Missing /\ row.count > n THEN row ELSE Recorded(n)

\* sync_all(): any of the three transactions may fail, and ends it.  Museum and
\* collection are not written if the status has none.
SyncTable(k) ==
    /\ desk[k].stage \in {"farm", "sync"}
    /\ \/ /\ table # "land" => desk[k].seen > 0
          /\ row' = Synchronised(desk[k].seen) /\ Written(k)
          /\ marks' = IF desk[k].seen > have THEN {"stale"} ELSE {}
       \/ NothingWritten(k)
    /\ UNCHANGED <<table, have>>

ReadTradable(k) ==
    /\ desk[k].stage = "idle" /\ table = "museum"
    /\ desk' = [desk EXCEPT ![k] = [stage |-> "calibrate", seen |-> Surplus(have), old |-> FALSE]]
    /\ OnlyDesk

\* sync_tradeable_from_api(): one column, of a row there is.
Calibrate(k) ==
    /\ desk[k].stage = "calibrate"
    /\ \/ /\ row # Missing /\ row' = [row EXCEPT !.trade = desk[k].seen] /\ Written(k)
          /\ marks' = IF desk[k].seen > Surplus(have) THEN marks \cup {"stale"} ELSE marks
       \/ NothingWritten(k)
    /\ UNCHANGED <<table, have>>

-----------------------------------------------------------------------------
(* Trades, in the coroutine of the scheduler. *)

OnlyDeal == UNCHANGED <<table, have, row, desk, marks>>

\* _match_and_create(): of what the rows say the account has too many, or
\* lacks; the other account's row, and so the quantity, is arbitrary.
Offer(d) ==
    /\ table = "museum" /\ deal[d].stage = "none" /\ row # Missing
    /\ d = "get" => ~row.repaired /\ row.count < Needed
    /\ \E n \in 1..(IF d = "give" THEN row.trade ELSE MaxHave) :
         n <= MaxHave /\ deal' = [deal EXCEPT ![d] = [NoDeal EXCEPT !.stage = "offered", !.qty = n]]
    /\ OnlyDeal

\* Mutant of Enough: any row will do.
EnoughOffered(d) == d = "get" \/ row # Missing

\* _check_tradeable_sufficient(): a trade with too few is rejected, or another
\* row of the trade rejects it.  One trade at a time is accepted.
Enough(d) == d = "get" \/ (row # Missing /\ row.trade >= deal[d].qty)

CheckTrade(d) ==
    /\ deal[d].stage = "offered"
    /\ \A e \in DOMAIN deal : deal[e].stage \in {"none", "offered"}
    /\ deal' = [deal EXCEPT ![d] = IF Enough(d) THEN [@ EXCEPT !.stage = "checked"] ELSE NoDeal]
    /\ OnlyDeal

\* The partner's row did not suffice, or the offer was withdrawn in the game.
Reject(d) ==
    /\ deal[d].stage \in {"offered", "checked"}
    /\ deal' = [deal EXCEPT ![d] = NoDeal] /\ OnlyDeal

Traded(d) == IF d = "give" THEN have - deal[d].qty ELSE have + deal[d].qty

\* The game performs the trade if the giver has enough to spare.  Without an
\* answer the trade stays pending, and is rejected as finished the next time.
PerformTrade(d) ==
    /\ deal[d].stage = "checked"
    /\ d = "give" => Surplus(have) >= deal[d].qty
    /\ Traded(d) \in 0..MaxHave /\ have' = Traded(d)
    /\ \/ deal' = [deal EXCEPT ![d].stage = "performed"] /\ UNCHANGED marks
       \/ deal' = [deal EXCEPT ![d] = NoDeal] /\ marks' = marks \cup {"unheard"}
    /\ UNCHANGED <<table, row, desk>>

\* A player accepts in the game, or a partner accepts what the player offered:
\* a trade of the scheduler's, which it can then no longer accept, or another.
\* sync_museum_trades() puts "accepted" into museum_trade, and _apply_trade()
\* is never called: what was given stays in the row until the next status.
AcceptByHand(d) ==
    /\ table = "museum"
    /\ \E n \in 1..MaxHave :
          /\ \/ UNCHANGED deal
             \/ /\ deal[d].stage \in {"offered", "checked"} /\ deal[d].qty = n
                /\ deal' = [deal EXCEPT ![d] = NoDeal]
          /\ \/ /\ d = "give" /\ Surplus(have) >= n /\ have' = have - n
                /\ marks' = marks \cup {"byhand"}
             \/ d = "get" /\ have + n <= MaxHave /\ have' = have + n /\ UNCHANGED marks
    /\ UNCHANGED <<table, row, desk>>

\* The giver's fragment_count is left alone; the receiver's decides what it
\* may trade once the item is repaired.
Received(r, n) ==
    IF r.count + n >= Needed THEN Recorded(r.count + n)
    ELSE [r EXCEPT !.count = @ + n]

\* Mutant of Moved: only the receiver's row is written.
Got(d, r, n) == IF d = "give" THEN r ELSE Received(r, n)

Moved(d, r, n) == IF d = "give" THEN [r EXCEPT !.trade = @ - n] ELSE Received(r, n)

\* _apply_trade(), in one transaction.
ApplyTrade(d) ==
    /\ deal[d].stage = "performed"
    /\ \/ /\ row' = IF row = Missing THEN row ELSE Moved(d, row, deal[d].qty)
          /\ desk' = [c \in Clerk |-> [desk[c] EXCEPT !.old = desk[c].stage # "idle"]]
          /\ marks' = marks \cup (IF deal[d].mixed THEN {"mixed"} ELSE {})
                            \cup (IF d = "give" THEN {"given"}
                                  ELSE IF "given" \in marks THEN {"stacked"} ELSE {})
       \/ UNCHANGED <<row, desk>> /\ marks' = marks \cup {"unheard"}
    /\ deal' = [deal EXCEPT ![d] = NoDeal]
    /\ UNCHANGED <<table, have>>

\* The process ends; offers are in the database and in the game.
LoseProcess ==
    /\ \E k \in Clerk : desk[k].stage # "idle"
    /\ desk' = [k \in Clerk |-> IdleDesk]
    /\ deal' = [d \in DOMAIN deal |-> IF deal[d].stage = "performed" THEN NoDeal
                                      ELSE IF deal[d].stage = "checked"
                                      THEN [deal[d] EXCEPT !.stage = "offered", !.mixed = FALSE]
                                      ELSE deal[d]]
    /\ marks' = IF \E d \in DOMAIN deal : deal[d].stage = "performed"
                THEN marks \cup {"unheard"} ELSE marks
    /\ UNCHANGED <<table, have, row>>

TablesNext ==
    \/ Gain \/ LoseProcess
    \/ \E k \in Clerk :
          \/ ReadFarm(k) \/ UpgradeLand(k) \/ SyncTable(k) \/ ReadTradable(k) \/ Calibrate(k)
    \/ \E d \in {"give", "get"} :
          \/ Offer(d) \/ CheckTrade(d) \/ Reject(d)
          \/ PerformTrade(d) \/ AcceptByHand(d) \/ ApplyTrade(d)

TablesSpec == TablesInit /\ [][TablesNext]_tableVars

-----------------------------------------------------------------------------
(* Properties *)

\* The row never offers fragments the game would not let go, whatever cycles,
\* calibrations and trades interleave, except: after a trade that was unheard
\* or was carried out by hand, which lower the game's fragments and not the row;
\* a status or list that a trade overtook; a row written during a trade; and one
\* got while one given was not yet synchronised.  One status written in time
\* heals all of them.  Trades of the scheduler's that it hears of are covered.
NeverOversold ==
    table = "museum" /\ row # Missing /\ marks \subseteq {"given"}
    /\ deal["give"].stage # "performed" => row.trade <= Surplus(have)

\* tradeable_fragments is lowered without looking, seconds after the check; it
\* is negative only if the row has been written in between.
NeverOverdrawn ==
    row # Missing /\ marks \cap {"mixed"} = {} => row.trade >= 0

\* A repaired item and a land level stay so in the database, unless the clerk
\* that writes does it with a reading older than the row; a collected crop stays
\* even then.
NeverBack ==
    [][row # Missing /\ marks = {} =>
          \/ /\ row' # Missing
             /\ row.repaired => row'.repaired
             /\ table # "museum" => row'.count >= row.count
          \/ /\ table # "collection"
             /\ \E k \in Clerk :
                   /\ desk[k].old /\ desk[k].stage \in {"farm", "sync"}
                   /\ desk'[k] = IdleDesk /\ row' = Recorded(desk[k].seen)]_tableVars
=============================================================================
