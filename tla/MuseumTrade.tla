----------------------------- MODULE MuseumTrade -----------------------------
(***************************************************************************)
(* The museum trades of app/services/farm/museum_trade_scheduler.py: the   *)
(* scheduler that accepts and creates trades for the running accounts, the *)
(* synchronisation of the table museum_trade with the trades the game      *)
(* lists, and the column daily_records.museum_trades that allows an        *)
(* account one trade a day.                                                *)
(*                                                                         *)
(* The scheduler is one coroutine; further synchronisations run beside it  *)
(* (a starting engine, POST /accounts/{a}/sync-museum-trades).  An action  *)
(* is the code between two awaits, a database transaction or an API call.  *)
(* Items and quantities are left out: whether two accounts match, and      *)
(* whether both still have the fragments, is open.                         *)
(***************************************************************************)
EXTENDS Naturals, FiniteSets

CONSTANTS
    Account,  \* managed accounts
    Stranger, \* the players without an account here ("uid_...")
    Trade,    \* trades of the game, each with its id, from, to and own
    Row,      \* primary keys of museum_trade: bounds its size
    Syncer,   \* slots for synchronisations beside the scheduler's own
    Cycle,    \* the slot of the scheduler's
    None,
    Faults    \* which hostile events the environment may produce

FaultKinds ==
    { "overlap",  \* a synchronisation beside a scheduler cycle or another one
      "save",     \* a transaction fails, the exception ends the operation
      "lost",     \* the game does what it is asked, but the answer is lost
      "midnight", \* the date changes during a cycle
      "crash" }   \* the process dies and is started again

Party == Account \cup {Stranger}
Slot  == Syncer \cup {Cycle}

\* own: the note has the form MT-..., so this program created the trade.
ASSUME TradeAssumption ==
    Trade \subseteq [id : Nat, from : Party, to : Party, own : BOOLEAN]
ASSUME OwnAssumption == \A t \in Trade : t.own => {t.from, t.to} \subseteq Account
ASSUME NoneAssumption ==
    Stranger \notin Account /\ None \notin Trade \cup Row \cup Account /\ Cycle \notin Syncer
ASSUME FaultAssumption == Faults \subseteq FaultKinds

VARIABLES
    status,  \* status[t]: the trade in the game
    listed,  \* the trades the game still returns to their parties
    fresh,   \* the trades accepted today
    rtrade,  \* rtrade[r]: game_trade_id of a row, None for a free key
    rstatus, \* rstatus[r]: its status
    traded,  \* parties whose daily record of today says museum_trades = 1
    old,     \* the same for yesterday, which only a late cycle uses
    late,    \* the date changed since the cycle took its "today"
    pc,      \* where the scheduler coroutine is
    todo,    \* accounts the cycle has not visited
    acct,    \* the account it visits
    cur,     \* the row it is accepting
    made,    \* the trade it has created
    tries,   \* calls of the accept API so far
    spc,     \* spc[s]: where a synchronisation is
    sacct,   \* sacct[s]: its account
    snap,    \* snap[s]: what the game listed for it
    upd,     \* upd[s]: the new status it found for each row
    ins,     \* ins[s]: the trades it found no row for
    spent,   \* accounts for which the program has made a trade today, no
             \* fault coming between the game's doing it and its record
    twice    \* accounts for which it has made a further one

game  == <<status, listed, fresh>>
rows  == <<rtrade, rstatus>>
days  == <<traded, old, late>>
sched == <<pc, todo, acct, cur, made, tries>>
syncs == <<spc, sacct, snap, upd, ins>>
tally == <<spent, twice>>
vars  == <<game, rows, days, sched, syncs, tally>>

GameStatus == {"none", "pending", "accepted", "closed"}
RowStatus  == {"pending", "accepted", "rejected"}
SchedPC == { "idle", "next", "sync", "check", "pending", "verify", "accept",
             "reject", "apply", "markFrom", "markTo", "settle", "match",
             "save", "markSelf" }
SyncPC == {"idle", "fetch", "mark", "read", "write"}

TypeOK ==
    /\ status \in [Trade -> GameStatus]
    /\ listed \subseteq Trade /\ fresh \subseteq Trade
    /\ rtrade \in [Row -> Trade \cup {None}]
    /\ rstatus \in [Row -> RowStatus]
    /\ traded \subseteq Party /\ old \subseteq Party /\ late \in BOOLEAN
    /\ pc \in SchedPC
    /\ todo \subseteq Account
    /\ acct \in Account \cup {None}
    /\ cur \in Row \cup {None}
    /\ made \in Trade \cup {None}
    /\ tries \in 0..1
    /\ spc \in [Slot -> SyncPC]
    /\ sacct \in [Slot -> Account \cup {None}]
    /\ snap \in [Slot -> [Trade -> GameStatus]]
    /\ upd \in [Slot -> [Row -> RowStatus \cup {"keep"}]]
    /\ ins \in [Slot -> SUBSET Trade]
    /\ spent \subseteq Account /\ twice \subseteq Account

Nothing == [t \in Trade |-> "none"]
NoUpdate == [r \in Row |-> "keep"]

Init ==
    /\ status = Nothing /\ listed = {} /\ fresh = {}
    /\ rtrade = [r \in Row |-> None]
    /\ rstatus = [r \in Row |-> "rejected"]
    /\ traded = {} /\ old = {} /\ late = FALSE
    /\ pc = "idle" /\ todo = {}
    /\ acct = None /\ cur = None /\ made = None /\ tries = 0
    /\ spc = [s \in Slot |-> "idle"]
    /\ sacct = [s \in Slot |-> None]
    /\ snap = [s \in Slot |-> Nothing]
    /\ upd = [s \in Slot |-> NoUpdate]
    /\ ins = [s \in Slot |-> {}]
    /\ spent = {} /\ twice = {}

-----------------------------------------------------------------------------
(***************************************************************************)
(* The game server and its players                                         *)
(***************************************************************************)

\* A player proposes a trade to another one, one of them being managed.
PlayerOffers(t) ==
    /\ status[t] = "none" /\ ~t.own
    /\ t.from # t.to
    /\ status' = [status EXCEPT ![t] = "pending"]
    /\ listed' = listed \cup {t}
    /\ UNCHANGED <<fresh, rows, days, sched, syncs, tally>>

\* A player accepts by hand.
PlayerAccepts(t) ==
    /\ status[t] = "pending"
    /\ status' = [status EXCEPT ![t] = "accepted"]
    /\ fresh' = fresh \cup {t}
    /\ UNCHANGED <<listed, rows, days, sched, syncs, tally>>

\* It is rejected, cancelled or expires.
Closes(t) ==
    /\ status[t] = "pending"
    /\ status' = [status EXCEPT ![t] = "closed"]
    /\ UNCHANGED <<listed, fresh, rows, days, sched, syncs, tally>>

\* The game stops returning a trade that is over.
Unlists(t) ==
    /\ t \in listed /\ status[t] # "pending"
    /\ listed' = listed \ {t}
    /\ UNCHANGED <<status, fresh, rows, days, sched, syncs, tally>>

\* The date changes; a cycle in flight keeps its "today".  Bound: once a cycle.
NewDay ==
    /\ pc = "idle" \/ ("midnight" \in Faults /\ ~late)
    /\ \A s \in Slot : spc[s] # "mark"
    /\ old' = IF pc = "idle" THEN {} ELSE traded
    /\ late' = (pc # "idle")
    /\ traded' = {} /\ fresh' = {}
    /\ spent' = {} /\ twice' = {}
    /\ UNCHANGED <<status, listed, rows, sched, syncs>>

-----------------------------------------------------------------------------
(***************************************************************************)
(* sync_museum_trades(a)                                                   *)
(***************************************************************************)
Listing(a) == [t \in Trade |-> IF t \in listed /\ a \in {t.from, t.to}
                               THEN status[t] ELSE "none"]

CompletedToday(a) == \E t \in fresh : a \in {t.from, t.to}

\* Mutant of Mapped: the game's word is stored as it is.
MappedRaw(st) == st

\* status_map, for the trades listed.
Mapped(st) == IF st = "closed" THEN "rejected" ELSE st

Busy == pc # "idle" \/ \E s \in Slot : spc[s] # "idle"

\* The locals of a synchronisation that is not running.
ClearSync(s) ==
    /\ sacct' = [sacct EXCEPT ![s] = None]
    /\ snap'  = [snap  EXCEPT ![s] = Nothing]
    /\ upd'   = [upd   EXCEPT ![s] = NoUpdate]
    /\ ins'   = [ins   EXCEPT ![s] = {}]

\* Back to the caller, to p in the scheduler's case.
SyncReturns(s, p) ==
    /\ spc' = [spc EXCEPT ![s] = "idle"]
    /\ ClearSync(s)
    /\ pc' = IF s = Cycle THEN p ELSE pc
    /\ UNCHANGED <<todo, acct, cur, made, tries>>

\* _init_sync() of an engine that starts, or the request of a user.
SyncBegins(s, a) ==
    /\ s \in Syncer /\ spc[s] = "idle"
    /\ "overlap" \in Faults \/ ~Busy
    /\ spc' = [spc EXCEPT ![s] = "fetch"]
    /\ sacct' = [sacct EXCEPT ![s] = a]
    /\ UNCHANGED <<game, rows, days, sched, snap, upd, ins, tally>>

\* get_museum_trades() fails: 0 is returned and the caller goes on.
FetchFails(s) ==
    /\ spc[s] = "fetch"
    /\ SyncReturns(s, "check")
    /\ UNCHANGED <<game, rows, days, tally>>

FetchOk(s) ==
    /\ spc[s] = "fetch"
    /\ snap' = [snap EXCEPT ![s] = Listing(sacct[s])]
    /\ spc' = [spc EXCEPT ![s] = IF CompletedToday(sacct[s]) THEN "mark" ELSE "read"]
    /\ UNCHANGED <<game, rows, days, sched, sacct, upd, ins, tally>>

\* The game says that the account has traded today.
SyncMark(s) ==
    /\ spc[s] = "mark"
    /\ traded' = traded \cup {sacct[s]}
    /\ spc' = [spc EXCEPT ![s] = "read"]
    /\ UNCHANGED <<game, rows, old, late, sched, sacct, snap, upd, ins, tally>>

RowsOf(t) == {r \in Row : rtrade[r] = t}

Listed(s) == {t \in Trade : snap[s][t] # "none"}

\* Pending rows of trades made by hand that the game no longer returns.
Ghost(s, r) ==
    /\ rtrade[r] # None
    /\ rstatus[r] = "pending"
    /\ ~rtrade[r].own
    /\ rtrade[r] \notin Listed(s)
    /\ sacct[s] \in {rtrade[r].from, rtrade[r].to}

\* Nothing listed: returned before the table is read.
SyncEmpty(s) ==
    /\ spc[s] = "read" /\ Listed(s) = {}
    /\ SyncReturns(s, "check")
    /\ UNCHANGED <<game, rows, days, tally>>

\* Mutant of SyncRead: the status of a row that exists is left as it is.
SyncReadKeeps(s) ==
    /\ spc[s] = "read" /\ Listed(s) # {}
    /\ \A t \in Listed(s) : Cardinality(RowsOf(t)) <= 1
    /\ upd' = [upd EXCEPT ![s] =
           [r \in Row |-> IF Ghost(s, r) THEN "rejected" ELSE "keep"]]
    /\ ins' = [ins EXCEPT ![s] = {t \in Listed(s) : RowsOf(t) = {}}]
    /\ spc' = [spc EXCEPT ![s] = "write"]
    /\ UNCHANGED <<game, rows, days, sched, sacct, snap, tally>>

\* Mutant of SyncRead: it does not look for the row of a trade.
SyncReadBlind(s) ==
    /\ spc[s] = "read" /\ Listed(s) # {}
    /\ upd' = [upd EXCEPT ![s] = NoUpdate]
    /\ ins' = [ins EXCEPT ![s] = Listed(s)]
    /\ spc' = [spc EXCEPT ![s] = "write"]
    /\ UNCHANGED <<game, rows, days, sched, sacct, snap, tally>>

\* The SELECTs of the transaction: what it will update and insert.
SyncRead(s) ==
    /\ spc[s] = "read" /\ Listed(s) # {}
    /\ \A t \in Listed(s) : Cardinality(RowsOf(t)) <= 1
    /\ upd' = [upd EXCEPT ![s] = [r \in Row |->
           IF rtrade[r] \in Listed(s) /\ rstatus[r] # Mapped(snap[s][rtrade[r]])
           THEN Mapped(snap[s][rtrade[r]])
           ELSE IF Ghost(s, r) THEN "rejected" ELSE "keep"]]
    /\ ins' = [ins EXCEPT ![s] = {t \in Listed(s) : RowsOf(t) = {}}]
    /\ spc' = [spc EXCEPT ![s] = "write"]
    /\ UNCHANGED <<game, rows, days, sched, sacct, snap, tally>>

\* scalar_one_or_none() raises on a second row of one trade; the scheduler
\* gives the account up for this cycle.
SyncRaises(s) ==
    /\ \/ spc[s] = "read" /\ \E t \in Listed(s) : Cardinality(RowsOf(t)) > 1
       \/ spc[s] \in {"mark", "write"} /\ "save" \in Faults
    /\ SyncReturns(s, "next")
    /\ UNCHANGED <<game, rows, days, tally>>

\* The commit.
SyncWrite(s) ==
    /\ spc[s] = "write"
    /\ \E new \in [ins[s] -> {r \in Row : rtrade[r] = None}] :
          /\ \A t, u \in ins[s] : new[t] = new[u] => t = u
          /\ rtrade' = [r \in Row |->
                 IF \E t \in ins[s] : new[t] = r
                 THEN CHOOSE t \in ins[s] : new[t] = r ELSE rtrade[r]]
          /\ rstatus' = [r \in Row |->
                 IF \E t \in ins[s] : new[t] = r
                 THEN Mapped(snap[s][CHOOSE t \in ins[s] : new[t] = r])
                 ELSE IF upd[s][r] # "keep" THEN upd[s][r] ELSE rstatus[r]]
    /\ SyncReturns(s, "check")
    /\ UNCHANGED <<game, days, tally>>

-----------------------------------------------------------------------------
(***************************************************************************)
(* run_museum_trade_cycle() and _process_account(a)                        *)
(***************************************************************************)

\* The scheduler coroutine goes to p, keeping its locals.
Goto(p) == pc' = p /\ UNCHANGED <<todo, acct, cur, made, tries>>

\* _process_account returns or raises.
Leave ==
    /\ pc' = "next"
    /\ acct' = None /\ cur' = None /\ made' = None /\ tries' = 0
    /\ UNCHANGED todo

\* _set_traded(p, today): the date is the one the cycle began with.
Record(p) ==
    IF late THEN /\ old' = old \cup {p} /\ UNCHANGED <<traded, late>>
            ELSE /\ traded' = traded \cup {p} /\ UNCHANGED <<old, late>>

RecordedTraded(p) == IF late THEN p \in old ELSE p \in traded

\* The program makes a trade for a; it learns of it, or the answer is lost.
Makes(a, learns) ==
    /\ spent' = IF learns /\ ~late THEN spent \cup {a} ELSE spent
    /\ twice' = IF a \in spent THEN twice \cup {a} ELSE twice

\* The trade was made but the records are not written yet.
Unrecorded == pc \in {"apply", "markFrom", "markTo", "save", "markSelf"}

CycleBegins ==
    /\ pc = "idle"
    /\ "overlap" \in Faults \/ ~Busy
    /\ pc' = "next" /\ todo' = Account
    /\ UNCHANGED <<game, rows, days, acct, cur, made, tries, syncs, tally>>

CycleEnds ==
    /\ pc = "next" /\ todo = {}
    /\ pc' = "idle" /\ old' = {} /\ late' = FALSE
    /\ UNCHANGED <<game, rows, traded, todo, acct, cur, made, tries, syncs, tally>>

\* No running engine, or fewer than 50 plots dug today.
Skips(a) ==
    /\ pc = "next" /\ a \in todo
    /\ todo' = todo \ {a}
    /\ UNCHANGED <<game, rows, days, pc, acct, cur, made, tries, syncs, tally>>

Visits(a) ==
    /\ pc = "next" /\ a \in todo
    /\ todo' = todo \ {a} /\ acct' = a /\ pc' = "sync"
    /\ spc' = [spc EXCEPT ![Cycle] = "fetch"]
    /\ sacct' = [sacct EXCEPT ![Cycle] = a]
    /\ UNCHANGED <<game, rows, days, cur, made, tries, snap, upd, ins, tally>>

Checks ==
    /\ pc = "check"
    /\ IF RecordedTraded(acct) THEN Leave ELSE Goto("pending")
    /\ UNCHANGED <<game, rows, days, syncs, tally>>

\* Mutant of Pending: rows of every status are taken.
PendingAny ==
    /\ pc = "pending"
    /\ LET incoming == {r \in Row : rtrade[r] # None /\ rtrade[r].to = acct}
       IN IF incoming = {}
          THEN Goto("match")
          ELSE /\ cur' \in incoming
               /\ pc' = "verify"
               /\ UNCHANGED <<todo, acct, made, tries>>
    /\ UNCHANGED <<game, rows, days, syncs, tally>>

\* _get_pending_incoming: one row; which one is left open.
Pending ==
    /\ pc = "pending"
    /\ LET incoming == {r \in Row : /\ rtrade[r] # None
                                   /\ rtrade[r].to = acct
                                   /\ rstatus[r] = "pending"}
       IN IF incoming = {}
          THEN Goto("match")
          ELSE /\ cur' \in incoming
               /\ pc' = "verify"
               /\ UNCHANGED <<todo, acct, made, tries>>
    /\ UNCHANGED <<game, rows, days, syncs, tally>>

-----------------------------------------------------------------------------
(***************************************************************************)
(* _accept_trade(trade)                                                    *)
(***************************************************************************)

\* Fragments suffice: never known of a stranger, who has no player_museum row.
VerifyOk ==
    /\ pc = "verify"
    /\ rtrade[cur].from \in Account
    /\ Goto("accept")
    /\ UNCHANGED <<game, rows, days, syncs, tally>>

VerifyFails ==
    /\ pc = "verify"
    /\ Goto("reject")
    /\ UNCHANGED <<game, rows, days, syncs, tally>>

Accepted(t) ==
    /\ status' = [status EXCEPT ![t] = "accepted"]
    /\ fresh' = fresh \cup {t}
    /\ UNCHANGED listed

AcceptOk ==
    /\ pc = "accept" /\ status[rtrade[cur]] = "pending"
    /\ Accepted(rtrade[cur])
    /\ Goto("apply")
    /\ Makes(acct, TRUE)
    /\ UNCHANGED <<rows, days, syncs>>

\* Accepted, but the client sees a network error: the row stays pending.
AcceptLost ==
    /\ "lost" \in Faults
    /\ pc = "accept" /\ status[rtrade[cur]] = "pending"
    /\ Accepted(rtrade[cur])
    /\ Leave
    /\ Makes(acct, FALSE)
    /\ UNCHANGED <<rows, days, syncs>>

\* A key error on the first call: the key is registered anew and the call repeated.
AcceptRetried ==
    /\ pc = "accept" /\ tries = 0
    /\ tries' = 1
    /\ UNCHANGED <<game, rows, days, pc, todo, acct, cur, made, syncs, tally>>

\* Mutant of AcceptInvalid: an answer that the trade is over counts as success.
AcceptInvalidApplied ==
    /\ pc = "accept" /\ status[rtrade[cur]] # "pending"
    /\ Goto("apply")
    /\ UNCHANGED <<game, rows, days, syncs, tally>>

\* The game knows the trade as completed, rejected, cancelled or expired.
AcceptInvalid ==
    /\ pc = "accept" /\ status[rtrade[cur]] # "pending"
    /\ Goto("reject")
    /\ UNCHANGED <<game, rows, days, syncs, tally>>

\* The engine stopped, the user id is missing, or any other error: kept pending.
AcceptRefused ==
    /\ pc = "accept"
    /\ Leave
    /\ UNCHANGED <<game, rows, days, syncs, tally>>

\* _update_trade_status(cur, st)
SetStatus(st) ==
    /\ rstatus' = [rstatus EXCEPT ![cur] = st]
    /\ UNCHANGED rtrade

Reject ==
    /\ pc = "reject"
    /\ SetStatus("rejected")
    /\ Leave
    /\ UNCHANGED <<game, days, syncs, tally>>

\* _apply_trade moves the fragments of both accounts in one transaction.
Apply ==
    /\ pc = "apply"
    /\ Goto("markFrom")
    /\ UNCHANGED <<game, rows, days, syncs, tally>>

MarkFrom ==
    /\ pc = "markFrom"
    /\ Record(rtrade[cur].from)
    /\ Goto("markTo")
    /\ UNCHANGED <<game, rows, syncs, tally>>

\* Mutant of MarkTo: only the initiator's day is recorded.
MarkToSkipped ==
    /\ pc = "markTo"
    /\ Goto("settle")
    /\ UNCHANGED <<game, rows, days, syncs, tally>>

MarkTo ==
    /\ pc = "markTo"
    /\ Record(rtrade[cur].to)
    /\ Goto("settle")
    /\ UNCHANGED <<game, rows, syncs, tally>>

Settle ==
    /\ pc = "settle"
    /\ SetStatus("accepted")
    /\ Leave
    /\ UNCHANGED <<game, days, syncs, tally>>

-----------------------------------------------------------------------------
(***************************************************************************)
(* _match_and_create(a)                                                    *)
(***************************************************************************)
Created(t) ==
    /\ t.own /\ t.from = acct /\ t.to # acct
    /\ status[t] = "none"
    /\ status' = [status EXCEPT ![t] = "pending"]
    /\ listed' = listed \cup {t}
    /\ UNCHANGED fresh

CreateOk(t) ==
    /\ pc = "match"
    /\ Created(t)
    /\ made' = t /\ pc' = "save"
    /\ UNCHANGED <<todo, acct, cur, tries>>
    /\ Makes(acct, TRUE)
    /\ UNCHANGED <<rows, days, syncs>>

\* Created, but the client sees an error: the next candidate is tried.
CreateLost(t) ==
    /\ "lost" \in Faults
    /\ pc = "match"
    /\ Created(t)
    /\ Makes(acct, FALSE)
    /\ UNCHANGED <<rows, days, sched, syncs>>

\* "Today's trades are used up": recorded, and the next candidate is tried.
CreateRefused ==
    /\ pc = "match"
    /\ traded' = traded \cup {acct}
    /\ UNCHANGED <<game, rows, old, late, sched, syncs, tally>>

\* No candidate (left).
NoMatch ==
    /\ pc = "match"
    /\ Leave
    /\ UNCHANGED <<game, rows, days, syncs, tally>>

Save ==
    /\ pc = "save"
    /\ \E r \in Row :
          /\ rtrade[r] = None
          /\ rtrade' = [rtrade EXCEPT ![r] = made]
          /\ rstatus' = [rstatus EXCEPT ![r] = "pending"]
    /\ Goto("markSelf")
    /\ UNCHANGED <<game, days, syncs, tally>>

MarkSelf ==
    /\ pc = "markSelf"
    /\ Record(acct)
    /\ Leave
    /\ UNCHANGED <<game, rows, syncs, tally>>

\* A transaction of the scheduler fails; run_museum_trade_cycle goes on with
\* the next account.
Raises ==
    /\ "save" \in Faults
    /\ Unrecorded \/ pc \in {"reject", "settle"}
    /\ spent' = IF Unrecorded THEN spent \ {acct} ELSE spent
    /\ Leave
    /\ UNCHANGED <<game, rows, days, syncs, twice>>

\* The process is killed and started again.
Crash ==
    /\ "crash" \in Faults
    /\ Busy
    /\ pc' = "idle" /\ todo' = {}
    /\ acct' = None /\ cur' = None /\ made' = None /\ tries' = 0
    /\ spc' = [s \in Slot |-> "idle"]
    /\ sacct' = [s \in Slot |-> None]
    /\ snap' = [s \in Slot |-> Nothing]
    /\ upd' = [s \in Slot |-> NoUpdate]
    /\ ins' = [s \in Slot |-> {}]
    /\ old' = {} /\ late' = FALSE
    /\ spent' = IF Unrecorded THEN spent \ {acct} ELSE spent
    /\ UNCHANGED <<game, rows, traded, twice>>

-----------------------------------------------------------------------------
PlayerStep(t) == PlayerOffers(t) \/ PlayerAccepts(t) \/ Closes(t) \/ Unlists(t)

SyncStep(s) ==
    \/ FetchFails(s) \/ FetchOk(s) \/ SyncMark(s)
    \/ SyncEmpty(s) \/ SyncRead(s) \/ SyncRaises(s) \/ SyncWrite(s)

AcceptStep ==
    \/ VerifyOk \/ VerifyFails
    \/ AcceptOk \/ AcceptLost \/ AcceptRetried \/ AcceptInvalid \/ AcceptRefused
    \/ Reject \/ Apply \/ MarkFrom \/ MarkTo \/ Settle

CreateStep ==
    \/ \E t \in Trade : CreateOk(t) \/ CreateLost(t)
    \/ CreateRefused \/ NoMatch \/ Save \/ MarkSelf

CycleStep ==
    \/ CycleBegins \/ CycleEnds \/ Checks \/ Pending
    \/ AcceptStep \/ CreateStep

Next ==
    \/ \E t \in Trade : PlayerStep(t)
    \/ NewDay
    \/ \E s \in Slot : SyncStep(s) \/ \E a \in Account : SyncBegins(s, a)
    \/ \E a \in Account : Skips(a) \/ Visits(a)
    \/ CycleStep \/ Raises
    \/ Crash

Spec == Init /\ [][Next]_vars

(***************************************************************************)
(* The coroutines run, every account is visited again and again (its       *)
(* engine runs and 50 plots are dug), and the game and the database answer *)
(* infinitely often.  Nothing is assumed of players or of the calendar.    *)
(***************************************************************************)
Fairness ==
    /\ SF_vars(CycleBegins)
    /\ WF_vars(CycleStep)
    /\ \A a \in Account :
          /\ SF_vars(Visits(a))
          /\ SF_vars(FetchOk(Cycle) /\ sacct[Cycle] = a)
          /\ SF_vars(SyncMark(Cycle) /\ sacct[Cycle] = a)
          /\ SF_vars(SyncRead(Cycle) /\ sacct[Cycle] = a)
          /\ SF_vars(SyncWrite(Cycle) /\ sacct[Cycle] = a)
    /\ \A s \in Slot : WF_vars(SyncStep(s))

FairSpec == Spec /\ Fairness

-----------------------------------------------------------------------------
(***************************************************************************)
(* Properties under every fault                                            *)
(***************************************************************************)

\* A row says "accepted" only of a trade the game has carried out, however old
\* the listing a synchronisation works from and wherever the acceptance stopped.
AcceptedInGame ==
    \A r \in Row : rtrade[r] # None /\ rstatus[r] = "accepted" =>
                      status[rtrade[r]] = "accepted"

\* museum_trade_scheduler.py:64 and :389, one trade per account and day: once a
\* trade was made for an account and recorded, no second one follows that day.
OneTradePerDay == twice = {}

(***************************************************************************)
(* Properties of synchronisations that do not overlap                      *)
(***************************************************************************)

\* A trade of the game has at most one row: the SELECT before the INSERT is the
\* only guard, there is no unique constraint.
OneRowPerTrade == \A t \in Trade : Cardinality(RowsOf(t)) <= 1

\* A row that says "accepted" says so for ever.
AcceptedForGood ==
    [][\A r \in Row : rtrade[r] # None /\ rstatus[r] = "accepted" =>
                        rstatus'[r] = "accepted"]_vars

\* What a party or the other did to a trade in the game reaches the table, if the
\* game goes on listing the trade.
Over(t) == status[t] \in {"accepted", "closed"} /\ t \in listed
OutcomeArrives ==
    \A t \in Trade :
        Over(t) ~> \/ t \notin listed
                   \/ \E r \in RowsOf(t) : rstatus[r] = Mapped(status[t])

=============================================================================
