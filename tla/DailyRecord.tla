----------------------------- MODULE DailyRecord -----------------------------
(***************************************************************************)
(* The daily_records row of one account and everybody who writes it:       *)
(* GameEngine._persist_daily() (the end of a cycle, and three routes),     *)
(* _persist_steals() (the farm loop), the museum scheduler's _set_traded() *)
(* and, the other way, _restore_daily_state() of a started engine.         *)
(*                                                                         *)
(* The counters live in an engine.  A stop takes the engine out of the     *)
(* registry and cancels its loops, but a route or a start that holds it    *)
(* goes on, beside the engine the next start makes, which counts from what *)
(* it restores.  So there may be several engines of the account at once,   *)
(* each with a memory of its own, and the row is theirs together.          *)
(*                                                                         *)
(* Columns do not mix, so a behaviour follows one column of the row:       *)
(*   "memory"  counted in memory: npc_fights, harvests, plants,            *)
(*             flowers_sent, land_upgrades, exp_battle;                    *)
(*   "helped"  help_waters, counted in memory too, but restored only when  *)
(*             the row has waters of the own farm;                         *)
(*   "mirror"  a copy in memory of a count of the game: the advertisement  *)
(*             counts (challenge_books is left out: a pill raises it too); *)
(*   "game"    asked of the game when it is written: steals (and waters,   *)
(*             digs, tower_floors, which only _persist_daily() writes);    *)
(*   "flag"    checkin_done, from the date of the last check-in in memory; *)
(*   "mark"    museum_trades, which no engine knows of.                    *)
(***************************************************************************)
EXTENDS Naturals, FiniteSets

CONSTANTS
    Days,      \* the calendar days of a behaviour: a bound
    MaxCount,  \* how often the counted thing is done in a day: a bound
    Writer,    \* coroutines that write the row, of loops and of routes: a bound
    Engine,    \* engines of the account that coroutines still hold: a bound
    NoEngine,
    NoRow

ASSUME DayAssumption == Days \in Nat \ {0} /\ MaxCount \in Nat \ {0}

Day    == 1..Days
Column == {"memory", "helped", "mirror", "game", "flag", "mark"}
Total  == 0..(Days * MaxCount)

ASSUME NoRowAssumption == NoRow \notin Nat

ASSUME NoEngineAssumption == NoEngine \notin Engine

VARIABLES
    column,    \* the column that is followed
    today,     \* date.today()
    done,      \* done[d]: what really was done on day d
    memory,    \* memory[e]: "gone", no coroutine holds engine e; "new", its
               \* services count from 0; "restored" or "failed", how
               \* _restore_daily_state() ended
    count,     \* count[e]: what engine e holds for the column: a counter such
               \* as NpcBattle.today_count, or the day of Checkin._done_date
    record,    \* record[d]: the column in the account's row of day d
    stage,     \* stage[w]: where writer w is
    by,        \* by[w]: the engine it writes for, none for the scheduler's
    draft,     \* draft[w]: the value it is about to write, and the day
    \* Kept for the properties:
    stale,     \* the writers whose value is out of date: the game's answer was
               \* lost, or another wrote the row after they had read it
    overtaken  \* the engines beside which a writer of another one has
               \* written today's row

engineVars == <<memory, count, by, overtaken>>
dayVars == <<column, today, done, record, stage, draft, stale, engineVars>>

Value == Total \cup Day

\* What a writer of an engine does, and one of the museum scheduler.
Persisting == {"refresh", "gather", "ask", "merge", "write", "steals", "save"}
Trading == {"trade", "update", "insert"}

DayTypeOK ==
    /\ column \in Column
    /\ today \in Day
    /\ done \in [Day -> 0..MaxCount]
    /\ memory \in [Engine -> {"gone", "new", "restored", "failed"}]
    /\ count \in [Engine -> Value]
    /\ record \in [Day -> Total \cup {NoRow}]
    /\ stage \in [Writer -> Persisting \cup Trading \cup {"idle"}]
    /\ by \in [Writer -> Engine \cup {NoEngine}]
    /\ \A w \in Writer : by[w] # NoEngine <=> stage[w] \in Persisting
    /\ draft \in [Writer -> [day: Day, n: Total]]
    /\ stale \subseteq {w \in Writer : stage[w] \in {"write", "save"}}
    /\ overtaken \subseteq Engine

NoDraft == [day |-> 1, n |-> 0]

DayInit ==
    /\ column \in Column
    /\ today = 1 /\ done = [d \in Day |-> 0]
    /\ memory = [e \in Engine |-> "gone"] /\ count = [e \in Engine |-> 0]
    /\ record = [d \in Day |-> NoRow]
    /\ stage = [w \in Writer |-> "idle"] /\ draft = [w \in Writer |-> NoDraft]
    /\ by = [w \in Writer |-> NoEngine]
    /\ stale = {} /\ overtaken = {}

-----------------------------------------------------------------------------
(* What is recorded. *)

Held(e) == memory[e] # "gone"

Counts(e, n) == Held(e) /\ count' = [count EXCEPT ![e] = n]

OnlyMemory == UNCHANGED <<column, today, memory, record, stage, by, draft, stale, overtaken>>

\* The game counts; fight_one() counts along, and a claimed advertisement
\* sets the count to the one the game gave before, plus one.
Work(e) ==
    /\ done[today] < MaxCount
    /\ done' = [done EXCEPT ![today] = @ + 1]
    /\ \/ column \in {"memory", "helped"} /\ count[e] < Days * MaxCount /\ Counts(e, count[e] + 1)
       \/ column = "mirror" /\ Counts(e, done[today] + 1)
       \/ column = "game" /\ Counts(e, count[e])
    /\ OnlyMemory

\* AdStamina.run() that finds nothing to claim only takes over the count.
Poll(e) ==
    /\ column = "mirror" /\ Counts(e, done[today])
    /\ OnlyMemory /\ UNCHANGED done

\* Checkin.run(): what the game has of today already is not asked for.
CheckIn(e) ==
    /\ column = "flag" /\ count[e] # today /\ Counts(e, today)
    /\ done' = [done EXCEPT ![today] = 1]
    /\ OnlyMemory

-----------------------------------------------------------------------------
(* _persist_daily() *)

Passes(w, from, to) == stage[w] = from /\ stage' = [stage EXCEPT ![w] = to]
Begins(w, e, to) == Held(e) /\ Passes(w, "idle", to) /\ by' = [by EXCEPT ![w] = e]
Ends(w, from) ==
    /\ Passes(w, from, "idle")
    /\ by' = [by EXCEPT ![w] = NoEngine] /\ draft' = [draft EXCEPT ![w] = NoDraft]

OnlyWriter == UNCHANGED <<column, today, memory>>
OnlyDraft == OnlyWriter /\ UNCHANGED <<done, overtaken>>

\* The route sync-daily asks the game for the mirrored counts first, takes
\* them over, a failed request as 0, and calls _persist_daily(); for the other
\* columns it is StartPersist.
StartSync(w, e) ==
    /\ column = "mirror" /\ Begins(w, e, "refresh")
    /\ OnlyDraft /\ UNCHANGED <<count, record, draft, stale>>

Refresh(w) ==
    /\ Passes(w, "refresh", "gather")
    /\ \E n \in {0, done[today], count[by[w]]} : count' = [count EXCEPT ![by[w]] = n]
    /\ draft' = [draft EXCEPT ![w].day = today]
    /\ OnlyDraft /\ UNCHANGED <<record, by, stale>>

StartPersist(w, e) ==
    /\ Begins(w, e, "gather")
    /\ draft' = [draft EXCEPT ![w].day = today]
    /\ OnlyDraft /\ UNCHANGED <<count, record, stale>>

\* After the statuses of tower and farm the dictionary of counters is
\* evaluated up to the await of the steals ...
Gather(w) ==
    /\ Passes(w, "gather", "ask")
    /\ draft' = IF column = "memory" THEN [draft EXCEPT ![w].n = count[by[w]]] ELSE draft
    /\ OnlyDraft /\ UNCHANGED <<count, record, by, stale>>

\* _get_steal_count(): 0 when a request fails.
Answer == {0, done[today]}

\* ... and the rest of it after that, some counters in memory with it.
Gathered(w, answer) ==
    CASE column \in {"mirror", "helped"} -> {count[by[w]]}
      [] column = "memory" -> {draft[w].n, count[by[w]]}
      [] column = "game" -> {answer}
      [] column = "flag" /\ count[by[w]] = draft[w].day -> {1}
      [] OTHER -> {draft[w].n}

Ask(w) ==
    /\ Passes(w, "ask", "merge")
    /\ \E n \in Answer : \E g \in Gathered(w, n) : draft' = [draft EXCEPT ![w].n = g]
    /\ OnlyDraft /\ UNCHANGED <<count, record, by, stale>>

Larger(m, n) == IF m < n THEN n ELSE m

\* Mutants of Merged: memory holds the increment, or is always right.
Added(old, new)  == old + new
Newest(old, new) == new

\* What is written of a counter of which the row has a value already.
Merged(old, new) == Larger(old, new)

Counter == {"memory", "helped", "mirror", "game"}

\* The row is read and its counters merged; an exception of the read ends
\* the coroutine.
Merge(w) ==
    /\ \/ /\ Passes(w, "merge", "write") /\ UNCHANGED by
          /\ LET old == record[draft[w].day]
             IN  draft' = IF old = NoRow \/ column \notin Counter THEN draft
                          ELSE [draft EXCEPT ![w].n = Merged(old, @)]
       \/ Ends(w, "merge")
    /\ OnlyDraft /\ UNCHANGED <<count, record, stale>>

Found(d) == IF record[d] = NoRow THEN 0 ELSE record[d]

\* The upsert names the counters and the flags of the engine; what it does
\* not name is left alone, or 0 in a new row.
Upserted(d, n) == IF column = "mark" THEN Found(d) ELSE n

\* Another writer holds a value that it is going to write into the same row.
Overwrites(w) ==
    {v \in Writer : stage[v] \in {"write", "save"} /\ draft[v].day = draft[w].day}

\* Another engine had restored the row before, or holds a merge with it.
Overtakes(w) ==
    {e \in Engine \ {by[w]} :
        /\ draft[w].day = today
        /\ \/ memory[e] = "restored"
           \/ \E v \in Writer : by[v] = e /\ stage[v] = "write"}

Commit(w, n) ==
    /\ record' = [record EXCEPT ![draft[w].day] = n]
    /\ stale' = (stale \cup Overwrites(w)) \ {w}
    /\ overtaken' = overtaken \cup Overtakes(w)

RolledBack(w) == stale' = stale \ {w} /\ UNCHANGED <<record, overtaken>>

Upsert(w) ==
    /\ Ends(w, "write")
    /\ Commit(w, Upserted(draft[w].day, draft[w].n)) \/ RolledBack(w)
    /\ OnlyWriter /\ UNCHANGED <<done, count>>

-----------------------------------------------------------------------------
(* _persist_steals(): the count, the date of that moment, one column. *)

StartSteals(w, e) ==
    /\ column = "game" /\ Begins(w, e, "steals")
    /\ OnlyDraft /\ UNCHANGED <<count, record, draft, stale>>

CountSteals(w) ==
    /\ Passes(w, "steals", "save")
    /\ \E n \in Answer :
         /\ draft' = [draft EXCEPT ![w] = [day |-> today, n |-> n]]
         /\ stale' = IF n < done[today] THEN stale \cup {w} ELSE stale
    /\ OnlyDraft /\ UNCHANGED <<count, record, by>>

SaveSteals(w) ==
    /\ Ends(w, "save")
    /\ Commit(w, draft[w].n) \/ RolledBack(w)
    /\ OnlyWriter /\ UNCHANGED <<done, count>>

-----------------------------------------------------------------------------
(* _set_traded(), in a session of its own, with the date at which the       *)
(* scheduler's cycle began.                                                 *)

StartTrade(w) ==
    /\ column = "mark" /\ (\E e \in Engine : Held(e)) /\ Passes(w, "idle", "trade")
    /\ done[today] < MaxCount /\ done' = [done EXCEPT ![today] = @ + 1]
    /\ draft' = [draft EXCEPT ![w] = [day |-> today, n |-> 1]]
    /\ OnlyWriter /\ UNCHANGED <<count, record, by, stale, overtaken>>

FindRow(w) ==
    /\ Passes(w, "trade", IF record[draft[w].day] = NoRow THEN "insert" ELSE "update")
    /\ OnlyDraft /\ UNCHANGED <<count, record, by, draft, stale>>

\* An insert fails when the row was inserted meanwhile.
SetTraded(w) ==
    /\ Ends(w, "insert") \/ Ends(w, "update")
    /\ \/ /\ stage[w] = "insert" => record[draft[w].day] = NoRow
          /\ record' = [record EXCEPT ![draft[w].day] = draft[w].n]
       \/ UNCHANGED record
    /\ OnlyDraft /\ UNCHANGED <<count, stale>>

-----------------------------------------------------------------------------
(* The engines and the clock. *)

\* A start makes an engine, and its services count from 0, whether one that
\* was stopped is still held or not.
StartEngine(e) ==
    /\ ~Held(e) /\ memory' = [memory EXCEPT ![e] = "new"]
    /\ UNCHANGED <<column, today, done, count, record, stage, by, draft, stale, overtaken>>

\* Mutant of Restored: nothing is taken over.
Forgotten(e, d, old, waters) == count[e]

\* _restore_daily_state() of _init_sync(): the larger of the row's count and
\* of what a route has counted in the meantime; that of help_waters only in
\* a row with waters.  Its exception handler is empty.
Restored(e, d, old, waters) ==
    CASE column \in {"memory", "mirror"} \/ (column = "helped" /\ waters) -> Larger(count[e], old)
      [] column = "flag" /\ old = 1 -> d
      [] OTHER -> count[e]

Restore(e) ==
    /\ memory[e] = "new"
    /\ \/ /\ memory' = [memory EXCEPT ![e] = "restored"]
          /\ \E waters \in BOOLEAN :
               count' = [count EXCEPT ![e] = Restored(e, today, Found(today), waters)]
       \/ memory' = [memory EXCEPT ![e] = "failed"] /\ UNCHANGED count
    /\ UNCHANGED <<column, today, done, record, stage, by, draft, stale, overtaken>>

\* stop() cancels the loops of an engine, wherever they are; a coroutine that
\* is no loop goes on.
Cancelled(w) ==
    /\ by[w] # NoEngine /\ Ends(w, stage[w]) /\ stale' = stale \ {w}
    /\ OnlyDraft /\ UNCHANGED <<count, record>>

\* A stopped engine that nobody writes for any more is gone with its memory.
Released(e) ==
    /\ Held(e) /\ \A w \in Writer : by[w] # e
    /\ memory' = [memory EXCEPT ![e] = "gone"] /\ count' = [count EXCEPT ![e] = 0]
    /\ overtaken' = overtaken \ {e}
    /\ UNCHANGED <<column, today, done, record, stage, by, draft, stale>>

\* The process ends, with the memory of every engine and all coroutines.
Crash ==
    /\ memory' = [e \in Engine |-> "gone"] /\ count' = [e \in Engine |-> 0]
    /\ stage' = [w \in Writer |-> "idle"] /\ draft' = [w \in Writer |-> NoDraft]
    /\ by' = [w \in Writer |-> NoEngine] /\ stale' = {} /\ overtaken' = {}
    /\ UNCHANGED <<column, today, done, record>>

Midnight ==
    /\ today < Days /\ today' = today + 1 /\ overtaken' = {}
    /\ UNCHANGED <<column, done, memory, count, record, stage, by, draft, stale>>

DayNext ==
    \/ \E e \in Engine : Work(e) \/ Poll(e) \/ CheckIn(e)
    \/ \E w \in Writer, e \in Engine :
          StartSync(w, e) \/ StartPersist(w, e) \/ StartSteals(w, e)
    \/ \E w \in Writer :
          \/ Refresh(w) \/ Gather(w) \/ Ask(w) \/ Merge(w) \/ Upsert(w)
          \/ CountSteals(w) \/ SaveSteals(w)
          \/ StartTrade(w) \/ FindRow(w) \/ SetTraded(w)
          \/ Cancelled(w)
    \/ \E e \in Engine : StartEngine(e) \/ Restore(e) \/ Released(e)
    \/ Crash \/ Midnight

DaySpec == DayInit /\ [][DayNext]_dayVars

-----------------------------------------------------------------------------
(* Properties *)

\* Before the first midnight, whatever races, fails or restarts, the row never
\* says more than what was done: taking the larger value, restoring and
\* mirroring count nothing twice.
RecordedWasDone ==
    today = 1 /\ record[1] # NoRow => record[1] <= done[1]

\* What a row says of the day's work never becomes less, across crashes, lost
\* answers, failed restores, midnights and engines that were stopped, unless
\* its writer is out of date: another wrote the row between its merge and its
\* upsert, or it is _persist_steals(), which merges nothing, with 0 for a lost
\* answer.  The mark of a finished museum trade survives everything that the
\* engines write, overlapping or not.
RecordNeverShrinks ==
    [][\A d \in Day : record[d] # NoRow /\ column # "flag" =>
          \/ record'[d] # NoRow /\ record'[d] >= record[d]
          \/ column # "mark" /\ \E w \in stale : stage'[w] = "idle"]_dayVars

\* Once an engine has restored the state of the day, its memory covers the
\* row: what was recorded before a crash, or by the engine that was stopped,
\* is not forgotten, and a recorded check-in is not asked for again.  Of
\* help_waters this is not so.  Nor is it so of an engine beside which a
\* writer of another one has written the row since: a route of a stopped
\* engine that goes on (or the second of two starts) leaves a row that the
\* running engine does not know of until the next start.  The writers of an
\* engine itself, however many overlap, never leave such a row.
RestartRemembers ==
    \A e \in Engine : memory[e] = "restored" /\ e \notin overtaken /\ record[today] # NoRow =>
        /\ column = "memory" => record[today] <= count[e]
        /\ column = "flag" /\ record[today] = 1 => count[e] = today
=============================================================================
