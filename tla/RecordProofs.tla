------------------------------ MODULE RecordProofs ------------------------------
(***************************************************************************)
(* Theorems about what is kept outside the game: DailyRecord, for any      *)
(* number of days, engines and writers and any amount of work;             *)
(* OperationLog, for any number of days, lines and threads; and, with the  *)
(* theorems about the caches, about all that the run records follows.      *)
(***************************************************************************)
EXTENDS MCRecords, CacheProofs

(***************************************************************************)
(* DailyRecord: a row never says more than was done before the first       *)
(* midnight, it never says less than before unless its writer is out of    *)
(* date, and a restarted engine remembers what the row says.               *)
(***************************************************************************)
\* The types the arguments need.
Shapes ==
    /\ column \in Column /\ today \in Day /\ done \in [Day -> Nat]
    /\ memory \in [Engine -> {"gone", "new", "restored", "failed"}]
    /\ count \in [Engine -> Nat]
    /\ record \in [Day -> Nat \cup {NoRow}]
    /\ draft \in [Writer -> [day: Day, n: Nat]]
    /\ stage \in [Writer -> Persisting \cup Trading \cup {"idle"}]
    /\ by \in [Writer -> Engine \cup {NoEngine}]
    /\ \A w \in Writer : by[w] # NoEngine <=> stage[w] \in Persisting
    /\ stale \subseteq {w \in Writer : stage[w] \in {"write", "save"}}
    /\ overtaken \subseteq Engine

\* Only the mirrored counts are refreshed, only the column of the steals is
\* written by _persist_steals(), only the mark by _set_traded(), which writes 1;
\* a writer that begins holds no value yet.
OwnColumn ==
    \A w \in Writer :
        /\ stage[w] = "refresh" => column = "mirror"
        /\ stage[w] \in {"steals", "save"} => column = "game"
        /\ stage[w] \in Trading => column = "mark" /\ draft[w].n = 1
        /\ stage[w] \in {"idle", "refresh", "steals"} => draft[w].n = 0

\* Nobody writes the row of a day to come.
NoFuture ==
    /\ \A w \in Writer : draft[w].day <= today
    /\ \A d \in Day : d > today => record[d] = NoRow

AtMost(v, n) == v = NoRow \/ v <= n

\* On the first day memory, drafts and row are covered by what was done.
FirstDay ==
    today = 1 =>
        /\ \A e \in Engine : count[e] <= done[1]
        /\ AtMost(record[1], done[1])
        /\ \A w \in Writer : draft[w].n <= done[1]
        /\ column = "flag" => done[1] <= 1

\* The game's count of today covers what has been read of it today.
GameCounts ==
    column = "game" =>
        /\ AtMost(record[today], done[today])
        /\ \A w \in Writer : draft[w].day = today => draft[w].n <= done[today]

MarkIsOne == column = "mark" => \A d \in Day : AtMost(record[d], 1)

\* What is about to be written covers what is written, unless it is stale.
DraftsCover ==
    column \in Counter =>
        \A w \in Writer \ stale :
            stage[w] \in {"write", "save"} => AtMost(record[draft[w].day], draft[w].n)

DayInv ==
    /\ Shapes /\ OwnColumn /\ NoFuture
    /\ FirstDay /\ GameCounts /\ MarkIsOne /\ DraftsCover

LEMMA DayStarts == DayInit => DayInv
<1> SUFFICES ASSUME DayInit PROVE DayInv
  OBVIOUS
<1> USE DayAssumption, NoRowAssumption, NoEngineAssumption
<1> USE DEF DayInit, NoDraft, Day
<1>1. Shapes
  BY DEF Shapes, Persisting, Trading
<1>2. OwnColumn /\ NoFuture
  BY DEF OwnColumn, NoFuture, Trading
<1>3. FirstDay /\ GameCounts /\ MarkIsOne /\ DraftsCover
  BY DEF FirstDay, GameCounts, MarkIsOne, DraftsCover, AtMost
<1> QED
  BY <1>1, <1>2, <1>3 DEF DayInv

LEMMA Numbers ==
    ASSUME Shapes
    PROVE  /\ today \in Day /\ 1 \in Day
           /\ \A e \in Engine : count[e] \in Nat
           /\ \A d \in Day : d \in Nat \ {0} /\ done[d] \in Nat /\ record[d] \in Nat \cup {NoRow}
           /\ \A w \in Writer : draft[w].day \in Day /\ draft[w].n \in Nat
  BY DayAssumption DEF Shapes, Day

-----------------------------------------------------------------------------
(* What each step does to the state the invariant speaks of, point by      *)
(* point: the parts of the invariant are shown to be kept from these.      *)

Aside == UNCHANGED <<column, today, done, memory>>
OnlyOf(w) ==
    \A v \in Writer \ {w} : stage'[v] = stage[v] /\ draft'[v] = draft[v] /\ by'[v] = by[v]
Cleared(w) ==
    stage'[w] = "idle" /\ draft'[w].day = 1 /\ draft'[w].n = 0 /\ by'[w] = NoEngine
CountsOf(e) == \A f \in Engine \ {e} : count'[f] = count[f]
MemoryOf(e) == \A f \in Engine \ {e} : memory'[f] = memory[f]

\* The row of draft[w] becomes n, and the others learn of it.
Writes(w, n) ==
    /\ \A d \in Day : record'[d] = IF d = draft[w].day THEN n ELSE record[d]
    /\ \A v \in Writer \ {w} :
          v \in stale' <=> v \in stale \/ v \in Overwrites(w)
    /\ \A e \in Engine : e \in overtaken' <=> e \in overtaken \/ e \in Overtakes(w)
Spares(w) ==
    UNCHANGED <<record, overtaken>> /\ \A v \in Writer \ {w} : v \in stale' <=> v \in stale

CountDoes(e) ==
    /\ UNCHANGED <<column, today, memory, record, stage, by, draft, stale, overtaken>>
    /\ CountsOf(e) /\ \A d \in Day \ {today} : done'[d] = done[d]
    /\ \/ /\ done[today] < MaxCount /\ done'[today] = done[today] + 1
          /\ \/ /\ column \in {"memory", "helped"} /\ count[e] < Days * MaxCount
                /\ count'[e] = count[e] + 1
             \/ column = "mirror" /\ count'[e] = done[today] + 1
             \/ column = "game" /\ count'[e] = count[e]
       \/ column = "mirror" /\ done'[today] = done[today] /\ count'[e] = done[today]
       \/ /\ column = "flag" /\ count[e] # today
          /\ done'[today] = 1 /\ count'[e] = today

BeginDoes(w) ==
    /\ Aside /\ UNCHANGED <<count, record, stale, overtaken>> /\ OnlyOf(w)
    /\ stage[w] = "idle" /\ stage'[w] \in {"refresh", "gather", "steals"}
    /\ stage'[w] = "refresh" => column = "mirror"
    /\ stage'[w] = "steals" => column = "game"
    /\ by'[w] \in Engine /\ draft'[w].n = 0 /\ draft'[w].day \in {draft[w].day, today}

RefreshDoes(w) ==
    /\ Aside /\ UNCHANGED <<record, stale, overtaken>> /\ OnlyOf(w) /\ column = "mirror"
    /\ by[w] \in Engine /\ by'[w] = by[w] /\ CountsOf(by[w])
    /\ count'[by[w]] \in {count[by[w]], 0, done[today]}
    /\ stage[w] = "refresh" /\ stage'[w] = "gather"
    /\ draft'[w].day = today /\ draft'[w].n = 0

GatherDoes(w) ==
    /\ Aside /\ UNCHANGED <<count, record, stale, overtaken>> /\ OnlyOf(w)
    /\ by[w] \in Engine /\ by'[w] = by[w]
    /\ stage[w] = "gather" /\ stage'[w] = "ask" /\ draft'[w].day = draft[w].day
    /\ draft'[w].n = IF column = "memory" THEN count[by[w]] ELSE draft[w].n

AskDoes(w) ==
    /\ Aside /\ UNCHANGED <<count, record, stale, overtaken>> /\ OnlyOf(w)
    /\ by[w] \in Engine /\ by'[w] = by[w]
    /\ stage[w] = "ask" /\ stage'[w] = "merge" /\ draft'[w].day = draft[w].day
    /\ \/ draft'[w].n = draft[w].n /\ column # "game"
       \/ draft'[w].n = count[by[w]] /\ column \in {"memory", "helped", "mirror"}
       \/ draft'[w].n \in {0, done[today]} /\ column = "game"
       \/ draft'[w].n = 1 /\ column = "flag" /\ count[by[w]] = draft[w].day

MergeDoes(w) ==
    /\ Aside /\ UNCHANGED <<count, record, stale, overtaken>> /\ OnlyOf(w)
    /\ stage[w] = "merge" /\ by[w] \in Engine
    /\ \/ Cleared(w)
       \/ /\ stage'[w] = "write" /\ by'[w] = by[w] /\ draft'[w].day = draft[w].day
          /\ \/ draft'[w].n = draft[w].n
             \/ /\ column \in Counter /\ record[draft[w].day] # NoRow
                /\ draft'[w].n = record[draft[w].day]
          /\ column \in Counter => AtMost(record[draft[w].day], draft'[w].n)

UpsertDoes(w) ==
    /\ Aside /\ UNCHANGED count /\ OnlyOf(w) /\ Cleared(w) /\ w \notin stale'
    /\ stage[w] = "write" /\ by[w] \in Engine
    /\ \/ Spares(w)
       \/ Writes(w, IF column = "mark" THEN Found(draft[w].day) ELSE draft[w].n)

CountStealsDoes(w) ==
    /\ Aside /\ UNCHANGED <<count, record, overtaken>> /\ OnlyOf(w)
    /\ column = "game" /\ by'[w] = by[w]
    /\ stage[w] = "steals" /\ stage'[w] = "save"
    /\ draft'[w].day = today /\ draft'[w].n \in {0, done[today]}
    /\ draft'[w].n < done[today] => w \in stale'
    /\ \A v \in Writer \ {w} : v \in stale' <=> v \in stale

SaveDoes(w) ==
    /\ Aside /\ UNCHANGED count /\ OnlyOf(w) /\ Cleared(w) /\ w \notin stale'
    /\ stage[w] = "save" /\ column = "game"
    /\ Spares(w) \/ Writes(w, draft[w].n)

StartTradeDoes(w) ==
    /\ UNCHANGED <<column, today, memory, count, record, stale, overtaken>> /\ OnlyOf(w)
    /\ column = "mark" /\ by'[w] = by[w]
    /\ stage[w] = "idle" /\ stage'[w] = "trade"
    /\ done[today] < MaxCount /\ done'[today] = done[today] + 1
    /\ \A d \in Day \ {today} : done'[d] = done[d]
    /\ draft'[w].day = today /\ draft'[w].n = 1

FindRowDoes(w) ==
    /\ Aside /\ UNCHANGED <<count, record, by, draft, stale, overtaken>> /\ OnlyOf(w)
    /\ stage[w] = "trade" /\ stage'[w] \in {"insert", "update"}

TradedDoes(w) ==
    /\ Aside /\ UNCHANGED <<count, stale, overtaken>> /\ OnlyOf(w) /\ Cleared(w)
    /\ stage[w] \in {"insert", "update"} /\ column = "mark" /\ draft[w].n = 1
    /\ \/ UNCHANGED record
       \/ \A d \in Day : record'[d] = IF d = draft[w].day THEN 1 ELSE record[d]

CancelDoes(w) ==
    /\ Aside /\ UNCHANGED count /\ OnlyOf(w) /\ Cleared(w)
    /\ Spares(w) /\ w \notin stale'

StartEngineDoes(e) ==
    /\ UNCHANGED <<column, today, done, count, record, stage, by, draft, stale, overtaken>>
    /\ MemoryOf(e) /\ memory'[e] = "new"

RestoreDoes(e) ==
    /\ UNCHANGED <<column, today, done, record, stage, by, draft, stale, overtaken>>
    /\ MemoryOf(e) /\ CountsOf(e)
    /\ \/ memory'[e] = "failed" /\ count'[e] = count[e]
       \/ /\ memory'[e] = "restored"
          /\ \/ count'[e] = count[e] /\ column # "memory"
             \/ count'[e] \in {count[e], Found(today)} /\ column \in {"memory", "mirror", "helped"}
             \/ count'[e] = today /\ column = "flag" /\ Found(today) = 1
          /\ column = "memory" => count[e] <= count'[e] /\ Found(today) <= count'[e]
          /\ column = "flag" =>
                IF Found(today) = 1 THEN count'[e] = today ELSE count'[e] = count[e]

ReleasedDoes(e) ==
    /\ UNCHANGED <<column, today, done, record, stage, by, draft, stale>>
    /\ MemoryOf(e) /\ CountsOf(e) /\ \A w \in Writer : by[w] # e
    /\ memory'[e] = "gone" /\ count'[e] = 0
    /\ \A f \in Engine \ {e} : f \in overtaken' <=> f \in overtaken

CrashDoes ==
    /\ UNCHANGED <<column, today, done, record>>
    /\ \A e \in Engine : memory'[e] = "gone" /\ count'[e] = 0
    /\ \A w \in Writer : Cleared(w)
    /\ stale' = {} /\ overtaken' = {}

MidnightDoes ==
    /\ UNCHANGED <<column, done, memory, count, record, stage, by, draft, stale>>
    /\ today' = today + 1 /\ overtaken' = {}

LEMMA CountEffect ==
    ASSUME Shapes, NEW e \in Engine, Work(e) \/ Poll(e) \/ CheckIn(e)
    PROVE  Shapes' /\ CountDoes(e)
<1> USE DEF Shapes, Counts, OnlyMemory
<1>1. UNCHANGED <<column, today, memory, record, stage, by, draft, stale, overtaken>>
  BY DEF Work, Poll, CheckIn
<1>2. PICK n \in Nat : count' = [count EXCEPT ![e] = n]
  BY DayAssumption DEF Work, Poll, CheckIn, Day
<1>3. PICK m \in Nat : done' = [done EXCEPT ![today] = m]
  <2>1. CASE Work(e)
    <3>1. done[today] + 1 \in Nat
      OBVIOUS
    <3>2. done' = [done EXCEPT ![today] = done[today] + 1]
      BY <2>1 DEF Work
    <3> QED
      BY <3>1, <3>2
  <2>2. CASE Poll(e)
    BY <2>2 DEF Poll
  <2>3. CASE CheckIn(e)
    BY <2>3 DEF CheckIn
  <2> QED
    BY <2>1, <2>2, <2>3
<1>4. count' \in [Engine -> Nat] /\ CountsOf(e) /\ count'[e] = n
  BY <1>2 DEF CountsOf
<1>5. /\ done' \in [Day -> Nat] /\ done'[today] = m
      /\ \A d \in Day \ {today} : done'[d] = done[d]
  BY <1>3
<1>6. CASE Work(e)
  <2>1. done[today] < MaxCount /\ done'[today] = done[today] + 1
    BY <1>6 DEF Work
  <2>2. \/ /\ column \in {"memory", "helped"} /\ count[e] < Days * MaxCount
           /\ count'[e] = count[e] + 1
        \/ column = "mirror" /\ count'[e] = done[today] + 1
        \/ column = "game" /\ count'[e] = count[e]
    BY <1>6 DEF Work
  <2> QED
    BY <1>1, <1>4, <1>5, <2>1, <2>2 DEF CountDoes
<1>7. CASE Poll(e)
  BY <1>1, <1>4, <1>5, <1>7 DEF CountDoes, Poll
<1>8. CASE CheckIn(e)
  BY <1>1, <1>4, <1>5, <1>8 DEF CountDoes, CheckIn
<1> QED
  BY <1>6, <1>7, <1>8

LEMMA BeginEffect ==
    ASSUME Shapes, OwnColumn, NEW w \in Writer, NEW e \in Engine,
           StartSync(w, e) \/ StartPersist(w, e) \/ StartSteals(w, e)
    PROVE  Shapes' /\ BeginDoes(w)
<1> USE NoEngineAssumption DEF Shapes, Begins, Passes, OnlyDraft, OnlyWriter
<1>1. /\ Aside /\ UNCHANGED <<count, record, stale, overtaken>> /\ stage[w] = "idle"
      /\ by' = [by EXCEPT ![w] = e]
      /\ draft' = draft \/ draft' = [draft EXCEPT ![w].day = today]
  BY DEF StartSync, StartPersist, StartSteals, Aside
<1>2. PICK s \in {"refresh", "gather", "steals"} :
         /\ stage' = [stage EXCEPT ![w] = s]
         /\ s = "refresh" => column = "mirror"
         /\ s = "steals" => column = "game"
  BY DEF StartSync, StartPersist, StartSteals
<1>3. draft[w].n = 0
  BY <1>1 DEF OwnColumn
<1>4. /\ draft' \in [Writer -> [day: Day, n: Nat]]
      /\ draft'[w].n = 0 /\ draft'[w].day \in {draft[w].day, today}
      /\ \A v \in Writer \ {w} : draft'[v] = draft[v]
  BY <1>1, <1>3, SMTT(20)
<1>5. /\ by' \in [Writer -> Engine \cup {NoEngine}] /\ by'[w] \in Engine
      /\ stage' \in [Writer -> Persisting \cup Trading \cup {"idle"}]
      /\ stage'[w] = s /\ s \in Persisting
      /\ \A v \in Writer \ {w} : stage'[v] = stage[v] /\ by'[v] = by[v]
  BY <1>1, <1>2 DEF Persisting
<1>6. Shapes'
  BY <1>1, <1>2, <1>4, <1>5 DEF Aside
<1> QED
  BY <1>1, <1>2, <1>4, <1>5, <1>6 DEF BeginDoes, OnlyOf

LEMMA RefreshEffect ==
    ASSUME Shapes, OwnColumn, NEW w \in Writer, Refresh(w)
    PROVE  Shapes' /\ RefreshDoes(w)
<1> USE DEF Refresh, Passes, OnlyDraft, OnlyWriter, Shapes
<1>1. draft[w].n = 0 /\ column = "mirror" /\ by[w] \in Engine
  BY DEF OwnColumn, Persisting
<1>2. /\ draft' = [draft EXCEPT ![w].day = today]
      /\ stage' = [stage EXCEPT ![w] = "gather"]
  OBVIOUS
<1>3. PICK n \in {0, done[today], count[by[w]]} : count' = [count EXCEPT ![by[w]] = n]
  OBVIOUS
<1>4. count' \in [Engine -> Nat] /\ CountsOf(by[w]) /\ count'[by[w]] = n
  BY <1>1, <1>3 DEF CountsOf
<1>5. draft' \in [Writer -> [day: Day, n: Nat]] /\ draft'[w].day = today /\ draft'[w].n = 0
  BY <1>1, <1>2
<1>6. stage' \in [Writer -> Persisting \cup Trading \cup {"idle"}]
  BY <1>2 DEF Persisting
<1>7. Shapes'
  BY <1>2, <1>4, <1>5, <1>6 DEF Persisting
<1> QED
  BY <1>1, <1>2, <1>4, <1>5, <1>7 DEF RefreshDoes, Aside, OnlyOf

LEMMA GatherEffect ==
    ASSUME Shapes, NEW w \in Writer, Gather(w)
    PROVE  Shapes' /\ GatherDoes(w)
<1> USE DEF Gather, Passes, OnlyDraft, OnlyWriter, Shapes
<1>1. by[w] \in Engine
  BY DEF Persisting
<1>2. draft' \in [Writer -> [day: Day, n: Nat]]
  BY <1>1
<1>3. stage' \in [Writer -> Persisting \cup Trading \cup {"idle"}]
  BY DEF Persisting
<1>4. Shapes'
  BY <1>2, <1>3 DEF Persisting
<1> QED
  BY <1>1, <1>4 DEF GatherDoes, Aside, OnlyOf

LEMMA AskEffect ==
    ASSUME Shapes, NEW w \in Writer, Ask(w)
    PROVE  Shapes' /\ AskDoes(w)
<1> USE DEF Ask, Passes, OnlyDraft, OnlyWriter, Shapes
<1>0. PICK n \in {0, done[today]} : \E g \in Gathered(w, n) : draft' = [draft EXCEPT ![w].n = g]
  BY DEF Answer
<1>1. PICK g \in Gathered(w, n) : draft' = [draft EXCEPT ![w].n = g]
  BY <1>0
<1>2. \/ g = draft[w].n /\ column # "game"
      \/ g = count[by[w]] /\ column \in {"memory", "helped", "mirror"}
      \/ g = n /\ column = "game"
      \/ g = 1 /\ column = "flag" /\ count[by[w]] = draft[w].day
  BY DEF Gathered, Column
<1>3. by[w] \in Engine
  BY DEF Persisting
<1>4. g \in Nat
  BY <1>2, <1>3
<1>5. draft' \in [Writer -> [day: Day, n: Nat]]
  BY <1>1, <1>4
<1>6. stage' \in [Writer -> Persisting \cup Trading \cup {"idle"}]
  BY DEF Persisting
<1>7. Shapes'
  BY <1>5, <1>6 DEF Persisting
<1> QED
  BY <1>1, <1>2, <1>3, <1>7 DEF AskDoes, Aside, OnlyOf

\* A writer that ends is idle, holds no value and writes for no engine.
LEMMA EndEffect ==
    ASSUME Shapes, NEW w \in Writer, NEW s, Ends(w, s), Aside,
           count' = count, record' \in [Day -> Nat \cup {NoRow}], overtaken' \subseteq Engine,
           stale' \subseteq {v \in Writer : stage[v] \in {"write", "save"}} \ {w}
    PROVE  Shapes' /\ OnlyOf(w) /\ Cleared(w) /\ stage[w] = s
<1> USE DEF Shapes, Ends, Passes, NoDraft
<1>1. draft' \in [Writer -> [day: Day, n: Nat]]
  BY DayAssumption DEF Day
<1>2. by' \in [Writer -> Engine \cup {NoEngine}]
  OBVIOUS
<1>3. stage' \in [Writer -> Persisting \cup Trading \cup {"idle"}]
  OBVIOUS
<1>4. OnlyOf(w) /\ Cleared(w) /\ stage[w] = s
  BY DEF OnlyOf, Cleared
<1>5. stale' \subseteq {v \in Writer : stage'[v] \in {"write", "save"}}
  BY <1>4 DEF OnlyOf
<1>6. \A v \in Writer : by'[v] # NoEngine <=> stage'[v] \in Persisting
  BY <1>4 DEF OnlyOf, Cleared, Persisting
<1> QED
  BY <1>1, <1>2, <1>3, <1>4, <1>5, <1>6 DEF Aside

LEMMA MergeEffect ==
    ASSUME Shapes, NEW w \in Writer, Merge(w)
    PROVE  Shapes' /\ MergeDoes(w)
<1> USE NoRowAssumption, DayAssumption
<1>1. /\ Aside /\ UNCHANGED <<count, record, stale, overtaken>>
      /\ stage[w] = "merge" /\ by[w] \in Engine
  BY DEF Merge, OnlyDraft, OnlyWriter, Aside, Passes, Ends, Shapes, Persisting
<1>2. CASE Ends(w, "merge")
  <2>1. stale' \subseteq {v \in Writer : stage[v] \in {"write", "save"}} \ {w}
    BY <1>1 DEF Shapes
  <2>2. Shapes' /\ OnlyOf(w) /\ Cleared(w)
    BY <1>1, <1>2, <2>1, EndEffect DEF Shapes
  <2> QED
    BY <1>1, <2>2 DEF MergeDoes
<1>3. CASE Passes(w, "merge", "write") /\ ~Ends(w, "merge")
  <2> DEFINE old == record[draft[w].day]
             new == draft[w].n
  <2>1. old \in Nat \cup {NoRow} /\ new \in Nat
    BY DEF Shapes
  <2>2. /\ by' = by
        /\ draft' = IF old = NoRow \/ column \notin Counter THEN draft
                    ELSE [draft EXCEPT ![w].n = Merged(old, @)]
    BY <1>3 DEF Merge
  <2>3. old # NoRow => /\ Merged(old, new) \in {old, new}
                       /\ old <= Merged(old, new)
    BY <2>1 DEF Merged, Larger
  <2>4. PICK m \in Nat : /\ draft' = [draft EXCEPT ![w].n = m]
                         /\ m = new \/ (column \in Counter /\ old # NoRow /\ m = old)
                         /\ column \in Counter => AtMost(old, m)
    <3>1. CASE old = NoRow \/ column \notin Counter
      <4>1. draft' = [draft EXCEPT ![w].n = new]
        BY <2>2, <3>1 DEF Shapes
      <4> QED
        BY <2>1, <3>1, <4>1 DEF AtMost
    <3>2. CASE ~(old = NoRow \/ column \notin Counter)
      <4>1. draft' = [draft EXCEPT ![w].n = Merged(old, new)]
        BY <2>2, <3>2
      <4> QED
        BY <2>1, <2>3, <3>2, <4>1 DEF AtMost
    <3> QED
      BY <3>1, <3>2
  <2>5. /\ draft' \in [Writer -> [day: Day, n: Nat]]
        /\ draft'[w].day = draft[w].day /\ draft'[w].n = m
    BY <2>4 DEF Shapes
  <2>6. stage' \in [Writer -> Persisting \cup Trading \cup {"idle"}] /\ stage'[w] = "write"
    BY <1>3 DEF Passes, Shapes, Persisting
  <2>7. OnlyOf(w)
    BY <1>3, <2>2, <2>4 DEF Passes, OnlyOf, Shapes
  <2>8. \A v \in Writer : by'[v] # NoEngine <=> stage'[v] \in Persisting
    BY <1>1, <2>2, <2>6, <2>7, NoEngineAssumption DEF OnlyOf, Shapes, Persisting
  <2>9. stale' \subseteq {v \in Writer : stage'[v] \in {"write", "save"}}
    BY <1>1, <2>6, <2>7 DEF OnlyOf, Shapes
  <2>10. Shapes'
    BY <1>1, <2>2, <2>5, <2>6, <2>8, <2>9 DEF Aside, Shapes
  <2> HIDE DEF old, new
  <2> QED
    BY <1>1, <2>2, <2>4, <2>5, <2>6, <2>7, <2>10 DEF MergeDoes, old, new
<1> QED
  BY <1>2, <1>3 DEF Merge

LEMMA CommitEffect ==
    ASSUME Shapes, NEW w \in Writer, NEW n \in Nat, Commit(w, n) \/ RolledBack(w)
    PROVE  /\ record' \in [Day -> Nat \cup {NoRow}] /\ overtaken' \subseteq Engine
           /\ stale' \subseteq {v \in Writer : stage[v] \in {"write", "save"}} \ {w}
           /\ Spares(w) \/ Writes(w, n)
<1> USE DEF Shapes
<1>1. CASE RolledBack(w)
  BY <1>1 DEF RolledBack, Spares
<1>2. CASE Commit(w, n)
  <2>1. record' \in [Day -> Nat \cup {NoRow}]
    BY <1>2 DEF Commit
  <2>2. \A d \in Day : record'[d] = IF d = draft[w].day THEN n ELSE record[d]
    BY <1>2 DEF Commit
  <2>3. /\ Overtakes(w) \subseteq Engine
        /\ Overwrites(w) \subseteq {v \in Writer : stage[v] \in {"write", "save"}}
    BY DEF Overtakes, Overwrites
  <2> HIDE DEF Shapes
  <2>4. /\ \A v \in Writer \ {w} : v \in stale' <=> v \in stale \/ v \in Overwrites(w)
        /\ \A e \in Engine : e \in overtaken' <=> e \in overtaken \/ e \in Overtakes(w)
    BY <1>2 DEF Commit
  <2>5. /\ overtaken' \subseteq Engine
        /\ stale' \subseteq {v \in Writer : stage[v] \in {"write", "save"}} \ {w}
    BY <1>2, <2>3 DEF Commit, Shapes
  <2> QED
    BY <2>1, <2>2, <2>4, <2>5 DEF Writes
<1> QED
  BY <1>1, <1>2

LEMMA UpsertEffect ==
    ASSUME Shapes, NEW w \in Writer, Upsert(w)
    PROVE  Shapes' /\ UpsertDoes(w)
<1> DEFINE n == Upserted(draft[w].day, draft[w].n)
<1>1. n \in Nat
  BY DEF Upserted, Found, Shapes
<1>2. Ends(w, "write") /\ Aside /\ count' = count /\ (Commit(w, n) \/ RolledBack(w))
  BY DEF Upsert, OnlyWriter, Aside
<1>3. by[w] \in Engine
  BY <1>2 DEF Ends, Passes, Shapes, Persisting
<1> HIDE DEF n
<1>4. /\ record' \in [Day -> Nat \cup {NoRow}] /\ overtaken' \subseteq Engine
      /\ stale' \subseteq {v \in Writer : stage[v] \in {"write", "save"}} \ {w}
      /\ Spares(w) \/ Writes(w, n)
  BY <1>1, <1>2, CommitEffect
<1>5. Shapes' /\ OnlyOf(w) /\ Cleared(w) /\ stage[w] = "write"
  BY <1>2, <1>4, EndEffect
<1>6. n = IF column = "mark" THEN Found(draft[w].day) ELSE draft[w].n
  BY DEF n, Upserted
<1> QED
  BY <1>2, <1>3, <1>4, <1>5, <1>6 DEF UpsertDoes

LEMMA SaveEffect ==
    ASSUME Shapes, OwnColumn, NEW w \in Writer, SaveSteals(w)
    PROVE  Shapes' /\ SaveDoes(w)
<1>1. Ends(w, "save") /\ Aside /\ count' = count /\ (Commit(w, draft[w].n) \/ RolledBack(w))
  BY DEF SaveSteals, OnlyWriter, Aside
<1>2. draft[w].n \in Nat
  BY Numbers
<1>3. /\ record' \in [Day -> Nat \cup {NoRow}] /\ overtaken' \subseteq Engine
      /\ stale' \subseteq {v \in Writer : stage[v] \in {"write", "save"}} \ {w}
      /\ Spares(w) \/ Writes(w, draft[w].n)
  BY <1>1, <1>2, CommitEffect
<1>4. Shapes' /\ OnlyOf(w) /\ Cleared(w) /\ stage[w] = "save"
  BY <1>1, <1>3, EndEffect
<1>5. column = "game"
  BY <1>4 DEF OwnColumn
<1> QED
  BY <1>1, <1>3, <1>4, <1>5 DEF SaveDoes

LEMMA CountStealsEffect ==
    ASSUME Shapes, OwnColumn, NEW w \in Writer, CountSteals(w)
    PROVE  Shapes' /\ CountStealsDoes(w)
<1> USE DEF CountSteals, Passes, OnlyDraft, OnlyWriter, Shapes
<1>1. PICK n \in {0, done[today]} :
         /\ draft' = [draft EXCEPT ![w] = [day |-> today, n |-> n]]
         /\ stale' = IF n < done[today] THEN stale \cup {w} ELSE stale
  BY DEF Answer
<1>2. column = "game"
  BY DEF OwnColumn
<1>3. /\ draft' \in [Writer -> [day: Day, n: Nat]]
      /\ draft'[w].day = today /\ draft'[w].n = n
      /\ \A v \in Writer \ {w} : draft'[v] = draft[v]
  BY <1>1
<1>4. stage' \in [Writer -> Persisting \cup Trading \cup {"idle"}]
  BY DEF Persisting
<1>5. OnlyOf(w) /\ stage'[w] = "save"
  BY <1>3 DEF OnlyOf
<1>6. /\ draft'[w].n < done[today] => w \in stale'
      /\ \A v \in Writer \ {w} : v \in stale' <=> v \in stale
  BY <1>1, <1>3
<1>7. stale' \subseteq {v \in Writer : stage'[v] \in {"write", "save"}}
  BY <1>1, <1>5 DEF OnlyOf
<1>8. Shapes'
  BY <1>3, <1>4, <1>7 DEF Persisting
<1> QED
  BY <1>1, <1>2, <1>3, <1>5, <1>6, <1>8 DEF CountStealsDoes, Aside

LEMMA StartTradeEffect ==
    ASSUME Shapes, NEW w \in Writer, StartTrade(w)
    PROVE  Shapes' /\ StartTradeDoes(w)
<1> USE DEF StartTrade, Passes, OnlyWriter, Shapes
<1>1. /\ done' \in [Day -> Nat] /\ done'[today] = done[today] + 1
      /\ \A d \in Day \ {today} : done'[d] = done[d]
  BY SMTT(30)
<1>2. /\ draft' \in [Writer -> [day: Day, n: Nat]]
      /\ draft'[w].day = today /\ draft'[w].n = 1
      /\ \A v \in Writer \ {w} : draft'[v] = draft[v]
  OBVIOUS
<1>3. stage' \in [Writer -> Persisting \cup Trading \cup {"idle"}]
  BY DEF Trading
<1>4. Shapes'
  BY <1>1, <1>2, <1>3 DEF Persisting
<1> QED
  BY <1>1, <1>2, <1>4 DEF StartTradeDoes, OnlyOf

LEMMA FindRowEffect ==
    ASSUME Shapes, NEW w \in Writer, FindRow(w)
    PROVE  Shapes' /\ FindRowDoes(w)
<1> USE DEF FindRow, Passes, OnlyDraft, OnlyWriter, Shapes
<1>1. stage' \in [Writer -> Persisting \cup Trading \cup {"idle"}]
  BY DEF Trading
<1>2. Shapes'
  BY <1>1 DEF Persisting
<1> QED
  BY <1>2 DEF FindRowDoes, Aside, OnlyOf

LEMMA TradedEffect ==
    ASSUME Shapes, OwnColumn, NEW w \in Writer, SetTraded(w)
    PROVE  Shapes' /\ TradedDoes(w)
<1>1. PICK s \in {"insert", "update"} : Ends(w, s)
  BY DEF SetTraded
<1>2. Aside /\ UNCHANGED <<count, stale, overtaken>> /\ stage[w] = s
  BY <1>1 DEF SetTraded, OnlyDraft, OnlyWriter, Aside, Ends, Passes
<1>3. column = "mark" /\ draft[w].n = 1
  BY <1>2 DEF OwnColumn, Trading
<1>4. /\ record' \in [Day -> Nat \cup {NoRow}]
      /\ \/ UNCHANGED record
         \/ \A d \in Day : record'[d] = IF d = draft[w].day THEN 1 ELSE record[d]
  BY <1>3 DEF SetTraded, Shapes
<1>5. stale' \subseteq {v \in Writer : stage[v] \in {"write", "save"}} \ {w}
  BY <1>2 DEF Shapes
<1>6. overtaken' \subseteq Engine
  BY <1>2 DEF Shapes
<1>7. Shapes' /\ OnlyOf(w) /\ Cleared(w)
  BY <1>1, <1>2, <1>4, <1>5, <1>6, EndEffect
<1> QED
  BY <1>2, <1>3, <1>4, <1>7 DEF TradedDoes

LEMMA CancelEffect ==
    ASSUME Shapes, NEW w \in Writer, Cancelled(w)
    PROVE  Shapes' /\ CancelDoes(w)
<1>1. /\ Ends(w, stage[w]) /\ Aside /\ UNCHANGED <<count, record, overtaken>>
      /\ stale' = stale \ {w}
  BY DEF Cancelled, OnlyDraft, OnlyWriter, Aside
<1>2. /\ record' \in [Day -> Nat \cup {NoRow}] /\ overtaken' \subseteq Engine
      /\ stale' \subseteq {v \in Writer : stage[v] \in {"write", "save"}} \ {w}
  BY <1>1 DEF Shapes
<1>3. Shapes' /\ OnlyOf(w) /\ Cleared(w)
  BY <1>1, <1>2, EndEffect
<1> QED
  BY <1>1, <1>3 DEF CancelDoes, Spares

LEMMA StartEngineEffect ==
    ASSUME Shapes, NEW e \in Engine, StartEngine(e)
    PROVE  Shapes' /\ StartEngineDoes(e)
  BY DEF StartEngine, Shapes, StartEngineDoes, MemoryOf

LEMMA RestoreEffect ==
    ASSUME Shapes, NEW e \in Engine, Restore(e)
    PROVE  Shapes' /\ RestoreDoes(e)
<1> USE DEF Shapes
<1>1. UNCHANGED <<column, today, done, record, stage, by, draft, stale, overtaken>>
  BY DEF Restore
<1>2. Found(today) \in Nat /\ today \in Nat /\ count[e] \in Nat
  BY DayAssumption DEF Found, Day
<1>3. CASE memory' = [memory EXCEPT ![e] = "failed"] /\ UNCHANGED count
  BY <1>1, <1>3 DEF RestoreDoes, MemoryOf, CountsOf
<1>4. CASE /\ memory' = [memory EXCEPT ![e] = "restored"]
           /\ \E waters \in BOOLEAN :
                count' = [count EXCEPT ![e] = Restored(e, today, Found(today), waters)]
  <2>1. PICK waters \in BOOLEAN :
           count' = [count EXCEPT ![e] = Restored(e, today, Found(today), waters)]
    BY <1>4
  <2> DEFINE m == Restored(e, today, Found(today), waters)
  <2>2. /\ \/ m = count[e] /\ column # "memory"
           \/ m \in {count[e], Found(today)} /\ column \in {"memory", "mirror", "helped"}
           \/ m = today /\ column = "flag" /\ Found(today) = 1
        /\ column = "memory" => count[e] <= m /\ Found(today) <= m
        /\ column = "flag" => IF Found(today) = 1 THEN m = today ELSE m = count[e]
    BY <1>2 DEF Restored, Larger
  <2>3. m \in Nat
    BY <1>2, <2>2
  <2>4. count' = [count EXCEPT ![e] = m]
    BY <2>1
  <2> HIDE DEF m
  <2>5. count' \in [Engine -> Nat] /\ CountsOf(e) /\ count'[e] = m
    BY <2>3, <2>4 DEF CountsOf
  <2>6. /\ memory' \in [Engine -> {"gone", "new", "restored", "failed"}]
        /\ MemoryOf(e) /\ memory'[e] = "restored"
    BY <1>4 DEF MemoryOf
  <2>7. Shapes'
    BY <1>1, <2>5, <2>6
  <2> HIDE DEF Shapes
  <2> QED
    BY <1>1, <2>2, <2>5, <2>6, <2>7 DEF RestoreDoes
<1> QED
  BY <1>3, <1>4 DEF Restore

LEMMA ReleasedEffect ==
    ASSUME Shapes, NEW e \in Engine, Released(e)
    PROVE  Shapes' /\ ReleasedDoes(e)
<1>1. Shapes'
  BY DEF Released, Shapes
<1> QED
  BY <1>1 DEF Released, Shapes, ReleasedDoes, MemoryOf, CountsOf

LEMMA CrashEffect ==
    ASSUME Shapes, Crash
    PROVE  Shapes' /\ CrashDoes
<1>1. Shapes'
  BY DayAssumption DEF Crash, Shapes, NoDraft, Day, Persisting
<1> QED
  BY <1>1 DEF Crash, Shapes, CrashDoes, Cleared, NoDraft

LEMMA MidnightEffect ==
    ASSUME Shapes, Midnight
    PROVE  Shapes' /\ MidnightDoes
  BY DayAssumption DEF Midnight, Shapes, MidnightDoes, Day

\* The day after today is a day that nobody has written of.
LEMMA FreshDay ==
    ASSUME Shapes, Shapes', MidnightDoes
    PROVE  /\ today' \in Day /\ today' # 1
           /\ \A d \in Day : d <= today => d # today'
  BY DayAssumption DEF Shapes, MidnightDoes, Day

\* Every step is one of these.
DayStep ==
    \/ \E e \in Engine :
          CountDoes(e) \/ StartEngineDoes(e) \/ RestoreDoes(e) \/ ReleasedDoes(e)
    \/ \E w \in Writer :
          \/ BeginDoes(w) \/ RefreshDoes(w) \/ GatherDoes(w) \/ AskDoes(w) \/ MergeDoes(w)
          \/ UpsertDoes(w) \/ CountStealsDoes(w) \/ SaveDoes(w)
          \/ StartTradeDoes(w) \/ FindRowDoes(w) \/ TradedDoes(w) \/ CancelDoes(w)
    \/ CrashDoes \/ MidnightDoes
    \/ UNCHANGED dayVars

LEMMA StepEffect ==
    ASSUME Shapes, OwnColumn, [DayNext]_dayVars
    PROVE  Shapes' /\ DayStep
<1>1. ASSUME NEW e \in Engine,
             Work(e) \/ Poll(e) \/ CheckIn(e) \/ StartEngine(e) \/ Restore(e) \/ Released(e)
      PROVE  Shapes' /\ DayStep
  BY <1>1, CountEffect, StartEngineEffect, RestoreEffect, ReleasedEffect DEF DayStep
<1>2. ASSUME NEW w \in Writer, NEW e \in Engine,
             StartSync(w, e) \/ StartPersist(w, e) \/ StartSteals(w, e)
      PROVE  Shapes' /\ DayStep
  BY <1>2, BeginEffect DEF DayStep
<1>3. ASSUME NEW w \in Writer, Refresh(w) \/ Gather(w) \/ Ask(w) \/ Merge(w) \/ Upsert(w)
      PROVE  Shapes' /\ DayStep
  BY <1>3, RefreshEffect, GatherEffect, AskEffect, MergeEffect, UpsertEffect DEF DayStep
<1>4. ASSUME NEW w \in Writer,
             \/ CountSteals(w) \/ SaveSteals(w) \/ Cancelled(w)
             \/ StartTrade(w) \/ FindRow(w) \/ SetTraded(w)
      PROVE  Shapes' /\ DayStep
  BY <1>4, CountStealsEffect, SaveEffect, CancelEffect,
     StartTradeEffect, FindRowEffect, TradedEffect DEF DayStep
<1>5. CASE Crash \/ Midnight
  BY <1>5, CrashEffect, MidnightEffect DEF DayStep
<1>6. CASE UNCHANGED dayVars
  BY <1>6 DEF dayVars, engineVars, Shapes, DayStep
<1> QED
  BY <1>1, <1>2, <1>3, <1>4, <1>5, <1>6 DEF DayNext

-----------------------------------------------------------------------------
(* Each part of the invariant is kept. *)

LEMMA ColumnsStay ==
    ASSUME DayInv, [DayNext]_dayVars
    PROVE  OwnColumn'
<1> USE NoRowAssumption, NoEngineAssumption DEF DayInv, OwnColumn, Trading
<1>0. Shapes /\ DayStep
  BY StepEffect
<1>s. Shapes'
  BY StepEffect
<1>1. ASSUME NEW e \in Engine, CountDoes(e) PROVE OwnColumn'
  BY <1>0, <1>1, Numbers DEF CountDoes, CountsOf
<1>2. ASSUME NEW w \in Writer, BeginDoes(w) PROVE OwnColumn'
  BY <1>0, <1>2, Numbers DEF BeginDoes, Aside, OnlyOf, Cleared
<1>3. ASSUME NEW w \in Writer, RefreshDoes(w) PROVE OwnColumn'
  BY <1>0, <1>3, Numbers DEF RefreshDoes, CountsOf, Aside, OnlyOf, Cleared
<1>4. ASSUME NEW w \in Writer, GatherDoes(w) PROVE OwnColumn'
  BY <1>0, <1>4, Numbers DEF GatherDoes, Aside, OnlyOf, Cleared
<1>5. ASSUME NEW w \in Writer, AskDoes(w) PROVE OwnColumn'
  BY <1>0, <1>5, Numbers DEF AskDoes, Aside, OnlyOf, Cleared
<1>6. ASSUME NEW w \in Writer, MergeDoes(w) PROVE OwnColumn'
  BY <1>0, <1>6, Numbers DEF MergeDoes, Aside, OnlyOf, Cleared
<1>7. ASSUME NEW w \in Writer, UpsertDoes(w) PROVE OwnColumn'
  BY <1>0, <1>7, Numbers DEF UpsertDoes, Writes, Spares, Overwrites, Overtakes, Aside, OnlyOf, Cleared
<1>8. ASSUME NEW w \in Writer, CountStealsDoes(w) PROVE OwnColumn'
  BY <1>0, <1>8, Numbers DEF CountStealsDoes, Aside, OnlyOf, Cleared
<1>9. ASSUME NEW w \in Writer, SaveDoes(w) PROVE OwnColumn'
  BY <1>0, <1>9, Numbers DEF SaveDoes, Writes, Spares, Overwrites, Overtakes, Aside, OnlyOf, Cleared
<1>10. ASSUME NEW w \in Writer, StartTradeDoes(w) PROVE OwnColumn'
  BY <1>0, <1>10, Numbers DEF StartTradeDoes, Aside, OnlyOf, Cleared
<1>11. ASSUME NEW w \in Writer, FindRowDoes(w) PROVE OwnColumn'
  BY <1>0, <1>11, Numbers DEF FindRowDoes, Aside, OnlyOf, Cleared
<1>12. ASSUME NEW w \in Writer, TradedDoes(w) PROVE OwnColumn'
  BY <1>0, <1>12, Numbers DEF TradedDoes, Aside, OnlyOf, Cleared
<1>13. ASSUME NEW w \in Writer, CancelDoes(w) PROVE OwnColumn'
  BY <1>0, <1>13, Numbers DEF CancelDoes, Spares, Aside, OnlyOf, Cleared
<1>14. ASSUME NEW e \in Engine, StartEngineDoes(e) PROVE OwnColumn'
  BY <1>0, <1>14, Numbers DEF StartEngineDoes, MemoryOf
<1>15. ASSUME NEW e \in Engine, RestoreDoes(e) PROVE OwnColumn'
  BY <1>0, <1>15, Numbers DEF RestoreDoes, MemoryOf, CountsOf
<1>16. ASSUME NEW e \in Engine, ReleasedDoes(e) PROVE OwnColumn'
  BY <1>0, <1>16, Numbers DEF ReleasedDoes, MemoryOf, CountsOf
<1>17. CASE CrashDoes
  BY <1>0, <1>17, Numbers DEF CrashDoes, Cleared
<1>18. CASE MidnightDoes
  <2>1. /\ today' \in Day /\ today' # 1
        /\ \A d \in Day : d <= today => d # today'
    BY <1>s, <1>0, <1>18, FreshDay
  <2> QED
    BY <1>0, <1>18, <2>1, Numbers DEF MidnightDoes
<1>19. CASE UNCHANGED dayVars
  BY <1>19 DEF dayVars, engineVars
<1> QED
  BY <1>0, <1>1, <1>2, <1>3, <1>4, <1>5, <1>6, <1>7, <1>8, <1>9, <1>10, <1>11, <1>12, <1>13, <1>14, <1>15, <1>16, <1>17, <1>18, <1>19 DEF DayStep

LEMMA FutureStays ==
    ASSUME DayInv, [DayNext]_dayVars
    PROVE  NoFuture'
<1> USE NoRowAssumption, NoEngineAssumption DEF DayInv, NoFuture, Found
<1>0. Shapes /\ DayStep
  BY StepEffect
<1>s. Shapes'
  BY StepEffect
<1>1. ASSUME NEW e \in Engine, CountDoes(e) PROVE NoFuture'
  BY <1>0, <1>1, Numbers DEF CountDoes, CountsOf
<1>2. ASSUME NEW w \in Writer, BeginDoes(w) PROVE NoFuture'
  BY <1>0, <1>2, Numbers DEF BeginDoes, Aside, OnlyOf, Cleared
<1>3. ASSUME NEW w \in Writer, RefreshDoes(w) PROVE NoFuture'
  BY <1>0, <1>3, Numbers DEF RefreshDoes, CountsOf, Aside, OnlyOf, Cleared
<1>4. ASSUME NEW w \in Writer, GatherDoes(w) PROVE NoFuture'
  BY <1>0, <1>4, Numbers DEF GatherDoes, Aside, OnlyOf, Cleared
<1>5. ASSUME NEW w \in Writer, AskDoes(w) PROVE NoFuture'
  BY <1>0, <1>5, Numbers DEF AskDoes, Aside, OnlyOf, Cleared
<1>6. ASSUME NEW w \in Writer, MergeDoes(w) PROVE NoFuture'
  BY <1>0, <1>6, Numbers DEF MergeDoes, Aside, OnlyOf, Cleared
<1>7. ASSUME NEW w \in Writer, UpsertDoes(w) PROVE NoFuture'
  BY <1>0, <1>7, Numbers DEF UpsertDoes, Writes, Spares, Overwrites, Overtakes, Aside, OnlyOf, Cleared
<1>8. ASSUME NEW w \in Writer, CountStealsDoes(w) PROVE NoFuture'
  BY <1>0, <1>8, Numbers DEF CountStealsDoes, Aside, OnlyOf, Cleared
<1>9. ASSUME NEW w \in Writer, SaveDoes(w) PROVE NoFuture'
  BY <1>0, <1>9, Numbers DEF SaveDoes, Writes, Spares, Overwrites, Overtakes, Aside, OnlyOf, Cleared
<1>10. ASSUME NEW w \in Writer, StartTradeDoes(w) PROVE NoFuture'
  BY <1>0, <1>10, Numbers DEF StartTradeDoes, Aside, OnlyOf, Cleared
<1>11. ASSUME NEW w \in Writer, FindRowDoes(w) PROVE NoFuture'
  BY <1>0, <1>11, Numbers DEF FindRowDoes, Aside, OnlyOf, Cleared
<1>12. ASSUME NEW w \in Writer, TradedDoes(w) PROVE NoFuture'
  BY <1>0, <1>12, Numbers DEF TradedDoes, Aside, OnlyOf, Cleared
<1>13. ASSUME NEW w \in Writer, CancelDoes(w) PROVE NoFuture'
  BY <1>0, <1>13, Numbers DEF CancelDoes, Spares, Aside, OnlyOf, Cleared
<1>14. ASSUME NEW e \in Engine, StartEngineDoes(e) PROVE NoFuture'
  BY <1>0, <1>14, Numbers DEF StartEngineDoes, MemoryOf
<1>15. ASSUME NEW e \in Engine, RestoreDoes(e) PROVE NoFuture'
  BY <1>0, <1>15, Numbers DEF RestoreDoes, MemoryOf, CountsOf
<1>16. ASSUME NEW e \in Engine, ReleasedDoes(e) PROVE NoFuture'
  BY <1>0, <1>16, Numbers DEF ReleasedDoes, MemoryOf, CountsOf
<1>17. CASE CrashDoes
  BY <1>0, <1>17, Numbers DEF CrashDoes, Cleared
<1>18. CASE MidnightDoes
  <2>1. /\ today' \in Day /\ today' # 1
        /\ \A d \in Day : d <= today => d # today'
    BY <1>s, <1>0, <1>18, FreshDay
  <2> QED
    BY <1>0, <1>18, <2>1, Numbers DEF MidnightDoes
<1>19. CASE UNCHANGED dayVars
  BY <1>19 DEF dayVars, engineVars
<1> QED
  BY <1>0, <1>1, <1>2, <1>3, <1>4, <1>5, <1>6, <1>7, <1>8, <1>9, <1>10, <1>11, <1>12, <1>13, <1>14, <1>15, <1>16, <1>17, <1>18, <1>19 DEF DayStep

LEMMA FirstDayStays ==
    ASSUME DayInv, [DayNext]_dayVars
    PROVE  FirstDay'
<1> USE NoRowAssumption, NoEngineAssumption DEF DayInv, NoFuture, FirstDay, AtMost, Found
<1>0. Shapes /\ DayStep
  BY StepEffect
<1>s. Shapes'
  BY StepEffect
<1>1. ASSUME NEW e \in Engine, CountDoes(e) PROVE FirstDay'
  BY <1>0, <1>1, Numbers DEF CountDoes, CountsOf
<1>2. ASSUME NEW w \in Writer, BeginDoes(w) PROVE FirstDay'
  BY <1>0, <1>2, Numbers DEF BeginDoes, Aside, OnlyOf, Cleared
<1>3. ASSUME NEW w \in Writer, RefreshDoes(w) PROVE FirstDay'
  BY <1>0, <1>3, Numbers DEF RefreshDoes, CountsOf, Aside, OnlyOf, Cleared
<1>4. ASSUME NEW w \in Writer, GatherDoes(w) PROVE FirstDay'
  BY <1>0, <1>4, Numbers DEF GatherDoes, Aside, OnlyOf, Cleared
<1>5. ASSUME NEW w \in Writer, AskDoes(w) PROVE FirstDay'
  BY <1>0, <1>5, Numbers DEF AskDoes, Aside, OnlyOf, Cleared
<1>6. ASSUME NEW w \in Writer, MergeDoes(w) PROVE FirstDay'
  <2>1. today = 1 => draft[w].day = 1
    BY <1>0, Numbers
  <2> QED
    BY <1>0, <1>6, <2>1, Numbers DEF MergeDoes, Aside, OnlyOf, Cleared
<1>7. ASSUME NEW w \in Writer, UpsertDoes(w) PROVE FirstDay'
  BY <1>0, <1>7, Numbers DEF UpsertDoes, Writes, Spares, Overwrites, Overtakes, Aside, OnlyOf, Cleared
<1>8. ASSUME NEW w \in Writer, CountStealsDoes(w) PROVE FirstDay'
  BY <1>0, <1>8, Numbers DEF CountStealsDoes, Aside, OnlyOf, Cleared
<1>9. ASSUME NEW w \in Writer, SaveDoes(w) PROVE FirstDay'
  BY <1>0, <1>9, Numbers DEF SaveDoes, Writes, Spares, Overwrites, Overtakes, Aside, OnlyOf, Cleared
<1>10. ASSUME NEW w \in Writer, StartTradeDoes(w) PROVE FirstDay'
  BY <1>0, <1>10, Numbers DEF StartTradeDoes, Aside, OnlyOf, Cleared
<1>11. ASSUME NEW w \in Writer, FindRowDoes(w) PROVE FirstDay'
  BY <1>0, <1>11, Numbers DEF FindRowDoes, Aside, OnlyOf, Cleared
<1>12. ASSUME NEW w \in Writer, TradedDoes(w) PROVE FirstDay'
  BY <1>0, <1>12, Numbers DEF TradedDoes, Aside, OnlyOf, Cleared
<1>13. ASSUME NEW w \in Writer, CancelDoes(w) PROVE FirstDay'
  BY <1>0, <1>13, Numbers DEF CancelDoes, Spares, Aside, OnlyOf, Cleared
<1>14. ASSUME NEW e \in Engine, StartEngineDoes(e) PROVE FirstDay'
  BY <1>0, <1>14, Numbers DEF StartEngineDoes, MemoryOf
<1>15. ASSUME NEW e \in Engine, RestoreDoes(e) PROVE FirstDay'
  BY <1>0, <1>15, Numbers DEF RestoreDoes, MemoryOf, CountsOf
<1>16. ASSUME NEW e \in Engine, ReleasedDoes(e) PROVE FirstDay'
  BY <1>0, <1>16, Numbers DEF ReleasedDoes, MemoryOf, CountsOf
<1>17. CASE CrashDoes
  BY <1>0, <1>17, Numbers DEF CrashDoes, Cleared
<1>18. CASE MidnightDoes
  <2>1. /\ today' \in Day /\ today' # 1
        /\ \A d \in Day : d <= today => d # today'
    BY <1>s, <1>0, <1>18, FreshDay
  <2> QED
    BY <1>0, <1>18, <2>1, Numbers DEF MidnightDoes
<1>19. CASE UNCHANGED dayVars
  BY <1>19 DEF dayVars, engineVars
<1> QED
  BY <1>0, <1>1, <1>2, <1>3, <1>4, <1>5, <1>6, <1>7, <1>8, <1>9, <1>10, <1>11, <1>12, <1>13, <1>14, <1>15, <1>16, <1>17, <1>18, <1>19 DEF DayStep

LEMMA GameStays ==
    ASSUME DayInv, [DayNext]_dayVars
    PROVE  GameCounts'
<1> USE NoRowAssumption, NoEngineAssumption DEF DayInv, NoFuture, GameCounts, AtMost, Found
<1>0. Shapes /\ DayStep
  BY StepEffect
<1>s. Shapes'
  BY StepEffect
<1>1. ASSUME NEW e \in Engine, CountDoes(e) PROVE GameCounts'
  BY <1>0, <1>1, Numbers DEF CountDoes, CountsOf
<1>2. ASSUME NEW w \in Writer, BeginDoes(w) PROVE GameCounts'
  BY <1>0, <1>2, Numbers DEF BeginDoes, Aside, OnlyOf, Cleared
<1>3. ASSUME NEW w \in Writer, RefreshDoes(w) PROVE GameCounts'
  BY <1>0, <1>3, Numbers DEF RefreshDoes, CountsOf, Aside, OnlyOf, Cleared
<1>4. ASSUME NEW w \in Writer, GatherDoes(w) PROVE GameCounts'
  BY <1>0, <1>4, Numbers DEF GatherDoes, Aside, OnlyOf, Cleared
<1>5. ASSUME NEW w \in Writer, AskDoes(w) PROVE GameCounts'
  BY <1>0, <1>5, Numbers DEF AskDoes, Aside, OnlyOf, Cleared
<1>6. ASSUME NEW w \in Writer, MergeDoes(w) PROVE GameCounts'
  BY <1>0, <1>6, Numbers DEF MergeDoes, Aside, OnlyOf, Cleared
<1>7. ASSUME NEW w \in Writer, UpsertDoes(w) PROVE GameCounts'
  BY <1>0, <1>7, Numbers DEF UpsertDoes, Writes, Spares, Overwrites, Overtakes, Aside, OnlyOf, Cleared
<1>8. ASSUME NEW w \in Writer, CountStealsDoes(w) PROVE GameCounts'
  BY <1>0, <1>8, Numbers DEF CountStealsDoes, Aside, OnlyOf, Cleared
<1>9. ASSUME NEW w \in Writer, SaveDoes(w) PROVE GameCounts'
  BY <1>0, <1>9, Numbers DEF SaveDoes, Writes, Spares, Overwrites, Overtakes, Aside, OnlyOf, Cleared
<1>10. ASSUME NEW w \in Writer, StartTradeDoes(w) PROVE GameCounts'
  BY <1>0, <1>10, Numbers DEF StartTradeDoes, Aside, OnlyOf, Cleared
<1>11. ASSUME NEW w \in Writer, FindRowDoes(w) PROVE GameCounts'
  BY <1>0, <1>11, Numbers DEF FindRowDoes, Aside, OnlyOf, Cleared
<1>12. ASSUME NEW w \in Writer, TradedDoes(w) PROVE GameCounts'
  BY <1>0, <1>12, Numbers DEF TradedDoes, Aside, OnlyOf, Cleared
<1>13. ASSUME NEW w \in Writer, CancelDoes(w) PROVE GameCounts'
  BY <1>0, <1>13, Numbers DEF CancelDoes, Spares, Aside, OnlyOf, Cleared
<1>14. ASSUME NEW e \in Engine, StartEngineDoes(e) PROVE GameCounts'
  BY <1>0, <1>14, Numbers DEF StartEngineDoes, MemoryOf
<1>15. ASSUME NEW e \in Engine, RestoreDoes(e) PROVE GameCounts'
  BY <1>0, <1>15, Numbers DEF RestoreDoes, MemoryOf, CountsOf
<1>16. ASSUME NEW e \in Engine, ReleasedDoes(e) PROVE GameCounts'
  BY <1>0, <1>16, Numbers DEF ReleasedDoes, MemoryOf, CountsOf
<1>17. CASE CrashDoes
  BY <1>0, <1>17, Numbers DEF CrashDoes, Cleared
<1>18. CASE MidnightDoes
  <2>1. /\ today' \in Day /\ today' # 1
        /\ \A d \in Day : d <= today => d # today'
    BY <1>s, <1>0, <1>18, FreshDay
  <2> QED
    BY <1>0, <1>18, <2>1, Numbers DEF MidnightDoes
<1>19. CASE UNCHANGED dayVars
  BY <1>19 DEF dayVars, engineVars
<1> QED
  BY <1>0, <1>1, <1>2, <1>3, <1>4, <1>5, <1>6, <1>7, <1>8, <1>9, <1>10, <1>11, <1>12, <1>13, <1>14, <1>15, <1>16, <1>17, <1>18, <1>19 DEF DayStep

LEMMA MarkStays ==
    ASSUME DayInv, [DayNext]_dayVars
    PROVE  MarkIsOne'
<1> USE NoRowAssumption, NoEngineAssumption DEF DayInv, MarkIsOne, AtMost, Found
<1>0. Shapes /\ DayStep
  BY StepEffect
<1>s. Shapes'
  BY StepEffect
<1>1. ASSUME NEW e \in Engine, CountDoes(e) PROVE MarkIsOne'
  BY <1>0, <1>1, Numbers DEF CountDoes, CountsOf
<1>2. ASSUME NEW w \in Writer, BeginDoes(w) PROVE MarkIsOne'
  BY <1>0, <1>2, Numbers DEF BeginDoes, Aside, OnlyOf, Cleared
<1>3. ASSUME NEW w \in Writer, RefreshDoes(w) PROVE MarkIsOne'
  BY <1>0, <1>3, Numbers DEF RefreshDoes, CountsOf, Aside, OnlyOf, Cleared
<1>4. ASSUME NEW w \in Writer, GatherDoes(w) PROVE MarkIsOne'
  BY <1>0, <1>4, Numbers DEF GatherDoes, Aside, OnlyOf, Cleared
<1>5. ASSUME NEW w \in Writer, AskDoes(w) PROVE MarkIsOne'
  BY <1>0, <1>5, Numbers DEF AskDoes, Aside, OnlyOf, Cleared
<1>6. ASSUME NEW w \in Writer, MergeDoes(w) PROVE MarkIsOne'
  BY <1>0, <1>6, Numbers DEF MergeDoes, Aside, OnlyOf, Cleared
<1>7. ASSUME NEW w \in Writer, UpsertDoes(w) PROVE MarkIsOne'
  BY <1>0, <1>7, Numbers DEF UpsertDoes, Writes, Spares, Overwrites, Overtakes, Aside, OnlyOf, Cleared
<1>8. ASSUME NEW w \in Writer, CountStealsDoes(w) PROVE MarkIsOne'
  BY <1>0, <1>8, Numbers DEF CountStealsDoes, Aside, OnlyOf, Cleared
<1>9. ASSUME NEW w \in Writer, SaveDoes(w) PROVE MarkIsOne'
  BY <1>0, <1>9, Numbers DEF SaveDoes, Writes, Spares, Overwrites, Overtakes, Aside, OnlyOf, Cleared
<1>10. ASSUME NEW w \in Writer, StartTradeDoes(w) PROVE MarkIsOne'
  BY <1>0, <1>10, Numbers DEF StartTradeDoes, Aside, OnlyOf, Cleared
<1>11. ASSUME NEW w \in Writer, FindRowDoes(w) PROVE MarkIsOne'
  BY <1>0, <1>11, Numbers DEF FindRowDoes, Aside, OnlyOf, Cleared
<1>12. ASSUME NEW w \in Writer, TradedDoes(w) PROVE MarkIsOne'
  BY <1>0, <1>12, Numbers DEF TradedDoes, Aside, OnlyOf, Cleared
<1>13. ASSUME NEW w \in Writer, CancelDoes(w) PROVE MarkIsOne'
  BY <1>0, <1>13, Numbers DEF CancelDoes, Spares, Aside, OnlyOf, Cleared
<1>14. ASSUME NEW e \in Engine, StartEngineDoes(e) PROVE MarkIsOne'
  BY <1>0, <1>14, Numbers DEF StartEngineDoes, MemoryOf
<1>15. ASSUME NEW e \in Engine, RestoreDoes(e) PROVE MarkIsOne'
  BY <1>0, <1>15, Numbers DEF RestoreDoes, MemoryOf, CountsOf
<1>16. ASSUME NEW e \in Engine, ReleasedDoes(e) PROVE MarkIsOne'
  BY <1>0, <1>16, Numbers DEF ReleasedDoes, MemoryOf, CountsOf
<1>17. CASE CrashDoes
  BY <1>0, <1>17, Numbers DEF CrashDoes, Cleared
<1>18. CASE MidnightDoes
  <2>1. /\ today' \in Day /\ today' # 1
        /\ \A d \in Day : d <= today => d # today'
    BY <1>s, <1>0, <1>18, FreshDay
  <2> QED
    BY <1>0, <1>18, <2>1, Numbers DEF MidnightDoes
<1>19. CASE UNCHANGED dayVars
  BY <1>19 DEF dayVars, engineVars
<1> QED
  BY <1>0, <1>1, <1>2, <1>3, <1>4, <1>5, <1>6, <1>7, <1>8, <1>9, <1>10, <1>11, <1>12, <1>13, <1>14, <1>15, <1>16, <1>17, <1>18, <1>19 DEF DayStep

LEMMA CoverStays ==
    ASSUME DayInv, [DayNext]_dayVars
    PROVE  DraftsCover'
<1> USE NoRowAssumption, NoEngineAssumption DEF DayInv, GameCounts, DraftsCover, AtMost, Found, Counter
<1>0. Shapes /\ DayStep
  BY StepEffect
<1>s. Shapes'
  BY StepEffect
<1>1. ASSUME NEW e \in Engine, CountDoes(e) PROVE DraftsCover'
  BY <1>0, <1>1, Numbers DEF CountDoes, CountsOf
<1>2. ASSUME NEW w \in Writer, BeginDoes(w) PROVE DraftsCover'
  BY <1>0, <1>2, Numbers DEF BeginDoes, Aside, OnlyOf, Cleared
<1>3. ASSUME NEW w \in Writer, RefreshDoes(w) PROVE DraftsCover'
  BY <1>0, <1>3, Numbers DEF RefreshDoes, CountsOf, Aside, OnlyOf, Cleared
<1>4. ASSUME NEW w \in Writer, GatherDoes(w) PROVE DraftsCover'
  BY <1>0, <1>4, Numbers DEF GatherDoes, Aside, OnlyOf, Cleared
<1>5. ASSUME NEW w \in Writer, AskDoes(w) PROVE DraftsCover'
  BY <1>0, <1>5, Numbers DEF AskDoes, Aside, OnlyOf, Cleared
<1>6. ASSUME NEW w \in Writer, MergeDoes(w) PROVE DraftsCover'
  BY <1>0, <1>6, Numbers DEF MergeDoes, Aside, OnlyOf, Cleared
<1>7. ASSUME NEW w \in Writer, UpsertDoes(w) PROVE DraftsCover'
  BY <1>0, <1>7, Numbers DEF UpsertDoes, Writes, Spares, Overwrites, Overtakes, Aside, OnlyOf, Cleared
<1>8. ASSUME NEW w \in Writer, CountStealsDoes(w) PROVE DraftsCover'
  BY <1>0, <1>8, Numbers DEF CountStealsDoes, Aside, OnlyOf, Cleared
<1>9. ASSUME NEW w \in Writer, SaveDoes(w) PROVE DraftsCover'
  BY <1>0, <1>9, Numbers DEF SaveDoes, Writes, Spares, Overwrites, Overtakes, Aside, OnlyOf, Cleared
<1>10. ASSUME NEW w \in Writer, StartTradeDoes(w) PROVE DraftsCover'
  BY <1>0, <1>10, Numbers DEF StartTradeDoes, Aside, OnlyOf, Cleared
<1>11. ASSUME NEW w \in Writer, FindRowDoes(w) PROVE DraftsCover'
  BY <1>0, <1>11, Numbers DEF FindRowDoes, Aside, OnlyOf, Cleared
<1>12. ASSUME NEW w \in Writer, TradedDoes(w) PROVE DraftsCover'
  BY <1>0, <1>12, Numbers DEF TradedDoes, Aside, OnlyOf, Cleared
<1>13. ASSUME NEW w \in Writer, CancelDoes(w) PROVE DraftsCover'
  BY <1>0, <1>13, Numbers DEF CancelDoes, Spares, Aside, OnlyOf, Cleared
<1>14. ASSUME NEW e \in Engine, StartEngineDoes(e) PROVE DraftsCover'
  BY <1>0, <1>14, Numbers DEF StartEngineDoes, MemoryOf
<1>15. ASSUME NEW e \in Engine, RestoreDoes(e) PROVE DraftsCover'
  BY <1>0, <1>15, Numbers DEF RestoreDoes, MemoryOf, CountsOf
<1>16. ASSUME NEW e \in Engine, ReleasedDoes(e) PROVE DraftsCover'
  BY <1>0, <1>16, Numbers DEF ReleasedDoes, MemoryOf, CountsOf
<1>17. CASE CrashDoes
  BY <1>0, <1>17, Numbers DEF CrashDoes, Cleared
<1>18. CASE MidnightDoes
  <2>1. /\ today' \in Day /\ today' # 1
        /\ \A d \in Day : d <= today => d # today'
    BY <1>s, <1>0, <1>18, FreshDay
  <2> QED
    BY <1>0, <1>18, <2>1, Numbers DEF MidnightDoes
<1>19. CASE UNCHANGED dayVars
  BY <1>19 DEF dayVars, engineVars
<1> QED
  BY <1>0, <1>1, <1>2, <1>3, <1>4, <1>5, <1>6, <1>7, <1>8, <1>9, <1>10, <1>11, <1>12, <1>13, <1>14, <1>15, <1>16, <1>17, <1>18, <1>19 DEF DayStep

LEMMA DaySteps == DayInv /\ [DayNext]_dayVars => DayInv'
<1>1. DayInv /\ [DayNext]_dayVars => Shapes'
  BY StepEffect DEF DayInv
<1> QED
  BY <1>1, ColumnsStay, FutureStays, FirstDayStays, GameStays, MarkStays, CoverStays
     DEF DayInv

LEMMA DayInvHolds == DaySpec => []DayInv
  BY DayStarts, DaySteps, PTL DEF DaySpec

\* Nothing is counted twice before the first midnight.
THEOREM RecordIsTrue == DaySpec => []RecordedWasDone
<1>1. DayInv => RecordedWasDone
  BY NoRowAssumption DEF DayInv, FirstDay, RecordedWasDone, AtMost
<1> QED
  BY DayInvHolds, <1>1, PTL

\* A row is written by two steps of the engine's writers and one of the
\* scheduler's.
LEMMA RecordMoves ==
    ASSUME DayStep
    PROVE  \/ UNCHANGED record
           \/ \E w \in Writer : UpsertDoes(w) \/ SaveDoes(w) \/ TradedDoes(w)
  BY DEF DayStep, dayVars, CountDoes, StartEngineDoes, RestoreDoes, ReleasedDoes,
         BeginDoes, RefreshDoes, GatherDoes, AskDoes, MergeDoes, CountStealsDoes,
         StartTradeDoes, FindRowDoes, CancelDoes, Spares, CrashDoes, MidnightDoes

\* What a row says of the work of a day never becomes less but through a
\* writer whose value is out of date; the mark of a trade never at all.
THEOREM RecordIsKept == DaySpec => RecordNeverShrinks
<1>1. ASSUME DayInv, [DayNext]_dayVars, NEW d \in Day,
             record[d] # NoRow, column # "flag",
             ~(column # "mark" /\ \E w \in stale : stage'[w] = "idle")
      PROVE  record'[d] # NoRow /\ record'[d] >= record[d]
  <2>1. Shapes /\ MarkIsOne /\ DraftsCover /\ column \in Column /\ DayStep
    BY <1>1, StepEffect DEF DayInv, Shapes
  <2>2. record[d] \in Nat
    BY <1>1, <2>1, Numbers
  <2>3. CASE UNCHANGED record
    BY <1>1, <2>2, <2>3
  <2>4. ASSUME NEW w \in Writer, UpsertDoes(w)
        PROVE  record'[d] # NoRow /\ record'[d] >= record[d]
    <3>1. draft[w].n \in Nat
      BY <2>1, Numbers
    <3>2. column = "mark" \/ (column \in Counter /\ w \notin stale)
      BY <1>1, <2>1, <2>4 DEF Column, Counter, UpsertDoes, Cleared
    <3> QED
      BY <1>1, <2>1, <2>2, <2>4, <3>1, <3>2, NoRowAssumption
         DEF UpsertDoes, Writes, Spares, DraftsCover, AtMost, Found
  <2>5. ASSUME NEW w \in Writer, SaveDoes(w)
        PROVE  record'[d] # NoRow /\ record'[d] >= record[d]
    <3>1. draft[w].n \in Nat
      BY <2>1, Numbers
    <3>2. column = "game" /\ column \in Counter /\ w \notin stale
      BY <1>1, <2>5 DEF SaveDoes, Counter, Cleared
    <3> QED
      BY <1>1, <2>1, <2>2, <2>5, <3>1, <3>2, NoRowAssumption
         DEF SaveDoes, Writes, Spares, DraftsCover, AtMost
  <2>6. ASSUME NEW w \in Writer, TradedDoes(w)
        PROVE  record'[d] # NoRow /\ record'[d] >= record[d]
    BY <1>1, <2>1, <2>2, <2>6, NoRowAssumption DEF TradedDoes, MarkIsOne, AtMost
  <2> QED
    BY <2>1, <2>3, <2>4, <2>5, <2>6, RecordMoves
<1>2. DayInv /\ [DayNext]_dayVars =>
        [\A d \in Day : record[d] # NoRow /\ column # "flag" =>
            \/ record'[d] # NoRow /\ record'[d] >= record[d]
            \/ column # "mark" /\ \E w \in stale : stage'[w] = "idle"]_dayVars
  BY <1>1
<1> QED
  BY DayInvHolds, <1>2, PTL DEF DaySpec, RecordNeverShrinks

-----------------------------------------------------------------------------
(* Restarts.  While a value is on its way to the row, the memory of its     *)
(* engine covers it, or the value is the row's own, merged before the state *)
(* was restored; that ends when another engine writes in between.           *)

MemoryCovers ==
    column = "memory" => \A w \in Writer :
        /\ stage[w] \in {"ask", "merge"} => draft[w].n <= count[by[w]]
        /\ stage[w] = "write" /\ draft[w].day = today /\ by[w] \notin overtaken =>
              \/ draft[w].n <= count[by[w]] /\ Found(today) <= count[by[w]]
              \/ draft[w].n = Found(today)

\* The flag is only written of a check-in that the writer's engine knows of.
FlagCovers ==
    column = "flag" => \A w \in Writer :
        draft[w].n # 0 /\ draft[w].day = today => draft[w].n = 1 /\ count[by[w]] = today

RestartInv == DayInv /\ MemoryCovers /\ FlagCovers /\ RestartRemembers

\* A writer that holds a value, or is about to, of a column of the engine's
\* own writes for one of the engines.
LEMMA WriterEngine ==
    ASSUME Shapes, NEW w \in Writer
    PROVE  /\ stage[w] \in {"ask", "merge", "write"} => by[w] \in Engine
           /\ OwnColumn /\ column = "flag" /\ draft[w].n # 0 => by[w] \in Engine
  BY DEF Shapes, OwnColumn, Persisting, Trading

LEMMA MemoryStays ==
    ASSUME DayInv, MemoryCovers, [DayNext]_dayVars
    PROVE  MemoryCovers'
<1> USE NoRowAssumption, NoEngineAssumption DEF DayInv, NoFuture, AtMost, Found, Counter, MemoryCovers
<1>0. Shapes /\ DayStep
  BY StepEffect
<1>s. Shapes'
  BY StepEffect
<1>1. ASSUME NEW e \in Engine, CountDoes(e) PROVE MemoryCovers'
  BY <1>0, <1>1, Numbers, WriterEngine DEF CountDoes, CountsOf
<1>2. ASSUME NEW w \in Writer, BeginDoes(w) PROVE MemoryCovers'
  BY <1>0, <1>2, Numbers, WriterEngine DEF BeginDoes, Aside, OnlyOf, Cleared
<1>3. ASSUME NEW w \in Writer, RefreshDoes(w) PROVE MemoryCovers'
  BY <1>0, <1>3, Numbers, WriterEngine DEF RefreshDoes, CountsOf, Aside, OnlyOf, Cleared
<1>4. ASSUME NEW w \in Writer, GatherDoes(w) PROVE MemoryCovers'
  BY <1>0, <1>4, Numbers, WriterEngine DEF GatherDoes, Aside, OnlyOf, Cleared
<1>5. ASSUME NEW w \in Writer, AskDoes(w) PROVE MemoryCovers'
  BY <1>0, <1>5, Numbers, WriterEngine DEF AskDoes, Aside, OnlyOf, Cleared
<1>6. ASSUME NEW w \in Writer, MergeDoes(w) PROVE MemoryCovers'
  BY <1>0, <1>6, Numbers, WriterEngine DEF MergeDoes, Aside, OnlyOf, Cleared
<1>7. ASSUME NEW w \in Writer, UpsertDoes(w) PROVE MemoryCovers'
  BY <1>0, <1>7, Numbers, WriterEngine DEF UpsertDoes, Writes, Spares, Overwrites, Overtakes, Aside, OnlyOf, Cleared
<1>8. ASSUME NEW w \in Writer, CountStealsDoes(w) PROVE MemoryCovers'
  BY <1>0, <1>8, Numbers, WriterEngine DEF CountStealsDoes, Aside, OnlyOf, Cleared
<1>9. ASSUME NEW w \in Writer, SaveDoes(w) PROVE MemoryCovers'
  BY <1>0, <1>9, Numbers, WriterEngine DEF SaveDoes, Writes, Spares, Overwrites, Overtakes, Aside, OnlyOf, Cleared
<1>10. ASSUME NEW w \in Writer, StartTradeDoes(w) PROVE MemoryCovers'
  BY <1>0, <1>10, Numbers, WriterEngine DEF StartTradeDoes, Aside, OnlyOf, Cleared
<1>11. ASSUME NEW w \in Writer, FindRowDoes(w) PROVE MemoryCovers'
  BY <1>0, <1>11, Numbers, WriterEngine DEF FindRowDoes, Aside, OnlyOf, Cleared
<1>12. ASSUME NEW w \in Writer, TradedDoes(w) PROVE MemoryCovers'
  BY <1>0, <1>12, Numbers, WriterEngine DEF TradedDoes, Aside, OnlyOf, Cleared
<1>13. ASSUME NEW w \in Writer, CancelDoes(w) PROVE MemoryCovers'
  BY <1>0, <1>13, Numbers, WriterEngine DEF CancelDoes, Spares, Aside, OnlyOf, Cleared
<1>14. ASSUME NEW e \in Engine, StartEngineDoes(e) PROVE MemoryCovers'
  BY <1>0, <1>14, Numbers, WriterEngine DEF StartEngineDoes, MemoryOf
<1>15. ASSUME NEW e \in Engine, RestoreDoes(e) PROVE MemoryCovers'
  BY <1>0, <1>15, Numbers, WriterEngine DEF RestoreDoes, MemoryOf, CountsOf
<1>16. ASSUME NEW e \in Engine, ReleasedDoes(e) PROVE MemoryCovers'
  BY <1>0, <1>16, Numbers, WriterEngine DEF ReleasedDoes, MemoryOf, CountsOf
<1>17. CASE CrashDoes
  BY <1>0, <1>17, Numbers, WriterEngine DEF CrashDoes, Cleared
<1>18. CASE MidnightDoes
  <2>1. /\ today' \in Day /\ today' # 1
        /\ \A d \in Day : d <= today => d # today'
    BY <1>s, <1>0, <1>18, FreshDay
  <2> QED
    BY <1>0, <1>18, <2>1, Numbers, WriterEngine DEF MidnightDoes
<1>19. CASE UNCHANGED dayVars
  BY <1>19 DEF dayVars, engineVars
<1> QED
  BY <1>0, <1>1, <1>2, <1>3, <1>4, <1>5, <1>6, <1>7, <1>8, <1>9, <1>10, <1>11, <1>12, <1>13, <1>14, <1>15, <1>16, <1>17, <1>18, <1>19 DEF DayStep

LEMMA FlagStays ==
    ASSUME DayInv, FlagCovers, [DayNext]_dayVars
    PROVE  FlagCovers'
<1> USE NoRowAssumption, NoEngineAssumption DEF DayInv, NoFuture, AtMost, Found, Counter, FlagCovers
<1>0. Shapes /\ DayStep
  BY StepEffect
<1>s. Shapes'
  BY StepEffect
<1>1. ASSUME NEW e \in Engine, CountDoes(e) PROVE FlagCovers'
  BY <1>0, <1>1, Numbers, WriterEngine DEF CountDoes, CountsOf
<1>2. ASSUME NEW w \in Writer, BeginDoes(w) PROVE FlagCovers'
  BY <1>0, <1>2, Numbers, WriterEngine DEF BeginDoes, Aside, OnlyOf, Cleared
<1>3. ASSUME NEW w \in Writer, RefreshDoes(w) PROVE FlagCovers'
  BY <1>0, <1>3, Numbers, WriterEngine DEF RefreshDoes, CountsOf, Aside, OnlyOf, Cleared
<1>4. ASSUME NEW w \in Writer, GatherDoes(w) PROVE FlagCovers'
  BY <1>0, <1>4, Numbers, WriterEngine DEF GatherDoes, Aside, OnlyOf, Cleared
<1>5. ASSUME NEW w \in Writer, AskDoes(w) PROVE FlagCovers'
  BY <1>0, <1>5, Numbers, WriterEngine DEF AskDoes, Aside, OnlyOf, Cleared
<1>6. ASSUME NEW w \in Writer, MergeDoes(w) PROVE FlagCovers'
  BY <1>0, <1>6, Numbers, WriterEngine DEF MergeDoes, Aside, OnlyOf, Cleared
<1>7. ASSUME NEW w \in Writer, UpsertDoes(w) PROVE FlagCovers'
  BY <1>0, <1>7, Numbers, WriterEngine DEF UpsertDoes, Writes, Spares, Overwrites, Overtakes, Aside, OnlyOf, Cleared
<1>8. ASSUME NEW w \in Writer, CountStealsDoes(w) PROVE FlagCovers'
  BY <1>0, <1>8, Numbers, WriterEngine DEF CountStealsDoes, Aside, OnlyOf, Cleared
<1>9. ASSUME NEW w \in Writer, SaveDoes(w) PROVE FlagCovers'
  BY <1>0, <1>9, Numbers, WriterEngine DEF SaveDoes, Writes, Spares, Overwrites, Overtakes, Aside, OnlyOf, Cleared
<1>10. ASSUME NEW w \in Writer, StartTradeDoes(w) PROVE FlagCovers'
  BY <1>0, <1>10, Numbers, WriterEngine DEF StartTradeDoes, Aside, OnlyOf, Cleared
<1>11. ASSUME NEW w \in Writer, FindRowDoes(w) PROVE FlagCovers'
  BY <1>0, <1>11, Numbers, WriterEngine DEF FindRowDoes, Aside, OnlyOf, Cleared
<1>12. ASSUME NEW w \in Writer, TradedDoes(w) PROVE FlagCovers'
  BY <1>0, <1>12, Numbers, WriterEngine DEF TradedDoes, Aside, OnlyOf, Cleared
<1>13. ASSUME NEW w \in Writer, CancelDoes(w) PROVE FlagCovers'
  BY <1>0, <1>13, Numbers, WriterEngine DEF CancelDoes, Spares, Aside, OnlyOf, Cleared
<1>14. ASSUME NEW e \in Engine, StartEngineDoes(e) PROVE FlagCovers'
  BY <1>0, <1>14, Numbers, WriterEngine DEF StartEngineDoes, MemoryOf
<1>15. ASSUME NEW e \in Engine, RestoreDoes(e) PROVE FlagCovers'
  BY <1>0, <1>15, Numbers, WriterEngine DEF RestoreDoes, MemoryOf, CountsOf
<1>16. ASSUME NEW e \in Engine, ReleasedDoes(e) PROVE FlagCovers'
  BY <1>0, <1>16, Numbers, WriterEngine DEF ReleasedDoes, MemoryOf, CountsOf
<1>17. CASE CrashDoes
  BY <1>0, <1>17, Numbers, WriterEngine DEF CrashDoes, Cleared
<1>18. CASE MidnightDoes
  <2>1. /\ today' \in Day /\ today' # 1
        /\ \A d \in Day : d <= today => d # today'
    BY <1>s, <1>0, <1>18, FreshDay
  <2> QED
    BY <1>0, <1>18, <2>1, Numbers, WriterEngine DEF MidnightDoes
<1>19. CASE UNCHANGED dayVars
  BY <1>19 DEF dayVars, engineVars
<1> QED
  BY <1>0, <1>1, <1>2, <1>3, <1>4, <1>5, <1>6, <1>7, <1>8, <1>9, <1>10, <1>11, <1>12, <1>13, <1>14, <1>15, <1>16, <1>17, <1>18, <1>19 DEF DayStep

LEMMA RemembersStays ==
    ASSUME RestartInv, [DayNext]_dayVars
    PROVE  RestartRemembers'
<1> USE NoRowAssumption, NoEngineAssumption DEF DayInv, NoFuture, AtMost, Found, RestartInv, MemoryCovers, FlagCovers, RestartRemembers
<1>0. Shapes /\ DayStep
  BY StepEffect
<1>s. Shapes'
  BY StepEffect
<1>1. ASSUME NEW e \in Engine, CountDoes(e) PROVE RestartRemembers'
  BY <1>0, <1>1, Numbers, WriterEngine DEF CountDoes, CountsOf
<1>2. ASSUME NEW w \in Writer, BeginDoes(w) PROVE RestartRemembers'
  BY <1>0, <1>2, Numbers, WriterEngine DEF BeginDoes, Aside, OnlyOf, Cleared
<1>3. ASSUME NEW w \in Writer, RefreshDoes(w) PROVE RestartRemembers'
  BY <1>0, <1>3, Numbers, WriterEngine DEF RefreshDoes, CountsOf, Aside, OnlyOf, Cleared
<1>4. ASSUME NEW w \in Writer, GatherDoes(w) PROVE RestartRemembers'
  BY <1>0, <1>4, Numbers, WriterEngine DEF GatherDoes, Aside, OnlyOf, Cleared
<1>5. ASSUME NEW w \in Writer, AskDoes(w) PROVE RestartRemembers'
  BY <1>0, <1>5, Numbers, WriterEngine DEF AskDoes, Aside, OnlyOf, Cleared
<1>6. ASSUME NEW w \in Writer, MergeDoes(w) PROVE RestartRemembers'
  BY <1>0, <1>6, Numbers, WriterEngine DEF MergeDoes, Aside, OnlyOf, Cleared
<1>7. ASSUME NEW w \in Writer, UpsertDoes(w) PROVE RestartRemembers'
  BY <1>0, <1>7, Numbers, WriterEngine DEF UpsertDoes, Writes, Spares, Overwrites, Overtakes, Aside, OnlyOf, Cleared
<1>8. ASSUME NEW w \in Writer, CountStealsDoes(w) PROVE RestartRemembers'
  BY <1>0, <1>8, Numbers, WriterEngine DEF CountStealsDoes, Aside, OnlyOf, Cleared
<1>9. ASSUME NEW w \in Writer, SaveDoes(w) PROVE RestartRemembers'
  BY <1>0, <1>9, Numbers, WriterEngine DEF SaveDoes, Writes, Spares, Overwrites, Overtakes, Aside, OnlyOf, Cleared
<1>10. ASSUME NEW w \in Writer, StartTradeDoes(w) PROVE RestartRemembers'
  BY <1>0, <1>10, Numbers, WriterEngine DEF StartTradeDoes, Aside, OnlyOf, Cleared
<1>11. ASSUME NEW w \in Writer, FindRowDoes(w) PROVE RestartRemembers'
  BY <1>0, <1>11, Numbers, WriterEngine DEF FindRowDoes, Aside, OnlyOf, Cleared
<1>12. ASSUME NEW w \in Writer, TradedDoes(w) PROVE RestartRemembers'
  BY <1>0, <1>12, Numbers, WriterEngine DEF TradedDoes, Aside, OnlyOf, Cleared
<1>13. ASSUME NEW w \in Writer, CancelDoes(w) PROVE RestartRemembers'
  BY <1>0, <1>13, Numbers, WriterEngine DEF CancelDoes, Spares, Aside, OnlyOf, Cleared
<1>14. ASSUME NEW e \in Engine, StartEngineDoes(e) PROVE RestartRemembers'
  BY <1>0, <1>14, Numbers, WriterEngine DEF StartEngineDoes, MemoryOf
<1>15. ASSUME NEW e \in Engine, RestoreDoes(e) PROVE RestartRemembers'
  BY <1>0, <1>15, Numbers, WriterEngine DEF RestoreDoes, MemoryOf, CountsOf
<1>16. ASSUME NEW e \in Engine, ReleasedDoes(e) PROVE RestartRemembers'
  BY <1>0, <1>16, Numbers, WriterEngine DEF ReleasedDoes, MemoryOf, CountsOf
<1>17. CASE CrashDoes
  BY <1>0, <1>17, Numbers, WriterEngine DEF CrashDoes, Cleared
<1>18. CASE MidnightDoes
  <2>1. /\ today' \in Day /\ today' # 1
        /\ \A d \in Day : d <= today => d # today'
    BY <1>s, <1>0, <1>18, FreshDay
  <2>2. today' = today + 1 /\ today \in Nat /\ record' = record
    BY <1>0, <1>18 DEF MidnightDoes, Shapes, Day
  <2>3. record'[today'] = NoRow
    BY <2>1, <2>2 DEF Shapes
  <2> QED
    BY <2>3
<1>19. CASE UNCHANGED dayVars
  BY <1>19 DEF dayVars, engineVars
<1> QED
  BY <1>0, <1>1, <1>2, <1>3, <1>4, <1>5, <1>6, <1>7, <1>8, <1>9, <1>10, <1>11, <1>12, <1>13, <1>14, <1>15, <1>16, <1>17, <1>18, <1>19 DEF DayStep

LEMMA RestartStarts == DayInit => RestartInv
<1> SUFFICES ASSUME DayInit PROVE RestartInv
  OBVIOUS
<1>1. MemoryCovers /\ FlagCovers /\ RestartRemembers
  BY DEF DayInit, NoDraft, MemoryCovers, FlagCovers, RestartRemembers
<1> QED
  BY <1>1, DayStarts DEF RestartInv

LEMMA RestartSteps == RestartInv /\ [DayNext]_dayVars => RestartInv'
  BY DaySteps, MemoryStays, FlagStays, RemembersStays DEF RestartInv

\* Once an engine's _restore_daily_state() has run without a failure, its memory
\* covers what the row of today says, however many engines of the account were
\* started or still go on, whatever was being written when the process ended or
\* the loops were cancelled, and whichever writers of it overlap, until a writer
\* of another engine writes today's row.
THEOREM RestartCorrect == DaySpec => []RestartRemembers
<1>1. RestartInv => RestartRemembers
  BY DEF RestartInv
<1> QED
  BY RestartStarts, RestartSteps, <1>1, PTL DEF DaySpec

-----------------------------------------------------------------------------
(* The types: nothing exceeds what can be done in all the days. *)

Ceiling == Days * MaxCount

LEMMA CeilingSuffices == Ceiling \in Nat /\ Days <= Ceiling /\ MaxCount <= Ceiling
<1>1. \A m, n \in Nat \ {0} : m * n \in Nat /\ m <= m * n /\ n <= m * n
  OBVIOUS
<1> QED
  BY <1>1, DayAssumption DEF Ceiling

Bounded ==
    /\ \A d \in Day : done[d] <= MaxCount /\ AtMost(record[d], Ceiling)
    /\ \A e \in Engine : count[e] <= Ceiling
    /\ \A w \in Writer : draft[w].n <= Ceiling

LEMMA BoundsStay ==
    ASSUME DayInv, Bounded, [DayNext]_dayVars
    PROVE  Bounded'
<1> USE NoRowAssumption, NoEngineAssumption DEF DayInv, AtMost, Found, Bounded
<1>0. Shapes /\ DayStep
  BY StepEffect
<1>s. Shapes'
  BY StepEffect
<1>1. ASSUME NEW e \in Engine, CountDoes(e) PROVE Bounded'
  BY <1>0, <1>1, Numbers, CeilingSuffices, DayAssumption DEF CountDoes, CountsOf, Ceiling, Day
<1>2. ASSUME NEW w \in Writer, BeginDoes(w) PROVE Bounded'
  BY <1>0, <1>2, Numbers, CeilingSuffices, DayAssumption DEF BeginDoes, Aside, OnlyOf, Cleared
<1>3. ASSUME NEW w \in Writer, RefreshDoes(w) PROVE Bounded'
  BY <1>0, <1>3, Numbers, CeilingSuffices, DayAssumption DEF RefreshDoes, CountsOf, Aside, OnlyOf, Cleared
<1>4. ASSUME NEW w \in Writer, GatherDoes(w) PROVE Bounded'
  BY <1>0, <1>4, Numbers, CeilingSuffices, DayAssumption DEF GatherDoes, Aside, OnlyOf, Cleared
<1>5. ASSUME NEW w \in Writer, AskDoes(w) PROVE Bounded'
  BY <1>0, <1>5, Numbers, CeilingSuffices, DayAssumption DEF AskDoes, Aside, OnlyOf, Cleared
<1>6. ASSUME NEW w \in Writer, MergeDoes(w) PROVE Bounded'
  BY <1>0, <1>6, Numbers, CeilingSuffices, DayAssumption DEF MergeDoes, Aside, OnlyOf, Cleared
<1>7. ASSUME NEW w \in Writer, UpsertDoes(w) PROVE Bounded'
  BY <1>0, <1>7, Numbers, CeilingSuffices, DayAssumption DEF UpsertDoes, Writes, Spares, Overwrites, Overtakes, Aside, OnlyOf, Cleared
<1>8. ASSUME NEW w \in Writer, CountStealsDoes(w) PROVE Bounded'
  BY <1>0, <1>8, Numbers, CeilingSuffices, DayAssumption DEF CountStealsDoes, Aside, OnlyOf, Cleared
<1>9. ASSUME NEW w \in Writer, SaveDoes(w) PROVE Bounded'
  BY <1>0, <1>9, Numbers, CeilingSuffices, DayAssumption DEF SaveDoes, Writes, Spares, Overwrites, Overtakes, Aside, OnlyOf, Cleared
<1>10. ASSUME NEW w \in Writer, StartTradeDoes(w) PROVE Bounded'
  BY <1>0, <1>10, Numbers, CeilingSuffices, DayAssumption DEF StartTradeDoes, Aside, OnlyOf, Cleared
<1>11. ASSUME NEW w \in Writer, FindRowDoes(w) PROVE Bounded'
  BY <1>0, <1>11, Numbers, CeilingSuffices, DayAssumption DEF FindRowDoes, Aside, OnlyOf, Cleared
<1>12. ASSUME NEW w \in Writer, TradedDoes(w) PROVE Bounded'
  BY <1>0, <1>12, Numbers, CeilingSuffices, DayAssumption DEF TradedDoes, Aside, OnlyOf, Cleared
<1>13. ASSUME NEW w \in Writer, CancelDoes(w) PROVE Bounded'
  BY <1>0, <1>13, Numbers, CeilingSuffices, DayAssumption DEF CancelDoes, Spares, Aside, OnlyOf, Cleared
<1>14. ASSUME NEW e \in Engine, StartEngineDoes(e) PROVE Bounded'
  BY <1>0, <1>14, Numbers, CeilingSuffices, DayAssumption DEF StartEngineDoes, MemoryOf
<1>15. ASSUME NEW e \in Engine, RestoreDoes(e) PROVE Bounded'
  BY <1>0, <1>15, Numbers, CeilingSuffices, DayAssumption DEF RestoreDoes, MemoryOf, CountsOf, Day
<1>16. ASSUME NEW e \in Engine, ReleasedDoes(e) PROVE Bounded'
  BY <1>0, <1>16, Numbers, CeilingSuffices, DayAssumption DEF ReleasedDoes, MemoryOf, CountsOf
<1>17. CASE CrashDoes
  BY <1>0, <1>17, Numbers, CeilingSuffices, DayAssumption DEF CrashDoes, Cleared
<1>18. CASE MidnightDoes
  <2>1. /\ today' \in Day /\ today' # 1
        /\ \A d \in Day : d <= today => d # today'
    BY <1>s, <1>0, <1>18, FreshDay
  <2> QED
    BY <1>0, <1>18, <2>1, Numbers, CeilingSuffices, DayAssumption DEF MidnightDoes
<1>19. CASE UNCHANGED dayVars
  BY <1>19 DEF dayVars, engineVars
<1> QED
  BY <1>0, <1>1, <1>2, <1>3, <1>4, <1>5, <1>6, <1>7, <1>8, <1>9, <1>10, <1>11, <1>12, <1>13, <1>14, <1>15, <1>16, <1>17, <1>18, <1>19 DEF DayStep

LEMMA DayTypes ==
    ASSUME DayInv, Bounded
    PROVE  DayTypeOK
<1> USE DayAssumption, NoRowAssumption, CeilingSuffices
<1>1. Total = 0..Ceiling
  BY DEF Total, Ceiling
<1>2. done \in [Day -> 0..MaxCount] /\ record \in [Day -> Total \cup {NoRow}]
  BY <1>1 DEF DayInv, Shapes, Bounded, AtMost
<1>3. draft \in [Writer -> [day: Day, n: Total]]
  BY <1>1 DEF DayInv, Shapes, Bounded
<1>4. count \in [Engine -> Value]
  BY <1>1 DEF DayInv, Shapes, Bounded, Value
<1> QED
  BY <1>2, <1>3, <1>4 DEF DayInv, Shapes, DayTypeOK

LEMMA BoundsStart == DayInit => Bounded
  BY CeilingSuffices, DayAssumption, NoRowAssumption
     DEF DayInit, NoDraft, Bounded, AtMost

\* Every counter, draft and row of DailyRecord stays within what can be done
\* in all the days, for any number of them, of engines and of writers, and who
\* persists does so for an engine.
THEOREM DayTypeCorrect == DaySpec => []DayTypeOK
<1>1. DayInit => DayInv /\ Bounded
  BY DayStarts, BoundsStart
<1>2. DayInv /\ Bounded /\ [DayNext]_dayVars => (DayInv /\ Bounded)'
  BY DaySteps, BoundsStay
<1>3. DayInv /\ Bounded => DayTypeOK
  BY DayTypes
<1> QED
  BY <1>1, <1>2, <1>3, PTL DEF DaySpec

-----------------------------------------------------------------------------
(***************************************************************************)
(* OperationLog: midnights, updates of the pool, failed migrations and the *)
(* end of the process neither lose a line of the log nor leave it in both  *)
(* tables.                                                                 *)
(***************************************************************************)
\* Whatever is going to be written of a line counts at least one call.
IsUpdate(u) == u.id \in Line /\ u.count > 0

UpdatesCount ==
    /\ fold = NoFold \/ IsUpdate(fold)
    /\ \A i \in DOMAIN pending : IsUpdate(pending[i])
    /\ \A t \in Thread : thread[t] = NoFold \/ IsUpdate(thread[t])

\* A line that is in a table, or into which calls are folded, has been inserted.
StoredWasHeard ==
    /\ \A l \in Line : logs[l] # 0 \/ history[l] # 0 => heard[l] # 0
    /\ fold = NoFold \/ heard[fold.id] # 0

\* A migration copies exactly the lines it is going to delete: what is inserted
\* or updated meanwhile is not of an earlier day, or stays where it is.
CopiedIsGone ==
    moving.stage # "none" =>
        /\ moving.day <= date
        /\ \A l \in Line : moving.copy[l] # 0 <=> logs[l] # 0 /\ written[l] < moving.day

LogInv == LogTypeOK /\ UpdatesCount /\ StoredWasHeard /\ CopiedIsGone /\ LinesMoveOnce

LEMMA LogStarts == LogInit => LogInv
<1> SUFFICES ASSUME LogInit PROVE LogInv
  OBVIOUS
<1> USE LogAssumption
<1> USE DEF LogInit, NoFold, NoMove, Line, Update
<1>1. LogTypeOK
  BY DEF LogTypeOK
<1>2. UpdatesCount
  BY DEF UpdatesCount
<1>3. StoredWasHeard /\ CopiedIsGone /\ LinesMoveOnce
  BY DEF StoredWasHeard, CopiedIsGone, LinesMoveOnce
<1> QED
  BY <1>1, <1>2, <1>3 DEF LogInv

LEMMA CountedUpdate ==
    ASSUME NEW u \in Update, NEW n \in Nat
    PROVE  [id |-> u.id, count |-> n] \in Update /\ [u EXCEPT !.count = n] \in Update
  BY DEF Update

\* The types that the safety argument needs.
LEMMA LogShape ==
    ASSUME LogTypeOK
    PROVE  /\ date \in Nat /\ Keep \in Nat
           /\ heard \in [Line -> Nat] /\ written \in [Line -> Nat]
           /\ logs \in [Line -> Nat] /\ history \in [Line -> Nat]
           /\ moving \in [stage: {"none", "copied", "deleted"}, day: Nat, copy: [Line -> Nat]]
  BY LogAssumption DEF LogTypeOK

LEMMA TypesStay ==
    ASSUME LogTypeOK, UpdatesCount, [LogNext]_logVars
    PROVE  LogTypeOK'
<1> USE LogAssumption
<1> USE DEF LogTypeOK
<1>a. NoFold \in Update /\ 0 \in 0..LogDays /\ 0 \in 0..Said /\ 1 \in 0..Said
  BY DEF NoFold, Update
<1>b. \A u \in Update : u.id \in 0..Lines /\ u.count \in Nat
  BY DEF Update
<1>1. CASE LogFolded
  <2>1. fold.id \in Line /\ fold.count \in Nat
    BY <1>1, <1>b DEF LogFolded, Line
  <2> DEFINE n == fold.count + 1
             u == [id |-> fold.id, count |-> n]
  <2>2. u \in Update /\ [fold EXCEPT !.count = n] \in Update
    <3>1. n \in Nat /\ fold \in Update
      BY <2>1
    <3> HIDE DEF n
    <3> QED
      BY <3>1, CountedUpdate
  <2>3. pending' = Append(pending, u) /\ fold' = [fold EXCEPT !.count = n]
        /\ heard' = [heard EXCEPT ![fold.id] = @ + 1] /\ heard[fold.id] < Said
    BY <1>1 DEF LogFolded, NextCount
  <2> HIDE DEF u, n
  <2>4. pending' \in Seq(Update) /\ fold' \in Update
    BY <2>2, <2>3
  <2>5. heard' \in [Line -> 0..Said]
    BY <2>1, <2>3
  <2> QED
    BY <1>1, <2>4, <2>5 DEF LogFolded
<1>2. CASE LogInserted
  <2>1. fold' \in Update
    <3>1. fold' = NoFold \/ \E last \in Line : fold' = [id |-> last, count |-> 1]
      BY <1>2 DEF LogInserted
    <3>2. \A last \in Line : [id |-> last, count |-> 1] \in Update
      BY DEF Update, Line
    <3> QED
      BY <1>a, <3>1, <3>2
  <2>2. heard' \in [Line -> 0..Said] /\ written' \in [Line -> 0..LogDays]
        /\ logs' \in [Line -> Nat]
    BY <1>2, <1>a DEF LogInserted
  <2> QED
    BY <1>2, <2>1, <2>2 DEF LogInserted
<1>3. CASE FoldExpires
  BY <1>3, <1>a DEF FoldExpires
<1>4. ASSUME NEW t \in Thread, Take(t) PROVE LogTypeOK'
  <2>1. Head(pending) \in Update /\ Tail(pending) \in Seq(Update)
    BY <1>4 DEF Take
  <2> QED
    BY <1>4, <2>1 DEF Take
<1>5. ASSUME NEW t \in Thread, UpdateLine(t) PROVE LogTypeOK'
  <2>1. thread[t] \in Update /\ thread[t].id \in Line /\ thread[t].count \in Nat
    BY <1>5, <1>b DEF UpdateLine, UpdatesCount, IsUpdate
  <2>2. thread' \in [Thread -> Update]
    BY <1>5, <1>a DEF UpdateLine
  <2>3. logs' \in [Line -> Nat] /\ blurred' \subseteq Line
    BY <1>5, <2>1 DEF UpdateLine
  <2> QED
    BY <1>5, <2>2, <2>3 DEF UpdateLine
<1>6. CASE CopyLines
  <2>1. moving'.copy \in [Line -> Nat]
    BY <1>6 DEF CopyLines
  <2>2. date \in 0..LogDays
    OBVIOUS
  <2> QED
    BY <1>6, <2>1, <2>2 DEF CopyLines
<1>7. CASE DeleteLines
  BY <1>7 DEF DeleteLines
<1>8. CASE CommitMove
  <2>1. moving' = NoMove /\ logs' \in [Line -> Nat] /\ history' \in [Line -> Nat]
    BY <1>8 DEF CommitMove
  <2> QED
    BY <1>8, <2>1 DEF CommitMove, NoMove
<1>9. CASE RollBackMove
  BY <1>9 DEF RollBackMove, NoMove
<1>10. CASE ProcessEnds
  <2>1. Unwritten \subseteq 0..Lines
    BY <1>b DEF Unwritten
  <2>2. blurred' \subseteq Line
    BY <1>10, <2>1 DEF ProcessEnds, Line
  <2>3. moving' = NoMove /\ pending' \in Seq(Update) /\ fold' \in Update
        /\ thread' \in [Thread -> Update]
    BY <1>10, <1>a DEF ProcessEnds
  <2> QED
    BY <1>10, <2>2, <2>3 DEF ProcessEnds, NoMove
<1>11. CASE NextDay
  BY <1>11 DEF NextDay
<1>12. CASE UNCHANGED logVars
  BY <1>12 DEF logVars
<1> QED
  BY <1>1, <1>2, <1>3, <1>4, <1>5, <1>6, <1>7, <1>8, <1>9, <1>10, <1>11, <1>12 DEF LogNext

LEMMA UpdatesStay ==
    ASSUME LogTypeOK, UpdatesCount, [LogNext]_logVars
    PROVE  UpdatesCount'
<1> USE DEF UpdatesCount
<1>a. pending \in Seq(Update) /\ thread \in [Thread -> Update] /\ fold \in Update
  BY DEF LogTypeOK
<1>1. CASE LogFolded
  <2> DEFINE u == [id |-> fold.id, count |-> fold.count + 1]
  <2>1. IsUpdate(fold)
    BY <1>1 DEF LogFolded, NoFold
  <2>2. fold.count \in Nat
    BY <1>a DEF Update
  <2>3. IsUpdate(u) /\ IsUpdate([fold EXCEPT !.count = fold.count + 1]) /\ u \in Update
    BY <1>a, <2>1, <2>2 DEF IsUpdate, Update
  <2>4. pending' = Append(pending, u) /\ fold' = [fold EXCEPT !.count = fold.count + 1]
        /\ thread' = thread
    BY <1>1 DEF LogFolded, NextCount
  <2> HIDE DEF u
  <2>5. \A i \in DOMAIN pending' : IsUpdate(pending'[i])
    BY <1>a, <2>3, <2>4
  <2> QED
    BY <2>3, <2>4, <2>5
<1>2. CASE LogInserted
  <2>1. fold' = NoFold \/ \E last \in Line : fold' = [id |-> last, count |-> 1]
    BY <1>2 DEF LogInserted
  <2>2. fold' = NoFold \/ IsUpdate(fold')
    BY <2>1 DEF IsUpdate
  <2> QED
    BY <1>2, <2>2 DEF LogInserted
<1>3. CASE FoldExpires
  BY <1>3 DEF FoldExpires
<1>4. ASSUME NEW t \in Thread, Take(t) PROVE UpdatesCount'
  <2>1. IsUpdate(Head(pending)) /\ \A i \in DOMAIN Tail(pending) : IsUpdate(Tail(pending)[i])
    BY <1>a, <1>4 DEF Take
  <2> QED
    BY <1>a, <1>4, <2>1 DEF Take
<1>5. ASSUME NEW t \in Thread, UpdateLine(t) PROVE UpdatesCount'
  BY <1>a, <1>5 DEF UpdateLine
<1>6. CASE CopyLines \/ DeleteLines \/ CommitMove \/ RollBackMove \/ NextDay
  BY <1>6 DEF CopyLines, DeleteLines, CommitMove, RollBackMove, NextDay
<1>7. CASE ProcessEnds
  BY <1>7 DEF ProcessEnds
<1>8. CASE UNCHANGED logVars
  BY <1>8 DEF logVars
<1> QED
  BY <1>1, <1>2, <1>3, <1>4, <1>5, <1>6, <1>7, <1>8 DEF LogNext

\* An update writes a count, to a line that is in its table.
LEMMA UpdateWrites ==
    ASSUME LogInv, NEW t \in Thread, UpdateLine(t)
    PROVE  /\ UNCHANGED <<date, fold, heard, written, history, moving>>
           /\ \A l \in Line : logs'[l] # 0 <=> logs[l] # 0
<1> DEFINE u == thread[t]
<1>1. IsUpdate(u)
  BY DEF LogInv, UpdatesCount, UpdateLine
<1>2. logs' = logs \/ (logs[u.id] # 0 /\ logs' = [logs EXCEPT ![u.id] = u.count])
  BY DEF UpdateLine
<1>3. u.id \in Line /\ u.count # 0
  <2>1. u.count \in Nat
    BY DEF LogInv, LogTypeOK, Update
  <2> QED
    BY <1>1, <2>1 DEF IsUpdate
<1> HIDE DEF u
<1>4. \A l \in Line : logs'[l] # 0 <=> logs[l] # 0
  BY <1>2, <1>3, LogShape DEF LogInv
<1> QED
  BY <1>4 DEF UpdateLine

\* A repetition is of a line that has been inserted.
LEMMA FoldingCounts ==
    ASSUME LogInv, LogFolded
    PROVE  /\ UNCHANGED <<date, written, logs, history, moving>>
           /\ \A l \in Line : heard'[l] # 0 <=> heard[l] # 0
           /\ fold'.id = fold.id /\ heard'[fold.id] # 0
<1>1. fold.id \in Line /\ heard[fold.id] # 0
  BY DEF LogInv, LogFolded, UpdatesCount, IsUpdate, StoredWasHeard, NoFold
<1>2. heard' = [heard EXCEPT ![fold.id] = @ + 1] /\ fold'.id = fold.id
  <2>1. fold' = [fold EXCEPT !.count = NextCount(fold.count)] /\ fold \in Update
    BY DEF LogFolded, LogInv, LogTypeOK
  <2>2. fold'.id = fold.id
    BY <2>1 DEF Update
  <2> QED
    BY <2>2 DEF LogFolded
<1> QED
  BY <1>1, <1>2, LogShape, SMTT(20) DEF LogInv, LogFolded

\* Lines are inserted with today's date, where none has been before.
LEMMA InsertionIsNew ==
    ASSUME LogInv, LogInserted
    PROVE  /\ UNCHANGED <<date, history, moving>>
           /\ \A l \in Line :
                 \/ heard[l] = 0 /\ heard'[l] = 1 /\ written'[l] = date /\ logs'[l] = 1
                 \/ heard'[l] = heard[l] /\ written'[l] = written[l] /\ logs'[l] = logs[l]
           /\ fold' = NoFold \/ heard'[fold'.id] # 0
<1>1. PICK new \in SUBSET Line :
        /\ \A l \in new : heard[l] = 0
        /\ heard' = [l \in Line |-> IF l \in new THEN 1 ELSE heard[l]]
        /\ written' = [l \in Line |-> IF l \in new THEN date ELSE written[l]]
        /\ logs' = [l \in Line |-> IF l \in new THEN 1 ELSE logs[l]]
        /\ fold' = NoFold \/ \E last \in new : fold' = [id |-> last, count |-> 1]
  BY DEF LogInserted
<1> QED
  BY <1>1 DEF LogInserted

LEMMA StoredStays ==
    ASSUME LogInv, [LogNext]_logVars
    PROVE  StoredWasHeard'
<1> USE LogShape DEF LogInv, StoredWasHeard, CopiedIsGone
<1>1. CASE LogFolded
  BY <1>1, FoldingCounts
<1>2. CASE LogInserted
  BY <1>2, InsertionIsNew
<1>3. CASE FoldExpires \/ NextDay
  BY <1>3 DEF FoldExpires, NextDay
<1>4. ASSUME NEW t \in Thread, Take(t) PROVE StoredWasHeard'
  BY <1>4 DEF Take
<1>5. ASSUME NEW t \in Thread, UpdateLine(t) PROVE StoredWasHeard'
  BY <1>5, UpdateWrites
<1>6. CASE CopyLines
  BY <1>6 DEF CopyLines, Earlier
<1>7. CASE DeleteLines \/ RollBackMove
  BY <1>7 DEF DeleteLines, RollBackMove, NoMove
<1>8. CASE CommitMove
  BY <1>8 DEF CommitMove, NoMove, Gone, Earlier
<1>9. CASE ProcessEnds
  BY <1>9 DEF ProcessEnds, NoMove
<1>10. CASE UNCHANGED logVars
  BY <1>10 DEF logVars
<1> QED
  BY <1>1, <1>2, <1>3, <1>4, <1>5, <1>6, <1>7, <1>8, <1>9, <1>10 DEF LogNext

LEMMA CopiedStays ==
    ASSUME LogInv, [LogNext]_logVars
    PROVE  CopiedIsGone'
<1> USE LogShape DEF LogInv, CopiedIsGone, StoredWasHeard
<1>1. CASE LogFolded
  BY <1>1, FoldingCounts
<1>2. CASE LogInserted
  BY <1>2, InsertionIsNew
<1>3. CASE FoldExpires \/ NextDay
  BY <1>3 DEF FoldExpires, NextDay
<1>4. ASSUME NEW t \in Thread, Take(t) PROVE CopiedIsGone'
  BY <1>4 DEF Take
<1>5. ASSUME NEW t \in Thread, UpdateLine(t) PROVE CopiedIsGone'
  BY <1>5, UpdateWrites
<1>6. CASE CopyLines
  BY <1>6 DEF CopyLines, Earlier
<1>7. CASE DeleteLines \/ RollBackMove
  BY <1>7 DEF DeleteLines, RollBackMove, NoMove
<1>8. CASE CommitMove
  BY <1>8 DEF CommitMove, NoMove, Gone, Earlier
<1>9. CASE ProcessEnds
  BY <1>9 DEF ProcessEnds, NoMove
<1>10. CASE UNCHANGED logVars
  BY <1>10 DEF logVars
<1> QED
  BY <1>1, <1>2, <1>3, <1>4, <1>5, <1>6, <1>7, <1>8, <1>9, <1>10 DEF LogNext

LEMMA LinesStay ==
    ASSUME LogInv, [LogNext]_logVars
    PROVE  LinesMoveOnce'
<1> USE LogShape DEF LogInv, StoredWasHeard, CopiedIsGone, LinesMoveOnce
<1>1. CASE LogFolded
  BY <1>1, FoldingCounts
<1>2. CASE LogInserted
  BY <1>2, InsertionIsNew
<1>3. CASE FoldExpires \/ NextDay
  BY <1>3 DEF FoldExpires, NextDay
<1>4. ASSUME NEW t \in Thread, Take(t) PROVE LinesMoveOnce'
  BY <1>4 DEF Take
<1>5. ASSUME NEW t \in Thread, UpdateLine(t) PROVE LinesMoveOnce'
  BY <1>5, UpdateWrites
<1>6. CASE CopyLines
  BY <1>6 DEF CopyLines, Earlier
<1>7. CASE DeleteLines \/ RollBackMove
  BY <1>7 DEF DeleteLines, RollBackMove, NoMove
<1>8. CASE CommitMove
  BY <1>8 DEF CommitMove, NoMove, Gone, Earlier
<1>9. CASE ProcessEnds
  BY <1>9 DEF ProcessEnds, NoMove
<1>10. CASE UNCHANGED logVars
  BY <1>10 DEF logVars
<1> QED
  BY <1>1, <1>2, <1>3, <1>4, <1>5, <1>6, <1>7, <1>8, <1>9, <1>10 DEF LogNext

LEMMA LogSteps == LogInv /\ [LogNext]_logVars => LogInv'
  BY TypesStay, UpdatesStay, StoredStays, CopiedStays, LinesStay DEF LogInv

\* The daily migration moves every line once: none is lost before its time,
\* none is in both tables.
THEOREM MovedOnce == LogSpec => []LinesMoveOnce
<1>1. LogInv => LinesMoveOnce
  BY DEF LogInv
<1> QED
  BY LogStarts, LogSteps, <1>1, PTL DEF LogSpec

-----------------------------------------------------------------------------
(* Counts.  No count anywhere, in a table, in the copy of a migration, in   *)
(* memory or on its way through the pool, exceeds the calls of its line.    *)

NoneTooMany ==
    /\ \A l \in Line : logs[l] <= heard[l] /\ history[l] <= heard[l] /\ moving.copy[l] <= heard[l]
    /\ fold = NoFold \/ fold.count = heard[fold.id]
    /\ \A i \in DOMAIN pending : pending[i].count <= heard[pending[i].id]
    /\ \A t \in Thread : thread[t] = NoFold \/ thread[t].count <= heard[thread[t].id]

\* The update with all the calls of a line is still to be written.
LastIsDue(l) ==
    \/ \E i \in DOMAIN pending : pending[i].id = l /\ pending[i].count = heard[l]
    \/ \E t \in Thread : thread[t].id = l /\ thread[t].count = heard[l]

\* A line that is not blurred is up to date or will be, and it has not been
\* written since a migration copied it.
Sharp(l) ==
    /\ moving.copy[l] \in {0, logs[l]}
    /\ heard[l] \in {logs[l], history[l]} \/ history[l] + logs[l] = 0 \/ LastIsDue(l)

SettleInv == LogInv /\ NoneTooMany /\ \A l \in Line \ blurred : Sharp(l)

LEMMA SettleStarts == LogInit => SettleInv
<1> SUFFICES ASSUME LogInit PROVE SettleInv
  OBVIOUS
<1>1. NoneTooMany /\ \A l \in Line : Sharp(l)
  BY DEF LogInit, NoFold, NoMove, NoneTooMany, Sharp
<1> QED
  BY <1>1, LogStarts DEF SettleInv

LEMMA AppendedLast ==
    ASSUME NEW q \in Seq(Update), NEW u \in Update
    PROVE  /\ \A i \in DOMAIN q : i \in DOMAIN Append(q, u) /\ Append(q, u)[i] = q[i]
           /\ \E i \in DOMAIN Append(q, u) : Append(q, u)[i] = u
           /\ \A i \in DOMAIN Append(q, u) : Append(q, u)[i] = u \/ (i \in DOMAIN q /\ Append(q, u)[i] = q[i])
<1>1. Len(Append(q, u)) = Len(q) + 1 /\ DOMAIN q = 1..Len(q) /\ Len(q) \in Nat
      /\ DOMAIN Append(q, u) = 1..(Len(q) + 1)
  OBVIOUS
<1>2. Append(q, u)[Len(q) + 1] = u /\ \A i \in 1..Len(q) : Append(q, u)[i] = q[i]
  OBVIOUS
<1> QED
  BY <1>1, <1>2

LEMMA TakenFirst ==
    ASSUME NEW q \in Seq(Update), q # << >>
    PROVE  /\ 1 \in DOMAIN q /\ Head(q) = q[1]
           /\ \A i \in DOMAIN Tail(q) : i + 1 \in DOMAIN q /\ Tail(q)[i] = q[i + 1]
           /\ \A i \in DOMAIN q : i = 1 \/ (i - 1 \in DOMAIN Tail(q) /\ Tail(q)[i - 1] = q[i])
<1>1. DOMAIN q = 1..Len(q) /\ Len(q) \in Nat /\ Len(q) > 0
      /\ DOMAIN Tail(q) = 1..(Len(q) - 1)
  OBVIOUS
<1>2. Head(q) = q[1] /\ \A i \in 1..(Len(q) - 1) : Tail(q)[i] = q[i + 1]
  OBVIOUS
<1> QED
  BY <1>1, <1>2

\* What the invariant says of the values of the variables.
LEMMA Facts ==
    ASSUME LogInv
    PROVE  /\ heard \in [Line -> Nat] /\ written \in [Line -> Nat]
           /\ logs \in [Line -> Nat] /\ history \in [Line -> Nat]
           /\ moving.copy \in [Line -> Nat]
           /\ pending \in Seq(Update) /\ thread \in [Thread -> Update] /\ fold \in Update
           /\ \A i \in DOMAIN pending :
                 /\ pending[i].id \in Line /\ pending[i].count \in Nat
           /\ \A t \in Thread :
                 /\ thread[t].count \in Nat
                 /\ thread[t] # NoFold => thread[t].id \in Line
           /\ fold.count \in Nat /\ (fold # NoFold => fold.id \in Line)
           /\ 0 \notin Line /\ NoFold.id = 0
<1>1. \A u \in Update : u.count \in Nat
  BY DEF Update
<1>2. pending \in Seq(Update) /\ thread \in [Thread -> Update] /\ fold \in Update
      /\ moving.copy \in [Line -> Nat]
  BY DEF LogInv, LogTypeOK
<1>3. \A i \in DOMAIN pending : pending[i] \in Update
  BY <1>2
<1>4. 0 \notin Line /\ NoFold.id = 0
  BY LogAssumption DEF Line, NoFold
<1>5. /\ heard \in [Line -> Nat] /\ written \in [Line -> Nat]
      /\ logs \in [Line -> Nat] /\ history \in [Line -> Nat]
  BY LogShape DEF LogInv
<1>6. \A i \in DOMAIN pending : pending[i].id \in Line /\ pending[i].count \in Nat
  BY <1>1, <1>3 DEF LogInv, UpdatesCount, IsUpdate
<1>7. \A t \in Thread : thread[t].count \in Nat /\ (thread[t] # NoFold => thread[t].id \in Line)
  BY <1>1, <1>2 DEF LogInv, UpdatesCount, IsUpdate
<1>8. fold.count \in Nat /\ (fold # NoFold => fold.id \in Line)
  BY <1>1, <1>2 DEF LogInv, UpdatesCount, IsUpdate
<1> QED
  BY <1>2, <1>4, <1>5, <1>6, <1>7, <1>8

\* A repetition: one call more, one update more with all the calls.
LEMMA FoldDoes ==
    ASSUME SettleInv, LogFolded
    PROVE  /\ fold.id \in Line /\ fold'.id = fold.id
           /\ heard'[fold.id] = heard[fold.id] + 1 /\ fold'.count = heard'[fold.id]
           /\ \A l \in Line : l # fold.id => heard'[l] = heard[l]
           /\ \A i \in DOMAIN pending : i \in DOMAIN pending' /\ pending'[i] = pending[i]
           /\ \E i \in DOMAIN pending' : pending'[i].id = fold.id /\ pending'[i].count = heard'[fold.id]
           /\ \A i \in DOMAIN pending' :
                 \/ i \in DOMAIN pending /\ pending'[i] = pending[i]
                 \/ pending'[i].id = fold.id /\ pending'[i].count = heard'[fold.id]
           /\ UNCHANGED <<logs, history, thread, moving, blurred>>
<1> USE Facts DEF SettleInv
<1> DEFINE n == fold.count + 1
           u == [id |-> fold.id, count |-> n]
<1>1. fold # NoFold /\ fold.id \in Line /\ fold.count = heard[fold.id] /\ n \in Nat
  BY DEF LogFolded, NoFold, NoneTooMany
<1>2. pending' = Append(pending, u) /\ fold' = [fold EXCEPT !.count = n]
      /\ heard' = [heard EXCEPT ![fold.id] = @ + 1]
      /\ UNCHANGED <<logs, history, thread, moving, blurred>>
  BY DEF LogFolded, NextCount
<1>3. n = heard[fold.id] + 1
  BY <1>1
<1>4. u \in Update /\ u.id = fold.id /\ u.count = n
  <2> HIDE DEF n
  <2> QED
    BY <1>1, CountedUpdate
<1> HIDE DEF n, u
<1>5. fold'.id = fold.id /\ fold'.count = n
  BY <1>2 DEF Update
<1>6. heard'[fold.id] = n /\ \A l \in Line : l # fold.id => heard'[l] = heard[l]
  BY <1>1, <1>2, <1>3
<1>7. pending \in Seq(Update)
  OBVIOUS
<1>8. /\ \A i \in DOMAIN pending : i \in DOMAIN pending' /\ pending'[i] = pending[i]
      /\ \E i \in DOMAIN pending' : pending'[i] = u
      /\ \A i \in DOMAIN pending' : pending'[i] = u \/ (i \in DOMAIN pending /\ pending'[i] = pending[i])
  BY <1>2, <1>4, <1>7, AppendedLast
<1> QED
  BY <1>1, <1>2, <1>3, <1>4, <1>5, <1>6, <1>8, ZenonT(40)

LEMMA SettleSteps == SettleInv /\ [LogNext]_logVars => SettleInv'
<1> SUFFICES ASSUME SettleInv, [LogNext]_logVars PROVE NoneTooMany' /\ \A l \in Line \ blurred' : Sharp(l)'
  BY LogSteps DEF SettleInv
<1>0. LogInv /\ NoneTooMany /\ \A l \in Line \ blurred : Sharp(l)
  BY DEF SettleInv
<1> USE DEF Sharp, LastIsDue
<1>1. CASE LogFolded
  <2>1. NoneTooMany'
    <3>0. /\ \A l \in Line : heard[l] <= heard'[l] /\ heard[l] \in Nat /\ heard'[l] \in Nat
          /\ UNCHANGED <<logs, history, thread, moving>>
      <4>1. \A l \in Line : heard[l] \in Nat
        BY <1>0, Facts
      <4>2. /\ fold.id \in Line /\ heard'[fold.id] = heard[fold.id] + 1
            /\ \A l \in Line : l # fold.id => heard'[l] = heard[l]
            /\ UNCHANGED <<logs, history, thread, moving>>
        BY <1>1, FoldDoes
      <4>3. ASSUME NEW l \in Line
            PROVE  heard[l] <= heard'[l] /\ heard[l] \in Nat /\ heard'[l] \in Nat
        BY <4>1, <4>2
      <4> QED
        BY <4>2, <4>3
    <3>1. \A l \in Line : logs'[l] <= heard'[l] /\ history'[l] <= heard'[l]
                          /\ moving'.copy[l] <= heard'[l]
      BY <1>0, <3>0, Facts DEF NoneTooMany
    <3>2. \A i \in DOMAIN pending' : pending'[i].count <= heard'[pending'[i].id]
      <4>1. \A i \in DOMAIN pending : pending[i].count <= heard'[pending[i].id]
        BY <1>0, <3>0, Facts DEF NoneTooMany
      <4>2. heard'[fold.id] <= heard'[fold.id]
        BY <1>1, <3>0, FoldDoes
      <4> QED
        BY <1>1, <4>1, <4>2, FoldDoes
    <3>3. \A t \in Thread : thread'[t] = NoFold \/ thread'[t].count <= heard'[thread'[t].id]
      BY <1>0, <3>0, Facts DEF NoneTooMany
    <3> QED
      BY <1>1, <3>1, <3>2, <3>3, FoldDoes DEF NoneTooMany
  <2>2. ASSUME NEW l \in Line \ blurred' PROVE Sharp(l)'
    <3>1. Sharp(l) /\ UNCHANGED <<logs, history, thread, moving, blurred>>
      BY <1>0, <1>1, <2>2, FoldDoes
    <3>2. CASE l = fold.id
      BY <1>1, <3>1, <3>2, FoldDoes
    <3>3. CASE l # fold.id
      BY <1>1, <3>1, <3>3, FoldDoes
    <3> QED
      BY <3>2, <3>3
  <2> QED
    BY <2>1, <2>2
<1>2. CASE LogInserted
  <2>1. /\ UNCHANGED <<history, moving, pending, thread, blurred>>
        /\ \A l \in Line :
              \/ heard[l] = 0 /\ heard'[l] = 1 /\ logs'[l] = 1
              \/ heard'[l] = heard[l] /\ logs'[l] = logs[l]
        /\ \A l \in Line : heard[l] <= heard'[l] /\ heard[l] \in Nat /\ heard'[l] \in Nat
    <3>1. \A l \in Line :
              \/ heard[l] = 0 /\ heard'[l] = 1 /\ logs'[l] = 1
              \/ heard'[l] = heard[l] /\ logs'[l] = logs[l]
      BY <1>0, <1>2, InsertionIsNew
    <3>2. \A l \in Line : heard[l] \in Nat
      BY <1>0, Facts
    <3> QED
      BY <1>2, <3>1, <3>2 DEF LogInserted
  <2>2. fold' = NoFold \/ fold'.count = heard'[fold'.id]
    <3>1. fold' = NoFold \/ \E last \in Line : heard'[last] = 1 /\ fold' = [id |-> last, count |-> 1]
      BY <1>2 DEF LogInserted
    <3> QED
      BY <3>1
  <2>3. NoneTooMany'
    <3>0. /\ \A i \in DOMAIN pending : pending[i].id \in Line /\ pending[i].count \in Nat
          /\ \A t \in Thread : thread[t] = NoFold \/ (thread[t].id \in Line /\ thread[t].count \in Nat)
          /\ \A l \in Line : logs[l] \in Nat /\ history[l] \in Nat /\ moving.copy[l] \in Nat
      BY <1>0, Facts
    <3>1. \A i \in DOMAIN pending' : pending'[i].count <= heard'[pending'[i].id]
      BY <1>0, <2>1, <3>0 DEF NoneTooMany
    <3>2. \A t \in Thread : thread'[t] = NoFold \/ thread'[t].count <= heard'[thread'[t].id]
      BY <1>0, <2>1, <3>0 DEF NoneTooMany
    <3>3. \A l \in Line : logs'[l] <= heard'[l] /\ history'[l] <= heard'[l]
                          /\ moving'.copy[l] <= heard'[l]
      BY <1>0, <2>1, <3>0 DEF NoneTooMany
    <3> QED
      BY <2>2, <3>1, <3>2, <3>3 DEF NoneTooMany
  <2>4. ASSUME NEW l \in Line \ blurred' PROVE Sharp(l)'
    <3>1. Sharp(l)
      BY <1>0, <2>1, <2>4
    <3>2. CASE heard'[l] = heard[l] /\ logs'[l] = logs[l]
      BY <2>1, <3>1, <3>2
    <3>3. CASE heard[l] = 0 /\ heard'[l] = 1 /\ logs'[l] = 1
      <4>1. moving.copy[l] = 0
        BY <1>0, <3>3, Facts DEF NoneTooMany
      <4> QED
        BY <2>1, <3>3, <4>1
    <3> QED
      BY <2>1, <3>2, <3>3
  <2> QED
    BY <2>3, <2>4
<1>3. CASE FoldExpires \/ NextDay
  BY <1>0, <1>3 DEF FoldExpires, NextDay, NoneTooMany
<1>4. ASSUME NEW t \in Thread, Take(t) PROVE NoneTooMany' /\ \A l \in Line \ blurred' : Sharp(l)'
  <2>1. /\ 1 \in DOMAIN pending
        /\ \A i \in DOMAIN pending' : i + 1 \in DOMAIN pending /\ pending'[i] = pending[i + 1]
        /\ \A i \in DOMAIN pending :
              i = 1 \/ (i - 1 \in DOMAIN pending' /\ pending'[i - 1] = pending[i])
        /\ thread'[t] = pending[1] /\ thread[t] = NoFold
        /\ \A s \in Thread : s # t => thread'[s] = thread[s]
        /\ UNCHANGED <<date, fold, heard, written, logs, history, moving, blurred>>
    BY <1>0, <1>4, Facts, TakenFirst DEF Take
  <2>2. NoneTooMany'
    BY <1>0, <2>1 DEF NoneTooMany
  <2>3. ASSUME NEW l \in Line \ blurred' PROVE Sharp(l)'
    <3>1. LastIsDue(l) => LastIsDue(l)'
      <4>1. ASSUME NEW i \in DOMAIN pending, pending[i].id = l, pending[i].count = heard[l]
            PROVE  LastIsDue(l)'
        BY <2>1, <4>1
      <4>2. ASSUME NEW s \in Thread, thread[s].id = l, thread[s].count = heard[l]
            PROVE  LastIsDue(l)'
        <5>1. l # 0 /\ NoFold.id = 0
          BY <1>0, <2>3, Facts
        <5>2. s # t
          BY <2>1, <4>2, <5>1
        <5> QED
          BY <2>1, <4>2, <5>2
      <4> QED
        BY <4>1, <4>2
    <3> QED
      BY <1>0, <2>1, <2>3, <3>1
  <2> QED
    BY <2>2, <2>3
<1>5. ASSUME NEW t \in Thread, UpdateLine(t)
      PROVE  NoneTooMany' /\ \A l \in Line \ blurred' : Sharp(l)'
  <2> DEFINE u == thread[t]
  <2>1. u # NoFold /\ u.id \in Line /\ u.count \in Nat /\ u.count <= heard[u.id]
    BY <1>0, <1>5, Facts DEF UpdateLine, NoneTooMany
  <2>2. /\ thread'[t] = NoFold /\ \A s \in Thread : s # t => thread'[s] = thread[s]
        /\ UNCHANGED <<date, fold, heard, written, history, pending, moving>>
    BY <1>0, <1>5, Facts DEF UpdateLine
  <2>3. \/ /\ logs[u.id] # 0 /\ logs'[u.id] = u.count
           /\ \A l \in Line : l # u.id => logs'[l] = logs[l]
           /\ \/ blurred' = blurred /\ logs[u.id] < u.count /\ moving.copy[u.id] = 0
              \/ blurred' = blurred \cup {u.id}
        \/ UNCHANGED logs /\ blurred' = blurred \cup {u.id}
    BY <1>0, <1>5, <2>1, Facts DEF UpdateLine
  <2> HIDE DEF u
  <2>4. NoneTooMany'
    <3>1. \A l \in Line : logs'[l] <= heard'[l]
      BY <1>0, <2>1, <2>2, <2>3 DEF NoneTooMany
    <3> QED
      BY <1>0, <2>2, <3>1 DEF NoneTooMany
  <2>5. ASSUME NEW l \in Line \ blurred' PROVE Sharp(l)'
    <3>1. Sharp(l)
      BY <1>0, <2>3, <2>5
    <3>2. CASE l # u.id
      <4>1. logs'[l] = logs[l]
        BY <2>3, <2>5, <3>2
      <4>2. LastIsDue(l) => LastIsDue(l)'
        BY <2>2, <3>2 DEF u
      <4> QED
        BY <2>2, <3>1, <4>1, <4>2
    <3>3. CASE l = u.id
      <4>1. logs[l] # 0 /\ logs'[l] = u.count /\ logs[l] < u.count /\ moving.copy[l] = 0
        BY <2>3, <2>5, <3>3
      <4>2. history[l] = 0
        BY <1>0, <2>5, <4>1, Facts DEF LogInv, StoredWasHeard, LinesMoveOnce
      <4>3. CASE u.count = heard[l]
        BY <2>2, <3>3, <4>1, <4>3
      <4>4. CASE u.count # heard[l]
        <5>1. heard[l] # logs[l] /\ heard[l] # history[l] /\ history[l] + logs[l] # 0
          BY <1>0, <2>1, <2>5, <3>3, <4>1, <4>2, Facts
        <5>2. LastIsDue(l)
          BY <3>1, <5>1
        <5>3. LastIsDue(l)'
          BY <2>2, <3>3, <4>4, <5>2 DEF u
        <5> QED
          BY <2>2, <4>1, <5>3
      <4> QED
        BY <4>3, <4>4
    <3> QED
      BY <3>2, <3>3
  <2> QED
    BY <2>4, <2>5
<1>6. CASE CopyLines
  <2>1. /\ UNCHANGED <<fold, heard, logs, history, pending, thread, blurred>>
        /\ \A l \in Line : moving'.copy[l] \in {0, logs[l]}
    BY <1>6 DEF CopyLines
  <2>2. NoneTooMany'
    <3>1. \A l \in Line : heard[l] \in Nat
      BY <1>0, Facts
    <3> QED
      BY <1>0, <2>1, <3>1 DEF NoneTooMany
  <2> QED
    BY <1>0, <2>1, <2>2
<1>7. CASE DeleteLines
  BY <1>0, <1>7, LogShape DEF DeleteLines, NoneTooMany, LogInv
<1>8. CASE RollBackMove
  <2>1. /\ UNCHANGED <<fold, heard, logs, history, pending, thread, blurred>>
        /\ \A l \in Line : moving'.copy[l] = 0
    BY <1>8 DEF RollBackMove, NoMove
  <2>2. NoneTooMany'
    <3>1. \A l \in Line : heard[l] \in Nat
      BY <1>0, Facts
    <3> QED
      BY <1>0, <2>1, <3>1 DEF NoneTooMany
  <2> QED
    BY <1>0, <2>1, <2>2
<1>9. CASE CommitMove
  <2>1. /\ UNCHANGED <<fold, heard, pending, thread, blurred>>
        /\ \A l \in Line : moving'.copy[l] = 0
        /\ moving.stage # "none"
    BY <1>9 DEF CommitMove, NoMove
  <2>2. \A l \in Line : moving.copy[l] # 0 => logs[l] # 0 /\ logs'[l] = 0
    BY <1>0, <1>9 DEF CommitMove, Gone, Earlier, LogInv, CopiedIsGone
  <2>3. \A l \in Line : moving.copy[l] = 0 => logs'[l] = logs[l]
    BY <1>0, <1>9 DEF CommitMove, Gone, Earlier, LogInv, CopiedIsGone
  <2>4. \A l \in Line : history'[l] \in {0, history[l]}
                        \/ (moving.copy[l] # 0 /\ history'[l] = moving.copy[l])
    BY <1>9 DEF CommitMove
  <2>5. \A l \in Line : moving.copy[l] # 0 => history'[l] \in {0, moving.copy[l]}
    BY <1>9 DEF CommitMove
  <2>6. NoneTooMany'
    <3>1. \A l \in Line : heard[l] \in Nat
      BY <1>0, Facts
    <3>2. \A l \in Line : logs'[l] <= heard[l] /\ history'[l] <= heard[l]
      BY <1>0, <2>2, <2>3, <2>4, <3>1 DEF NoneTooMany
    <3> QED
      BY <1>0, <2>1, <3>1, <3>2 DEF NoneTooMany
  <2>7. ASSUME NEW l \in Line \ blurred' PROVE Sharp(l)'
    <3>1. Sharp(l) /\ (LastIsDue(l) => LastIsDue(l)')
      BY <1>0, <2>1, <2>7
    <3>2. logs[l] = 0 \/ history[l] = 0
      BY <1>0, <2>7, Facts DEF LogInv, StoredWasHeard, LinesMoveOnce
    <3>3. heard[l] \in Nat /\ logs[l] \in Nat /\ history[l] \in Nat
      BY <1>0, Facts
    <3>4. CASE moving.copy[l] # 0
      BY <2>1, <2>2, <2>5, <2>7, <3>1, <3>2, <3>3, <3>4
    <3>5. CASE moving.copy[l] = 0
      BY <2>1, <2>3, <2>4, <2>7, <3>1, <3>2, <3>3, <3>5
    <3> QED
      BY <3>4, <3>5
  <2> QED
    BY <2>6, <2>7
<1>10. CASE ProcessEnds
  <2>1. /\ UNCHANGED <<heard, logs, history>> /\ fold' = NoFold
        /\ DOMAIN pending' = {} /\ \A t \in Thread : thread'[t] = NoFold
        /\ \A l \in Line : moving'.copy[l] = 0
        /\ blurred' = blurred \cup (Unwritten \ {0})
    BY <1>10 DEF ProcessEnds, NoMove
  <2>2. NoneTooMany'
    BY <1>0, <2>1, Facts DEF NoneTooMany
  <2>3. ASSUME NEW l \in Line \ blurred' PROVE Sharp(l)'
    <3>1. ~LastIsDue(l)
      BY <1>0, <2>1, <2>3, Facts DEF Unwritten
    <3> QED
      BY <1>0, <2>1, <2>3, <3>1
  <2> QED
    BY <2>2, <2>3
<1>11. CASE UNCHANGED logVars
  BY <1>0, <1>11 DEF logVars, NoneTooMany
<1> QED
  BY <1>1, <1>2, <1>3, <1>4, <1>5, <1>6, <1>7, <1>8, <1>9, <1>10, <1>11 DEF LogNext

\* A line of the log never claims more repetitions than there were; and when
\* no update of it is on its way, and none overtook another, failed, died or
\* met the migration, it claims no fewer, in whichever table it is by then.
THEOREM SettleCorrect == LogSpec => []CountsSettle
<1>1. SettleInv => CountsSettle
  <2> SUFFICES ASSUME SettleInv, NEW l \in Line
               PROVE  /\ logs[l] <= heard[l] /\ history[l] <= heard[l]
                      /\ l \notin blurred \cup Unwritten =>
                            heard[l] \in {logs[l], history[l]} \/ history[l] + logs[l] = 0
    BY DEF CountsSettle
  <2>1. LastIsDue(l) => l \in Unwritten
    BY DEF LastIsDue, Unwritten
  <2> QED
    BY <2>1 DEF SettleInv, NoneTooMany, Sharp
<1> QED
  BY SettleStarts, SettleSteps, <1>1, PTL DEF LogSpec

-----------------------------------------------------------------------------
(***************************************************************************)
(* MCRecords follows one of the four modules, and so keeps what each of    *)
(* them keeps.                                                             *)
(***************************************************************************)
RecordsInv ==
    /\ part = "day" => DayInv /\ Bounded
    /\ part = "log" => LogInv
    /\ part = "snapshots" => SnapshotInv
    /\ part = "cache" => CacheInv

\* The module that a behaviour of MCRecords follows keeps its types.
THEOREM RecordsTypeCorrect == MCSpec => []RecordsTypeOK
<1>1. MCInit => RecordsInv
  BY DayStarts, BoundsStart, LogStarts, SnapshotStarts, CacheStarts DEF MCInit, RecordsInv
<1>2. RecordsInv /\ [MCNext]_<<part, dayVars, logVars, snapshotVars, cacheVars>> => RecordsInv'
  BY DaySteps, BoundsStay, LogSteps, SnapshotSteps, CacheSteps DEF MCNext, RecordsInv
<1>3. RecordsInv => RecordsTypeOK
  BY DayTypes, CacheTypes DEF RecordsInv, RecordsTypeOK, LogInv, SnapshotInv
<1> QED
  BY <1>1, <1>2, <1>3, PTL DEF MCSpec

\* A behaviour of MCRecords is a behaviour of each of the four modules, so that what
\* is proved of them holds of all that records checks.
THEOREM RecordsAreEachPart == MCSpec => DaySpec /\ LogSpec /\ SnapshotSpec /\ CacheSpec
<1>1. MCInit => DayInit /\ LogInit /\ SnapshotInit /\ CacheInit
  BY DEF MCInit, DayRests, CacheRests
<1>2. [MCNext]_<<part, dayVars, logVars, snapshotVars, cacheVars>> =>
         /\ [DayNext]_dayVars /\ [LogNext]_logVars
         /\ [SnapshotNext]_snapshotVars /\ [CacheNext]_cacheVars
  BY DEF MCNext
<1> QED
  BY <1>1, <1>2, PTL DEF MCSpec, DaySpec, LogSpec, SnapshotSpec, CacheSpec

\* Rows, log, snapshots and caches keep their promises together, in the instance
\* that records checks and in every larger one.
THEOREM RecordsCorrect ==
    MCSpec => /\ []RecordedWasDone /\ RecordNeverShrinks /\ []RestartRemembers
              /\ []CountsSettle /\ []LinesMoveOnce
              /\ []ServedIsStored /\ ReplacedWhole /\ []ShownIsRecent
BY RecordsAreEachPart, RecordIsTrue, RecordIsKept, RestartCorrect, SettleCorrect, MovedOnce,
   ServedCorrect, ReplacedCorrect, RecentCorrect, PTL
=============================================================================
