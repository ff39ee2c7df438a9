-------------------------- MODULE MuseumTradeProofs --------------------------
(***************************************************************************)
(* For any accounts, trades and rows, with every fault of MuseumTrade: the *)
(* model is well typed, the table says "accepted" only of trades that the  *)
(* game has carried out, and an account trades once a day; if no           *)
(* synchronisations overlap, a trade has one row, which stays accepted.    *)
(*                                                                         *)
(* A row takes the word "accepted" from one of three places: the listing a *)
(* synchronisation holds, the update it has computed, or the answer of the *)
(* game to the scheduler.  Each is old when it is used, so the invariant   *)
(* says of each that it was true when taken; it stays true because the     *)
(* game never leaves "accepted" and a row never changes its trade.         *)
(***************************************************************************)
EXTENDS MuseumTrade, TLAPS, FiniteSetTheorems

Visiting == SchedPC \ {"idle", "next"}
Deciding == {"verify", "accept", "reject"}
Done     == {"apply", "markFrom", "markTo", "settle"}

\* Whoever is at work has an account; the scheduler waits for its own
\* synchronisation and for nothing else.
Placed ==
    /\ pc \in Visiting => acct \in Account
    /\ spc[Cycle] # "idle" => pc = "sync"
    /\ \A s \in Slot : spc[s] # "idle" => sacct[s] \in Account

\* What a synchronisation is about to insert, the game has listed.
InsertsListed ==
    \A s \in Slot :
        /\ spc[s] # "write" => ins[s] = {}
        /\ \A t \in ins[s] : snap[s][t] # "none"

\* The row being accepted has a trade.
CurHasTrade == pc \in Deciding \cup Done => cur \in Row /\ rtrade[cur] \in Trade

\* The three sources of the word "accepted".
SnapInGame ==
    \A s \in Slot : \A t \in Trade : snap[s][t] = "accepted" => status[t] = "accepted"
UpdateInGame ==
    \A s \in Slot : \A r \in Row :
        upd[s][r] = "accepted" => rtrade[r] # None /\ status[rtrade[r]] = "accepted"
CurInGame == pc \in Done => status[rtrade[cur]] = "accepted"

Typed == TypeOK /\ Placed /\ InsertsListed /\ CurHasTrade
Told  == AcceptedInGame /\ SnapInGame /\ UpdateInGame /\ CurInGame

-----------------------------------------------------------------------------
(* Type correctness                                                        *)

LEMMA EmptyTyped ==
    /\ Nothing \in [Trade -> GameStatus]
    /\ NoUpdate \in [Row -> RowStatus \cup {"keep"}]
BY DEF Nothing, NoUpdate, GameStatus

LEMMA NoSyncTyped ==
    /\ [s \in Slot |-> "idle"] \in [Slot -> SyncPC]
    /\ [s \in Slot |-> None] \in [Slot -> Account \cup {None}]
    /\ [s \in Slot |-> Nothing] \in [Slot -> [Trade -> GameStatus]]
    /\ [s \in Slot |-> NoUpdate] \in [Slot -> [Row -> RowStatus \cup {"keep"}]]
    /\ [s \in Slot |-> {}] \in [Slot -> SUBSET Trade]
<1>1. [s \in Slot |-> "idle"] \in [Slot -> SyncPC]
  BY DEF SyncPC
<1>2. [s \in Slot |-> Nothing] \in [Slot -> [Trade -> GameStatus]]
  BY EmptyTyped
<1>3. [s \in Slot |-> NoUpdate] \in [Slot -> [Row -> RowStatus \cup {"keep"}]]
  BY EmptyTyped
<1>4. [s \in Slot |-> {}] \in [Slot -> SUBSET Trade]
  OBVIOUS
<1> QED
  BY <1>1, <1>2, <1>3, <1>4

LEMMA InitTyped == Init => Typed
<1> SUFFICES ASSUME Init PROVE Typed
  OBVIOUS
<1>1. TypeOK
  <2>1. rtrade \in [Row -> Trade \cup {None}] /\ rstatus \in [Row -> RowStatus]
    BY DEF Init, RowStatus
  <2>2. status \in [Trade -> GameStatus]
    BY EmptyTyped DEF Init
  <2>3. pc \in SchedPC /\ tries \in 0..1
    BY DEF Init, SchedPC
  <2> QED
    BY <2>1, <2>2, <2>3, NoSyncTyped DEF Init, TypeOK
<1>2. Placed /\ InsertsListed /\ CurHasTrade
  BY DEF Init, Placed, InsertsListed, CurHasTrade, Slot, Visiting, Deciding, Done
<1> QED
  BY <1>1, <1>2 DEF Typed

\* The word for an update or a new row is one a row may have.
LEMMA MappedType ==
    ASSUME NEW st \in GameStatus, st # "none"
    PROVE  Mapped(st) \in RowStatus
BY DEF Mapped, GameStatus, RowStatus

\* A row never changes its trade.
RowsKeepTrade == \A r \in Row : rtrade[r] # None => rtrade'[r] = rtrade[r]

\* A synchronisation that returns leaves the typing intact.
LEMMA ReturnsTyped ==
    ASSUME Typed, NEW s \in Slot, spc[s] # "idle", NEW p \in {"check", "next"},
           SyncReturns(s, p),
           UNCHANGED <<game, days, tally>>,
           rtrade' \in [Row -> Trade \cup {None}], rstatus' \in [Row -> RowStatus],
           RowsKeepTrade
    PROVE  Typed'
<1> USE DEF Typed, SyncReturns, ClearSync
<1>1. pc' \in {pc, p} /\ (s = Cycle => pc' = p) /\ (spc[Cycle] # "idle" => pc = "sync")
  BY DEF Placed
<1>2. TypeOK'
  <2>1. pc' \in SchedPC
    BY <1>1 DEF TypeOK, SchedPC
  <2>2. snap' \in [Slot -> [Trade -> GameStatus]]
    BY EmptyTyped DEF TypeOK
  <2>3. upd' \in [Slot -> [Row -> RowStatus \cup {"keep"}]]
    BY EmptyTyped DEF TypeOK
  <2>4. spc' \in [Slot -> SyncPC] /\ sacct' \in [Slot -> Account \cup {None}]
    BY DEF TypeOK, SyncPC
  <2> QED
    BY <2>1, <2>2, <2>3, <2>4 DEF TypeOK, game, days, tally
<1>3. Placed'
  BY <1>1 DEF TypeOK, Placed, Visiting, SchedPC, Slot
<1>4. InsertsListed'
  BY DEF TypeOK, InsertsListed
<1>5. CurHasTrade'
  BY <1>1, NoneAssumption DEF TypeOK, CurHasTrade, Deciding, Done, RowsKeepTrade
<1> QED
  BY <1>2, <1>3, <1>4, <1>5

\* Every step keeps the typing.
LEMMA TypedStep == Typed /\ [Next]_vars => Typed'
<1> SUFFICES ASSUME Typed, [Next]_vars PROVE Typed'
  OBVIOUS
<1> USE NoneAssumption
<1> USE DEF Typed, TypeOK, Placed, InsertsListed, CurHasTrade,
        Visiting, Deciding, Done, SchedPC, SyncPC, Slot,
        game, rows, days, sched, syncs, tally, Goto, Leave, Makes, Record, SetStatus
<1>1. ASSUME NEW t \in Trade, PlayerStep(t) PROVE Typed'
  BY <1>1 DEF PlayerStep, PlayerOffers, PlayerAccepts, Closes, Unlists, GameStatus
<1>2. CASE NewDay
  BY <1>2 DEF NewDay
<1>3. ASSUME NEW s \in Slot, SyncStep(s) PROVE Typed'
  <2>1. CASE FetchFails(s) \/ SyncEmpty(s)
    BY <2>1, ReturnsTyped DEF FetchFails, SyncEmpty, RowsKeepTrade
  <2>2. CASE FetchOk(s)
    BY <2>2 DEF FetchOk, Listing, GameStatus
  <2>3. CASE SyncMark(s)
    BY <2>3 DEF SyncMark, Party
  <2>4. CASE SyncRead(s)
    BY <2>4, MappedType DEF SyncRead, Listed, RowStatus
  <2>5. CASE SyncRaises(s)
    BY <2>5, ReturnsTyped DEF SyncRaises, RowsKeepTrade
  <2>6. CASE SyncWrite(s)
    <3>1. PICK new \in [ins[s] -> {r \in Row : rtrade[r] = None}] :
              /\ rtrade' = [r \in Row |->
                     IF \E t \in ins[s] : new[t] = r
                     THEN CHOOSE t \in ins[s] : new[t] = r ELSE rtrade[r]]
              /\ rstatus' = [r \in Row |->
                     IF \E t \in ins[s] : new[t] = r
                     THEN Mapped(snap[s][CHOOSE t \in ins[s] : new[t] = r])
                     ELSE IF upd[s][r] # "keep" THEN upd[s][r] ELSE rstatus[r]]
      BY <2>6 DEF SyncWrite
    <3>2. ASSUME NEW r \in Row
          PROVE  /\ rtrade'[r] \in Trade \cup {None}
                 /\ rtrade[r] # None => rtrade'[r] = rtrade[r]
                 /\ rstatus'[r] \in RowStatus
      <4>1. CASE \E t \in ins[s] : new[t] = r
        <5> DEFINE u == CHOOSE t \in ins[s] : new[t] = r
        <5>1. u \in ins[s] /\ new[u] = r
          BY <4>1
        <5>2. rtrade'[r] = u /\ rstatus'[r] = Mapped(snap[s][u])
          BY <3>1, <4>1
        <5>3. u \in Trade /\ snap[s][u] \in GameStatus /\ snap[s][u] # "none"
          BY <5>1
        <5>4. rtrade[r] = None
          BY <5>1
        <5> QED
          BY <5>2, <5>3, <5>4, MappedType
      <4>2. CASE ~\E t \in ins[s] : new[t] = r
        BY <3>1, <4>2
      <4> QED
        BY <4>1, <4>2
    <3>3. rtrade' \in [Row -> Trade \cup {None}] /\ rstatus' \in [Row -> RowStatus]
      BY <3>1, <3>2
    <3> QED
      BY <2>6, <3>2, <3>3, ReturnsTyped DEF SyncWrite, RowsKeepTrade
  <2> QED
    BY <1>3, <2>1, <2>2, <2>3, <2>4, <2>5, <2>6 DEF SyncStep
<1>4. ASSUME NEW s \in Slot, NEW a \in Account, SyncBegins(s, a) PROVE Typed'
  BY <1>4 DEF SyncBegins
<1>5. ASSUME NEW a \in Account, Skips(a) \/ Visits(a) PROVE Typed'
  BY <1>5 DEF Skips, Visits
<1>6. CASE CycleBegins \/ CycleEnds \/ Checks \/ Pending
  <2>1. CASE CycleBegins \/ CycleEnds
    BY <2>1 DEF CycleBegins, CycleEnds
  <2>2. CASE Checks
    BY <2>2 DEF Checks
  <2>3. CASE Pending
    BY <2>3 DEF Pending
  <2> QED
    BY <1>6, <2>1, <2>2, <2>3
<1>7. CASE AcceptStep
  <2>1. CASE VerifyOk \/ VerifyFails \/ AcceptRetried \/ AcceptInvalid \/ AcceptRefused \/ Apply
    BY <2>1 DEF VerifyOk, VerifyFails, AcceptRetried, AcceptInvalid, AcceptRefused, Apply
  <2>2. CASE AcceptOk \/ AcceptLost
    BY <2>2 DEF AcceptOk, AcceptLost, Accepted, GameStatus
  <2>3. CASE Reject \/ Settle
    BY <2>3 DEF Reject, Settle, RowStatus
  <2>4. CASE MarkFrom \/ MarkTo
    BY <2>4, TradeAssumption DEF MarkFrom, MarkTo
  <2> QED
    BY <1>7, <2>1, <2>2, <2>3, <2>4 DEF AcceptStep
<1>8. CASE CreateStep
  <2>1. ASSUME NEW t \in Trade, CreateOk(t) \/ CreateLost(t) PROVE Typed'
    BY <2>1 DEF CreateOk, CreateLost, Created, GameStatus
  <2>2. CASE CreateRefused \/ NoMatch \/ MarkSelf
    BY <2>2 DEF CreateRefused, NoMatch, MarkSelf, Party
  <2>3. CASE Save
    BY <2>3 DEF Save, RowStatus
  <2> QED
    BY <1>8, <2>1, <2>2, <2>3 DEF CreateStep
<1>9. CASE Raises
  BY <1>9 DEF Raises, Unrecorded
<1>10. CASE Crash
  <2>1. spc' \in [Slot -> SyncPC] /\ sacct' \in [Slot -> Account \cup {None}]
    BY <1>10, NoSyncTyped DEF Crash
  <2>2. snap' \in [Slot -> [Trade -> GameStatus]]
    BY <1>10, NoSyncTyped DEF Crash
  <2>3. upd' \in [Slot -> [Row -> RowStatus \cup {"keep"}]]
    BY <1>10, NoSyncTyped DEF Crash
  <2>4. ins' \in [Slot -> SUBSET Trade]
    BY <1>10, NoSyncTyped DEF Crash
  <2>5. TypeOK'
    <3>1. /\ pc' = "idle" /\ todo' = {} /\ acct' = None /\ cur' = None
          /\ made' = None /\ tries' = 0 /\ old' = {} /\ late' = FALSE
          /\ spent' \subseteq Account /\ UNCHANGED <<game, rows, traded, twice>>
      BY <1>10 DEF Crash
    <3>2. tries' \in 0..1 /\ pc' \in SchedPC
      BY <3>1
    <3> QED
      BY <2>1, <2>2, <2>3, <2>4, <3>1, <3>2
  <2>6. Placed' /\ InsertsListed' /\ CurHasTrade'
    BY <1>10 DEF Crash
  <2> QED
    BY <2>5, <2>6
<1>11. CASE UNCHANGED vars
  BY <1>11 DEF vars
<1> QED
  BY <1>1, <1>2, <1>3, <1>4, <1>5, <1>6, <1>7, <1>8, <1>9, <1>10, <1>11
  DEF Next, CycleStep

\* The model is well typed: among its facts, the scheduler never decides about a
\* row without a trade and a synchronisation writes only words a row may have.
THEOREM TypeCorrect == Spec => []TypeOK
<1>1. Typed => TypeOK
  BY DEF Typed
<1> QED
  BY InitTyped, TypedStep, <1>1, PTL DEF Spec

-----------------------------------------------------------------------------
(* The table and the game                                                  *)

\* The game never takes an acceptance back.
GameKeeps == \A t \in Trade : status[t] = "accepted" => status'[t] = "accepted"

LEMMA AcceptanceIsFinal == Typed /\ [Next]_vars => GameKeeps
<1> SUFFICES ASSUME Typed, [Next]_vars, NEW t \in Trade, status[t] = "accepted"
             PROVE  status'[t] = "accepted"
  BY DEF GameKeeps
<1> USE DEF Typed, TypeOK, game
<1>1. ASSUME NEW u \in Trade, PlayerStep(u) PROVE status'[t] = "accepted"
  BY <1>1 DEF PlayerStep, PlayerOffers, PlayerAccepts, Closes, Unlists
<1>2. ASSUME NEW s \in Slot, SyncStep(s) PROVE status'[t] = "accepted"
  BY <1>2 DEF SyncStep, FetchFails, FetchOk, SyncMark, SyncEmpty, SyncRead,
              SyncRaises, SyncWrite
<1>3. CASE AcceptStep
  BY <1>3 DEF AcceptStep, VerifyOk, VerifyFails, AcceptOk, AcceptLost, Accepted,
              AcceptRetried, AcceptInvalid, AcceptRefused, Reject, Apply,
              MarkFrom, MarkTo, Settle
<1>4. CASE CreateStep
  BY <1>4 DEF CreateStep, CreateOk, CreateLost, Created, CreateRefused, NoMatch,
              Save, MarkSelf
<1> QED
  BY <1>1, <1>2, <1>3, <1>4
  DEF Next, CycleStep, NewDay, SyncBegins, Skips, Visits, CycleBegins, CycleEnds,
      Checks, Pending, Raises, Crash, vars

\* A row that takes the word "accepted" from the listing or the update a
\* synchronisation holds takes it of a trade the game has carried out.
LEMMA WriteTold ==
    ASSUME Typed, Told, NEW s \in Slot, SyncWrite(s)
    PROVE  RowsKeepTrade /\ AcceptedInGame'
<1> USE NoneAssumption
<1> USE DEF Typed, TypeOK, Told
<1>1. PICK new \in [ins[s] -> {r \in Row : rtrade[r] = None}] :
          /\ rtrade' = [r \in Row |->
                 IF \E t \in ins[s] : new[t] = r
                 THEN CHOOSE t \in ins[s] : new[t] = r ELSE rtrade[r]]
          /\ rstatus' = [r \in Row |->
                 IF \E t \in ins[s] : new[t] = r
                 THEN Mapped(snap[s][CHOOSE t \in ins[s] : new[t] = r])
                 ELSE IF upd[s][r] # "keep" THEN upd[s][r] ELSE rstatus[r]]
  BY DEF SyncWrite
<1>2. status' = status
  BY DEF SyncWrite, game
<1>3. ASSUME NEW r \in Row
      PROVE  /\ rtrade[r] # None => rtrade'[r] = rtrade[r]
             /\ rtrade'[r] # None /\ rstatus'[r] = "accepted"
                    => status[rtrade'[r]] = "accepted"
  <2>1. CASE \E t \in ins[s] : new[t] = r
    <3> DEFINE u == CHOOSE t \in ins[s] : new[t] = r
    <3>1. u \in ins[s] /\ new[u] = r
      BY <2>1
    <3>2. rtrade'[r] = u /\ rstatus'[r] = Mapped(snap[s][u]) /\ rtrade[r] = None
      BY <1>1, <2>1, <3>1
    <3> QED
      BY <3>1, <3>2 DEF SnapInGame, Mapped
  <2>2. CASE ~\E t \in ins[s] : new[t] = r
    BY <1>1, <2>2 DEF UpdateInGame, AcceptedInGame
  <2> QED
    BY <2>1, <2>2
<1> QED
  BY <1>2, <1>3 DEF RowsKeepTrade, AcceptedInGame

LEMMA RowKeepsTrade == Typed /\ Told /\ [Next]_vars => RowsKeepTrade
<1> SUFFICES ASSUME Typed, Told, [Next]_vars PROVE RowsKeepTrade
  OBVIOUS
<1>1. ASSUME NEW s \in Slot, SyncStep(s) PROVE RowsKeepTrade
  BY <1>1, WriteTold DEF SyncStep, FetchFails, FetchOk, SyncMark, SyncEmpty, SyncRead,
              SyncRaises, rows, RowsKeepTrade
<1>2. CASE Save
  BY <1>2 DEF Save, Typed, TypeOK, RowsKeepTrade
<1>3. CASE UNCHANGED rtrade
  BY <1>3 DEF RowsKeepTrade
<1>4. ASSUME NEW t \in Trade, PlayerStep(t) PROVE UNCHANGED rtrade
  BY <1>4 DEF PlayerStep, PlayerOffers, PlayerAccepts, Closes, Unlists, rows
<1>5. CASE AcceptStep
  BY <1>3, <1>5 DEF AcceptStep, VerifyOk, VerifyFails, AcceptOk, AcceptLost,
              AcceptRetried, AcceptInvalid, AcceptRefused, Reject, Apply,
              MarkFrom, MarkTo, Settle, SetStatus, rows
<1>6. CASE CreateStep /\ ~Save
  BY <1>3, <1>6 DEF CreateStep, CreateOk, CreateLost, CreateRefused, NoMatch,
              MarkSelf, rows
<1> QED
  BY <1>1, <1>2, <1>3, <1>4, <1>5, <1>6
  DEF Next, CycleStep, NewDay, SyncBegins, Skips, Visits, CycleBegins, CycleEnds,
      Checks, Pending, Raises, Crash, vars, rows

LEMMA InitTold == Init => Told
BY DEF Init, Told, AcceptedInGame, SnapInGame, UpdateInGame, CurInGame,
       Nothing, NoUpdate, Done

\* Every step keeps the three sources and the table true.
LEMMA ToldStep == Typed /\ Told /\ [Next]_vars => Told'
<1> SUFFICES ASSUME Typed, Told, [Next]_vars PROVE Told'
  OBVIOUS
<1>a. GameKeeps /\ RowsKeepTrade /\ Typed'
  BY AcceptanceIsFinal, RowKeepsTrade, TypedStep
<1> USE NoneAssumption
<1> USE DEF Typed, TypeOK, CurHasTrade, Told, AcceptedInGame, SnapInGame, UpdateInGame,
        CurInGame, Deciding, Done, game, rows, days, sched, syncs, tally,
        Goto, Leave, SetStatus, GameKeeps, RowsKeepTrade
\* A step that touches no row, listing or update and decides nothing.
<1>b. ASSUME UNCHANGED <<rtrade, rstatus, snap, upd>>,
             pc' \in Done => pc \in Done /\ cur' = cur
      PROVE  Told'
  BY <1>a, <1>b
<1>1. ASSUME NEW t \in Trade, PlayerStep(t) PROVE Told'
  BY <1>1, <1>b DEF PlayerStep, PlayerOffers, PlayerAccepts, Closes, Unlists
<1>2. CASE NewDay
  BY <1>2, <1>b DEF NewDay
<1>3. ASSUME NEW s \in Slot, SyncStep(s) PROVE Told'
  <2>1. ASSUME NEW p \in {"check", "next"}, SyncReturns(s, p), status' = status,
               spc[s] # "idle"
        PROVE  SnapInGame' /\ UpdateInGame' /\ CurInGame'
    <3>1. SnapInGame'
      BY <2>1 DEF SyncReturns, ClearSync, Nothing
    <3>2. UpdateInGame'
      BY <1>a, <2>1 DEF SyncReturns, ClearSync, NoUpdate
    <3>3. pc' \in Done => pc \in Done /\ cur' = cur
      BY <2>1 DEF SyncReturns, Placed
    <3>4. CurInGame'
      BY <1>a, <2>1, <3>3 
    <3> QED
      BY <3>1, <3>2, <3>4
  <2>2. CASE FetchFails(s) \/ SyncEmpty(s) \/ SyncRaises(s)
    BY <2>1, <2>2 DEF FetchFails, SyncEmpty, SyncRaises
  <2>3. CASE FetchOk(s)
    BY <1>a, <2>3 DEF FetchOk, Listing
  <2>4. CASE SyncMark(s)
    BY <1>b, <2>4 DEF SyncMark
  <2>5. CASE SyncRead(s)
    BY <2>5 DEF SyncRead, Listed, Mapped
  <2>6. CASE SyncWrite(s)
    BY <2>1, <2>6, WriteTold DEF SyncWrite
  <2> QED
    BY <1>3, <2>2, <2>3, <2>4, <2>5, <2>6 DEF SyncStep
<1>4. ASSUME NEW s \in Slot, NEW a \in Account, SyncBegins(s, a) PROVE Told'
  BY <1>4, <1>b DEF SyncBegins
<1>5. ASSUME NEW a \in Account, Skips(a) \/ Visits(a) PROVE Told'
  BY <1>5, <1>b DEF Skips, Visits
<1>6. CASE CycleBegins \/ CycleEnds \/ Checks \/ Pending
  BY <1>6, <1>b DEF CycleBegins, CycleEnds, Checks, Pending
<1>7. CASE AcceptStep
  <2>1. CASE VerifyOk \/ VerifyFails \/ AcceptLost \/ AcceptRetried \/ AcceptInvalid
             \/ AcceptRefused \/ Apply \/ MarkFrom \/ MarkTo
    BY <2>1, <1>b DEF VerifyOk, VerifyFails, AcceptLost, AcceptRetried, AcceptInvalid,
                      AcceptRefused, Apply, MarkFrom, MarkTo
  <2>2. CASE AcceptOk
    BY <1>a, <2>2 DEF AcceptOk, Accepted
  <2>3. CASE Reject \/ Settle
    BY <1>a, <2>3 DEF Reject, Settle
  <2> QED
    BY <1>7, <2>1, <2>2, <2>3 DEF AcceptStep
<1>8. CASE CreateStep
  <2>1. ASSUME NEW t \in Trade, CreateOk(t) \/ CreateLost(t) PROVE Told'
    BY <2>1, <1>b DEF CreateOk, CreateLost
  <2>2. CASE CreateRefused \/ NoMatch \/ MarkSelf
    BY <2>2, <1>b DEF CreateRefused, NoMatch, MarkSelf
  <2>3. CASE Save
    BY <1>a, <2>3 DEF Save
  <2> QED
    BY <1>8, <2>1, <2>2, <2>3 DEF CreateStep
<1>9. CASE Raises
  BY <1>9, <1>b DEF Raises
<1>10. CASE Crash
  BY <1>a, <1>10 DEF Crash, Nothing, NoUpdate
<1>11. CASE UNCHANGED vars
  BY <1>11, <1>b DEF vars
<1> QED
  BY <1>1, <1>2, <1>3, <1>4, <1>5, <1>6, <1>7, <1>8, <1>9, <1>10, <1>11
  DEF Next, CycleStep

\* The table says "accepted" only of trades the game has carried out, whatever
\* overlaps, fails, gets lost or crashes.
THEOREM AcceptedCorrect == Spec => []AcceptedInGame
<1>1. Init => Typed /\ Told
  BY InitTyped, InitTold
<1>2. Typed /\ Told /\ [Next]_vars => Typed' /\ Told'
  BY TypedStep, ToldStep
<1>3. Told => AcceptedInGame
  BY DEF Told
<1> QED
  BY <1>1, <1>2, <1>3, PTL DEF Spec

-----------------------------------------------------------------------------
(* One trade a day                                                         *)

\* The scheduler has found no trade of today and has made none yet.
Free == {"pending", "verify", "accept", "reject", "match"}

\* The row being accepted is offered to the account.
CurIsOffered == pc \in Deciding \cup Done => rtrade[cur].to = acct

\* A trade of today is in the daily record, or on its way there.
SpentRecorded ==
    /\ late => spent = {}
    /\ \A a \in spent : a \in traded \/ (a = acct /\ Unrecorded)

FreeUnspent == pc \in Free => acct \notin spent

Daily == CurIsOffered /\ SpentRecorded /\ FreeUnspent /\ OneTradePerDay

LEMMA InitDaily == Init => Daily
BY DEF Init, Daily, CurIsOffered, SpentRecorded, FreeUnspent, OneTradePerDay,
       Free, Deciding, Done

LEMMA DailyStep == Typed /\ Told /\ Daily /\ [Next]_vars => Daily'
<1> SUFFICES ASSUME Typed, Told, Daily, [Next]_vars PROVE Daily'
  OBVIOUS
<1>a. RowsKeepTrade /\ Typed'
  BY RowKeepsTrade, TypedStep
<1> USE NoneAssumption
<1> USE DEF Typed, TypeOK, CurHasTrade, Daily, CurIsOffered, SpentRecorded, FreeUnspent,
        OneTradePerDay, Unrecorded, Deciding, Done, Free, RowsKeepTrade,
        game, rows, days, sched, syncs, tally, Goto, Leave, Makes, Record, SetStatus
\* A step that leaves the scheduler alone and records no less.
<1>b. ASSUME UNCHANGED <<sched, late, tally>>, traded \subseteq traded' PROVE Daily'
  BY <1>a, <1>b
<1>1. ASSUME NEW t \in Trade, PlayerStep(t) PROVE Daily'
  BY <1>1, <1>b DEF PlayerStep, PlayerOffers, PlayerAccepts, Closes, Unlists
<1>2. CASE NewDay
  BY <1>2 DEF NewDay
<1>3. ASSUME NEW s \in Slot, SyncStep(s) PROVE Daily'
  <2>1. ASSUME NEW p \in {"check", "next"}, SyncReturns(s, p), UNCHANGED <<days, tally>>,
               spc[s] # "idle"
        PROVE  Daily'
    <3>1. CASE s = Cycle
      BY <2>1, <3>1 DEF SyncReturns, Placed
    <3>2. CASE s # Cycle
      BY <1>b, <2>1, <3>2 DEF SyncReturns
    <3> QED
      BY <3>1, <3>2
  <2>2. CASE FetchFails(s) \/ SyncEmpty(s) \/ SyncRaises(s) \/ SyncWrite(s)
    BY <2>1, <2>2 DEF FetchFails, SyncEmpty, SyncRaises, SyncWrite
  <2>3. CASE FetchOk(s) \/ SyncMark(s) \/ SyncRead(s)
    BY <1>b, <2>3 DEF FetchOk, SyncMark, SyncRead
  <2> QED
    BY <1>3, <2>2, <2>3 DEF SyncStep
<1>4. ASSUME NEW s \in Slot, NEW a \in Account, SyncBegins(s, a) PROVE Daily'
  BY <1>4, <1>b DEF SyncBegins
<1>5. ASSUME NEW a \in Account, Skips(a) \/ Visits(a) PROVE Daily'
  BY <1>5 DEF Skips, Visits
<1>6. CASE CycleBegins \/ CycleEnds \/ Checks \/ Pending
  <2>1. CASE CycleBegins \/ CycleEnds
    BY <2>1 DEF CycleBegins, CycleEnds
  <2>2. CASE Checks
    BY <2>2 DEF Checks, RecordedTraded
  <2>3. CASE Pending
    BY <2>3 DEF Pending
  <2> QED
    BY <1>6, <2>1, <2>2, <2>3
<1>7. CASE AcceptStep
  <2>1. CASE VerifyOk \/ VerifyFails \/ AcceptRetried \/ AcceptInvalid
             \/ AcceptRefused \/ Apply \/ AcceptLost
    BY <2>1 DEF VerifyOk, VerifyFails, AcceptLost, AcceptRetried, AcceptInvalid,
                AcceptRefused, Apply
  <2>2. CASE AcceptOk
    BY <2>2 DEF AcceptOk
  <2>3. CASE MarkFrom
    BY <2>3 DEF MarkFrom
  <2>4. CASE MarkTo
    BY <2>4 DEF MarkTo
  <2>5. CASE Reject \/ Settle
    BY <2>5 DEF Reject, Settle
  <2> QED
    BY <1>7, <2>1, <2>2, <2>3, <2>4, <2>5 DEF AcceptStep
<1>8. CASE CreateStep
  <2>1. ASSUME NEW t \in Trade, CreateOk(t) \/ CreateLost(t) PROVE Daily'
    BY <2>1 DEF CreateOk, CreateLost
  <2>2. CASE CreateRefused \/ NoMatch
    BY <2>2 DEF CreateRefused, NoMatch
  <2>3. CASE Save
    BY <2>3 DEF Save
  <2>4. CASE MarkSelf
    BY <2>4 DEF MarkSelf
  <2> QED
    BY <1>8, <2>1, <2>2, <2>3, <2>4 DEF CreateStep
<1>9. CASE Raises
  BY <1>9 DEF Raises
<1>10. CASE Crash
  BY <1>10 DEF Crash
<1>11. CASE UNCHANGED vars
  BY <1>11, <1>b DEF vars
<1> QED
  BY <1>1, <1>2, <1>3, <1>4, <1>5, <1>6, <1>7, <1>8, <1>9, <1>10, <1>11
  DEF Next, CycleStep

\* No account makes a second trade on a day on which its first was recorded, for
\* any number of accounts, trades and rows, with every fault and every overlap.
THEOREM DailyCorrect == Spec => []OneTradePerDay
<1>1. Init => Typed /\ Told /\ Daily
  BY InitTyped, InitTold, InitDaily
<1>2. Typed /\ Told /\ Daily /\ [Next]_vars => Typed' /\ Told' /\ Daily'
  BY TypedStep, ToldStep, DailyStep
<1>3. Daily => OneTradePerDay
  BY DEF Daily
<1> QED
  BY <1>1, <1>2, <1>3, PTL DEF Spec
-----------------------------------------------------------------------------
(***************************************************************************)
(* When no synchronisation overlaps a scheduler cycle or another one, a    *)
(* trade has one row and a row that says "accepted" stays so: for any      *)
(* accounts, trades and rows, with failed transactions, lost answers,      *)
(* midnight and crashes.  Both rest on the same fact, that what a          *)
(* coroutine read before an await is still so after it, which holds        *)
(* because nobody else writes the table meanwhile.                         *)
(***************************************************************************)

\* One coroutine at a time.
Alone ==
    /\ \A s, u \in Slot : spc[s] # "idle" /\ spc[u] # "idle" => s = u
    /\ \A s \in Syncer : spc[s] # "idle" => pc = "idle"

\* A trade in the table, or listed to a synchronisation, exists in the game.
Known ==
    /\ \A r \in Row : rtrade[r] # None => status[rtrade[r]] # "none"
    /\ \A s \in Slot : \A t \in Trade : snap[s][t] # "none" => status[t] # "none"

Injective == \A r, q \in Row : rtrade[r] # None /\ rtrade[r] = rtrade[q] => r = q

\* What is about to be inserted has no row.
InsertsNew == \A s \in Slot : \A t \in ins[s] : \A r \in Row : rtrade[r] # t
MadeNew ==
    pc = "save" => /\ made \in Trade /\ status[made] # "none"
                   /\ \A r \in Row : rtrade[r] # made

\* An accepted row is neither about to be overwritten by a synchronisation, nor
\* the one the scheduler decides about.
Reading == {"mark", "read", "write"}
SnapIsNews ==
    \A s \in Slot : \A r \in Row :
        spc[s] \in Reading /\ rtrade[r] # None /\ rstatus[r] = "accepted"
            => snap[s][rtrade[r]] \in {"none", "accepted"}
UpdateIsNews ==
    \A s \in Slot : \A r \in Row :
        spc[s] = "write" /\ rtrade[r] # None /\ rstatus[r] = "accepted"
            => upd[s][r] \in {"keep", "accepted"}
CurIsPending == pc \in Deciding \cup Done => rstatus[cur] = "pending"

Serial ==
    /\ Alone /\ Known /\ Injective /\ InsertsNew /\ MadeNew
    /\ SnapIsNews /\ UpdateIsNews /\ CurIsPending

LEMMA InitSerial == Init => Serial
BY DEF Init, Serial, Alone, Known, Injective, InsertsNew, MadeNew, SnapIsNews,
       UpdateIsNews, CurIsPending, Nothing, NoUpdate, Deciding, Done

\* The game never forgets a trade.
GameKnows == \A t \in Trade : status[t] # "none" => status'[t] # "none"

LEMMA TradesStay == Typed /\ [Next]_vars => GameKnows
<1> SUFFICES ASSUME Typed, [Next]_vars, NEW t \in Trade, status[t] # "none"
             PROVE  status'[t] # "none"
  BY DEF GameKnows
<1> USE DEF Typed, TypeOK, game
<1>1. ASSUME NEW u \in Trade, PlayerStep(u) PROVE status'[t] # "none"
  BY <1>1 DEF PlayerStep, PlayerOffers, PlayerAccepts, Closes, Unlists
<1>2. ASSUME NEW s \in Slot, SyncStep(s) PROVE status'[t] # "none"
  BY <1>2 DEF SyncStep, FetchFails, FetchOk, SyncMark, SyncEmpty, SyncRead,
              SyncRaises, SyncWrite
<1>3. CASE AcceptStep
  BY <1>3 DEF AcceptStep, VerifyOk, VerifyFails, AcceptOk, AcceptLost, Accepted,
              AcceptRetried, AcceptInvalid, AcceptRefused, Reject, Apply,
              MarkFrom, MarkTo, Settle
<1>4. CASE CreateStep
  BY <1>4 DEF CreateStep, CreateOk, CreateLost, Created, CreateRefused, NoMatch,
              Save, MarkSelf
<1> QED
  BY <1>1, <1>2, <1>3, <1>4
  DEF Next, CycleStep, NewDay, SyncBegins, Skips, Visits, CycleBegins, CycleEnds,
      Checks, Pending, Raises, Crash, vars

\* While the scheduler is at work outside its own synchronisation, none runs.
LEMMA SchedulerAlone ==
    ASSUME Typed, Alone, pc \notin {"idle", "sync"}
    PROVE  \A s \in Slot : spc[s] = "idle"
BY DEF Typed, Placed, Alone, Slot

\* What the commit of a synchronisation does to the table.
LEMMA WriteSerial ==
    ASSUME Typed, Told, Serial, NEW s \in Slot, SyncWrite(s)
    PROVE  /\ Injective'
           /\ \A r \in Row : rtrade'[r] # None => status[rtrade'[r]] # "none"
           /\ \A r \in Row : rtrade[r] # None /\ rstatus[r] = "accepted"
                                  => rstatus'[r] = "accepted"
<1> USE NoneAssumption
<1> USE DEF Typed, TypeOK, InsertsListed, Serial
<1>1. PICK new \in [ins[s] -> {r \in Row : rtrade[r] = None}] :
          /\ \A t, u \in ins[s] : new[t] = new[u] => t = u
          /\ rtrade' = [r \in Row |->
                 IF \E t \in ins[s] : new[t] = r
                 THEN CHOOSE t \in ins[s] : new[t] = r ELSE rtrade[r]]
          /\ rstatus' = [r \in Row |->
                 IF \E t \in ins[s] : new[t] = r
                 THEN Mapped(snap[s][CHOOSE t \in ins[s] : new[t] = r])
                 ELSE IF upd[s][r] # "keep" THEN upd[s][r] ELSE rstatus[r]]
  BY DEF SyncWrite
<1>2. ASSUME NEW r \in Row
      PROVE  \/ /\ rtrade[r] = None
                /\ rtrade'[r] \in ins[s] /\ new[rtrade'[r]] = r
             \/ /\ rtrade'[r] = rtrade[r]
                /\ rstatus'[r] = IF upd[s][r] # "keep" THEN upd[s][r] ELSE rstatus[r]
  <2>1. CASE \E t \in ins[s] : new[t] = r
    <3> DEFINE u == CHOOSE t \in ins[s] : new[t] = r
    <3>1. u \in ins[s] /\ new[u] = r
      BY <2>1
    <3>2. rtrade'[r] = u /\ rtrade[r] = None
      BY <1>1, <2>1, <3>1
    <3> QED
      BY <3>1, <3>2
  <2>2. CASE ~\E t \in ins[s] : new[t] = r
    BY <1>1, <2>2
  <2> QED
    BY <2>1, <2>2
<1>3. Injective'
  <2> SUFFICES ASSUME NEW r \in Row, NEW q \in Row,
                      rtrade'[r] # None, rtrade'[r] = rtrade'[q]
               PROVE  r = q
    BY DEF Injective
  <2> QED
    BY <1>2 DEF Injective, InsertsNew
<1>4. ASSUME NEW r \in Row, rtrade'[r] # None PROVE status[rtrade'[r]] # "none"
  BY <1>2, <1>4 DEF Known
<1>5. ASSUME NEW r \in Row, rtrade[r] # None, rstatus[r] = "accepted"
      PROVE  rstatus'[r] = "accepted"
  BY <1>2, <1>5 DEF UpdateIsNews, SyncWrite
<1> QED
  BY <1>3, <1>4, <1>5

\* No step of a serial run takes the word "accepted" back.
RowsStayAccepted ==
    \A r \in Row : rtrade[r] # None /\ rstatus[r] = "accepted" => rstatus'[r] = "accepted"

LEMMA AcceptedStays == Typed /\ Told /\ Serial /\ [Next]_vars => RowsStayAccepted
<1> SUFFICES ASSUME Typed, Told, Serial, [Next]_vars PROVE RowsStayAccepted
  OBVIOUS
<1> USE DEF rows, RowsStayAccepted
<1>1. ASSUME NEW s \in Slot, SyncStep(s) PROVE RowsStayAccepted
  BY <1>1, WriteSerial DEF SyncStep, FetchFails, FetchOk, SyncMark, SyncEmpty,
                           SyncRead, SyncRaises
<1>2. CASE Save
  BY <1>2 DEF Save, Typed, TypeOK
<1>3. CASE Reject \/ Settle
  BY <1>3 DEF Reject, Settle, SetStatus, Typed, TypeOK, Serial, CurIsPending,
              Deciding, Done
<1>4. ASSUME NEW t \in Trade, PlayerStep(t) PROVE RowsStayAccepted
  BY <1>4 DEF PlayerStep, PlayerOffers, PlayerAccepts, Closes, Unlists
<1>5. CASE AcceptStep /\ ~Reject /\ ~Settle
  BY <1>5 DEF AcceptStep, VerifyOk, VerifyFails, AcceptOk, AcceptLost,
              AcceptRetried, AcceptInvalid, AcceptRefused, Apply, MarkFrom, MarkTo
<1>6. CASE CreateStep /\ ~Save
  BY <1>6 DEF CreateStep, CreateOk, CreateLost, CreateRefused, NoMatch, MarkSelf
<1> QED
  BY <1>1, <1>2, <1>3, <1>4, <1>5, <1>6
  DEF Next, CycleStep, NewDay, SyncBegins, Skips, Visits, CycleBegins, CycleEnds,
      Checks, Pending, Raises, Crash, vars

\* Every step of a serial run keeps the invariant.
LEMMA SerialStep ==
    ASSUME "overlap" \notin Faults
    PROVE  Typed /\ Told /\ Serial /\ [Next]_vars => Serial'
<1> SUFFICES ASSUME Typed, Told, Serial, [Next]_vars PROVE Serial'
  OBVIOUS
<1>a. GameKnows /\ RowsKeepTrade /\ Typed'
  BY TradesStay, RowKeepsTrade, TypedStep
<1> USE NoneAssumption
<1> USE DEF Typed, TypeOK, Placed, InsertsListed, CurHasTrade, Told,
        Serial, Alone, Known, Injective, InsertsNew, MadeNew, SnapIsNews, UpdateIsNews,
        CurIsPending, Deciding, Done, Reading, Slot, GameKnows, RowsKeepTrade,
        game, rows, days, sched, syncs, tally, Goto, Leave, SetStatus
\* A step of the game, the calendar or the scheduler outside the table.
<1>b. ASSUME UNCHANGED <<rows, syncs>>,
             pc' = "idle" => pc = "idle",
             \A s \in Syncer : spc[s] # "idle" => pc' = "idle",
             pc' = "save" => MadeNew',
             pc' \in Deciding \cup Done => pc \in Deciding \cup Done /\ cur' = cur
      PROVE  Serial'
  BY <1>a, <1>b
<1>1. ASSUME NEW t \in Trade, PlayerStep(t) PROVE Serial'
  BY <1>a, <1>1, <1>b DEF PlayerStep, PlayerOffers, PlayerAccepts, Closes, Unlists
<1>2. CASE NewDay
  BY <1>a, <1>2, <1>b DEF NewDay
<1>3. ASSUME NEW s \in Slot, SyncStep(s) PROVE Serial'
  <2>1. ASSUME NEW p \in {"check", "next"}, SyncReturns(s, p), spc[s] # "idle",
               status' = status
        PROVE  /\ \A u \in Slot : spc'[u] = "idle"
               /\ \A u \in Slot : \A t \in Trade : snap'[u][t] # "none" => status[t] # "none"
               /\ pc' \notin {"save"} \cup Deciding \cup Done
               /\ InsertsNew'
    BY <1>a, <2>1, SMTT(30) DEF SyncReturns, ClearSync, Nothing
  <2>2. CASE FetchFails(s) \/ SyncEmpty(s) \/ SyncRaises(s)
    BY <1>a, <2>1, <2>2 DEF FetchFails, SyncEmpty, SyncRaises
  <2>3. CASE FetchOk(s)
    BY <1>a, <2>3 DEF FetchOk, Listing, AcceptedInGame
  <2>4. CASE SyncMark(s)
    BY <1>a, <2>4 DEF SyncMark
  <2>5. CASE SyncRead(s)
    BY <1>a, <2>5 DEF SyncRead, Listed, Mapped, RowsOf, Ghost
  <2>6. CASE SyncWrite(s)
    BY <1>a, <2>1, <2>6, WriteSerial, SMTT(30) DEF SyncWrite
  <2> QED
    BY <1>3, <2>2, <2>3, <2>4, <2>5, <2>6 DEF SyncStep
<1>4. ASSUME NEW s \in Slot, NEW a \in Account, SyncBegins(s, a) PROVE Serial'
  BY <1>a, <1>4 DEF SyncBegins, Busy
<1>5. ASSUME NEW a \in Account, Skips(a) \/ Visits(a) PROVE Serial'
  BY <1>a, <1>5, SchedulerAlone DEF Skips, Visits
<1>6. CASE CycleBegins \/ CycleEnds \/ Checks \/ Pending
  <2>1. CASE CycleBegins
    BY <1>a, <2>1 DEF CycleBegins, Busy
  <2>2. CASE CycleEnds
    BY <1>a, <2>2 DEF CycleEnds
  <2>3. CASE Checks
    BY <1>a, <2>3, SchedulerAlone DEF Checks
  <2>4. CASE Pending
    BY <1>a, <2>4, SchedulerAlone DEF Pending
  <2> QED
    BY <1>6, <2>1, <2>2, <2>3, <2>4
<1>7. CASE AcceptStep
  <2>1. CASE VerifyOk \/ VerifyFails \/ AcceptRetried \/ AcceptInvalid \/ AcceptRefused
             \/ Apply \/ MarkFrom \/ MarkTo \/ AcceptLost
    BY <1>a, <1>b, <2>1, SchedulerAlone
    DEF VerifyOk, VerifyFails, AcceptLost, AcceptRetried, AcceptInvalid, AcceptRefused,
        Apply, MarkFrom, MarkTo
  <2>2. CASE AcceptOk
    BY <1>a, <1>b, <2>2, SchedulerAlone DEF AcceptOk
  <2>3. CASE Reject \/ Settle
    BY <1>a, <2>3, SchedulerAlone DEF Reject, Settle
  <2> QED
    BY <1>7, <2>1, <2>2, <2>3 DEF AcceptStep
<1>8. CASE CreateStep
  <2>1. ASSUME NEW t \in Trade, CreateOk(t) PROVE Serial'
    BY <1>a, <1>b, <2>1, SchedulerAlone DEF CreateOk, Created
  <2>2. CASE CreateRefused \/ NoMatch \/ MarkSelf \/ \E t \in Trade : CreateLost(t)
    BY <1>a, <1>b, <2>2, SchedulerAlone DEF CreateRefused, NoMatch, MarkSelf, CreateLost
  <2>3. CASE Save
    BY <1>a, <2>3, SchedulerAlone DEF Save
  <2> QED
    BY <1>8, <2>1, <2>2, <2>3 DEF CreateStep
<1>9. CASE Raises
  BY <1>a, <1>b, <1>9, SchedulerAlone DEF Raises, Unrecorded
<1>10. CASE Crash
  BY <1>a, <1>10 DEF Crash, Nothing, NoUpdate
<1>11. CASE UNCHANGED vars
  BY <1>a, <1>b, <1>11 DEF vars
<1> QED
  BY <1>1, <1>2, <1>3, <1>4, <1>5, <1>6, <1>7, <1>8, <1>9, <1>10, <1>11
  DEF Next, CycleStep

LEMMA SerialInvariant ==
    ASSUME "overlap" \notin Faults
    PROVE  Spec => [](Typed /\ Told /\ Serial)
<1>1. Init => Typed /\ Told /\ Serial
  BY InitTyped, InitTold, InitSerial
<1>2. Typed /\ Told /\ Serial /\ [Next]_vars => Typed' /\ Told' /\ Serial'
  BY TypedStep, ToldStep, SerialStep
<1> QED
  BY <1>1, <1>2, PTL DEF Spec

\* A trade of the game never has two rows, for any number of accounts, trades and
\* rows, if no synchronisation overlaps; museum_overlap shows that it may then.
THEOREM OneRowCorrect ==
    ASSUME "overlap" \notin Faults
    PROVE  Spec => []OneRowPerTrade
<1>1. Typed /\ Injective => OneRowPerTrade
  <2> SUFFICES ASSUME Typed, Injective, NEW t \in Trade
               PROVE  Cardinality(RowsOf(t)) <= 1
    BY DEF OneRowPerTrade
  <2>1. CASE RowsOf(t) = {}
    BY <2>1, FS_EmptySet
  <2>2. CASE RowsOf(t) # {}
    <3>1. PICK r \in Row : rtrade[r] = t
      BY <2>2 DEF RowsOf
    <3>2. RowsOf(t) = {r}
      BY <3>1, NoneAssumption DEF RowsOf, Injective
    <3> QED
      BY <3>2, FS_Singleton
  <2> QED
    BY <2>1, <2>2
<1>2. Serial => Injective
  BY DEF Serial
<1> QED
  BY SerialInvariant, <1>1, <1>2, PTL

\* A row that says "accepted" says so for ever, under the same conditions.
THEOREM AcceptedForGoodCorrect ==
    ASSUME "overlap" \notin Faults
    PROVE  Spec => AcceptedForGood
<1>1. Typed /\ Told /\ Serial /\ [Next]_vars => [RowsStayAccepted]_vars
  BY AcceptedStays
<1>2. Spec => [][RowsStayAccepted]_vars
  BY SerialInvariant, <1>1, PTL DEF Spec
<1> QED
  BY <1>2 DEF AcceptedForGood, RowsStayAccepted
=============================================================================
