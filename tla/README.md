# A TLA+ verification of the QPet backend

The backend (`src/backend`) automates accounts of a browser game. For every
managed account an engine holds a signed session with the game server and runs
loops that fight, farm, trade and collect; a FastAPI application starts and
stops engines and shows what they did; PostgreSQL keeps what must survive.

This directory holds TLA+ models of the parts where order, failure and
concurrency decide whether the program is right, the TLC runs that check them on
small instances, and TLAPS proofs for all instances. `PROJECT.json` lists the
components, runs, mutants, source lines, hazards and theorems.

## 1. Inventory

One process, one asyncio event loop. Code between two `await`s is atomic;
everything else interleaves. The exceptions are the logger's two writer threads
and the game server and database, which act on their own.

| Component | State | Operations | Interacts with | Hard |
|---|---|---|---|---|
| Engine life cycle (`services/engine.py`, `services/account_manager.py`, `main.py`, `routers/accounts.py`) | `_engines`, `_managers`, per instance `_running`, `_tasks`, 429 counter; `accounts.running` | get_or_create, start, stop, 429 stop, restore at boot, start/stop requests | every loop and most routes look engines up | start and stop await many times and overlap; crash; swallowed saves; exceptions |
| Museum trades (`services/farm/museum_trade_scheduler.py`) | tables `museum_trade`, `player_museum`, `daily_records.museum_trades`; the game's trades | cycle, accept, create, synchronise | engines' clients, farm synchronisation | five separate steps per trade, lost answers, stale listings, duplicates, midnight |
| Game client and keys (`services/qpet_client.py`, `core/crypto.py`) | key per client, one key file for all accounts, token | init, ensure, delete key, signed call, 401 and 429 callbacks | engines, routes, temporary clients | read-await-write of a shared file, concurrent re-registration |
| Daily records (`engine.py` 588-746) | counters in the memory of an engine, a row per account and day | restore, persist with max-merge, manual sync | all activities | change of date, restart, two writers, routes of a stopped engine |
| Main cycle and activities (`engine.py`, `services/*.py`, `services/battle`, `services/marriage`) | caches, stocks, counters | supply, check-in, chest, ads, shop, tower, bosses, flowers | item supply, inventory, game limits | two loops spending one resource, limits, cooldowns |
| Farm (`services/farm`) | plots and collection in the game, mirrored tables | harvest, plant, care, steal, dig, land, sync | daily records, museum | choice rules, mirrors overwritten while a trade is applied |
| Operation log (`core/logger.py`) | `logs`, `logs_history`, fold cache | log with folding, migrate | everything | two writer threads, migration beside writers |
| Sessions and caches (`core/redis.py`, `core/auth_middleware.py`, `routers/auth.py`) | sessions with expiry, cached answers | get, set, extend, delete | routes, engines' cache warming | throttled extension, shared keys |
| Auction (`services/auction.py`, `routers/auction.py`) | snapshot table | replace snapshot, analyse | engines' cache warming | several engines replace at once |
| Gang sync, AI gateway, dashboard, configuration | mirrors, answer cache, rows | refresh, ask, read | front end | little state |

What makes each correct:

* *Life cycle*: at most one engine acts for an account, whatever runs can be
  found and stopped, a rate-limited engine does stop, the persisted flag lets a
  restart restore exactly what ran, a stopped instance is never revived.
* *Museum trades*: the table says nothing the game did not do, a trade has one
  row, an account makes one trade a day, outcomes arrive.
* *Keys*: after any interleaving the key a client signs with is the one the game
  knows, and no account's key is lost through another's registration.
* *Daily records*: a day's row never says more than was done, becomes less only by a writer
  that is itself out of date, and a restart does not forget what it says. (That it takes
  nothing over from the day before does not hold: the counters in memory are never reset.)
* *Activities and farm*: no limit is exceeded, nothing is counted that was not done,
  no work is planned twice; the tables promise no more than the game has.
* *Log*: a line says no more than was said and, undisturbed, no less; migration
  loses and doubles nothing.
* *Snapshots and caches*: tables are replaced whole, what is shown is recent.

## 2. Plan and state

| Module | Content | Runs | Proofs |
|---|---|---|---|
| `EngineLifecycle` | life cycle, restore at boot, 429 stop | `lifecycle_*` | `EngineLifecycleProofs` |
| `EngineSwitch` | the abstract switch that the life cycle implements | `lifecycle_serial` | `EngineSwitchProofs` |
| `MuseumTrade` | trade protocol against the game | `museum_*` | `MuseumTradeProofs` |
| `KeyStore` | key file, 401 recovery, credential routes | `keys_*` | `KeyStoreProofs` |
| `DailyRecord` | counters in memory, the row of the day, restore, midnight | `records` | `RecordProofs` |
| `OperationLog` | folding, writer pool, nightly migration | `records` | `RecordProofs` |
| `Snapshots` | replacing tables as a whole, reading the newest batch | `records` | `CacheProofs` |
| `TwoLevelCache` | the caches of the routes and of the assistant | `records` | `CacheProofs` |
| `Activities` | supply, flowers, gang boss, tower, chests, advertisements | `engine_work` | `WorkProofs` |
| `Farm`, `FarmSocial` | the cycle of the own farm, the rounds through the friends | `engine_work` | `FarmProofs` |
| `FarmTables` | museum, collection and land in the database, calibration, the fragments of trades | `engine_work` | `FarmProofs` |

Each component is one module with its own Next. `MCEngineWork` and `MCRecords`
put four modules each into one run: `part` says which of them a behaviour
follows while the others rest in one state. The modules of a run share no
variable, so this checks each of them as a run of its own would; and what is proved of a
module holds of the run (`WorkIsEachPart`, `RecordsAreEachPart`).
Where components meet, the meeting point is inside one module:
`FarmTables` has the part of a trade that moves fragments, `DailyRecord` the mark
that the trade scheduler writes into the engine's row, `Activities` the supply all
errands draw on.

Still open: the gang mirrors.

## 3. Engine life cycle (`EngineLifecycle.tla`)

State. `registry` is `_engines`, `managers` is `_managers`, `flag` is
`accounts.running`. Engines are object identities that are reused after
collection: `acct`, `running`, `loops` (`_tasks` are alive), `hits`
(`_rate_limit_hits`), `phase` (the program counter of `start()`), `calls` (some
other coroutine uses the client). `spc`, `seng` and `sseen` are `stop()`
coroutines in flight, `boot` and `waiting` the `delayed_start` tasks, `reset` a stop
request that found no engine.

| Code | Actions |
|---|---|
| `get_or_create_engine`, `POST start` | `Launch`, `UserStart` |
| `delayed_start` in `main.py` | `RestoreAttempt`, `Report` |
| `start()` | `ConnectOk`, `ConnectFalse`, `StartRaises`, `Register`, `OnRead`, `OnWrite`, `InitDone`, `OffRead`, `OffWrite` |
| `_save_running` | split in read and commit, `CommitFlag` |
| loops, retry task | `LoopExit`, `BeginCall`, `EndCall` |
| `_check_rate_limited`, `_is_rate_limited` | `LimitedOnce`, `LimitedAgain`, `Poll` |
| `stop()`, `POST stop` | `BeginStop`, `UserStop`, `StopTask`, `StopRead`, `StopWrite`, `UserReset`, `ResetWrite` |
| process death, garbage collection | `Crash`, `Collect` |

`Collect` is external: it says when CPython frees an instance nobody refers to,
which lets a finite set of identities stand for unboundedly many objects.
`Faults` selects what the environment does: `overlap` (requests for an account
while another is in flight), `save` (`_save_running` swallows a failed commit),
`raise` (`start()` ends in an exception), `crash`. The length of cooldowns is left
out: `Poll` may see the cooldown over at any time.

Runs.

* `lifecycle_faults`: all faults. `RegisteredIsRunning` (what `get_engine` returns is
  usable), `TrippedIsStopping` (a second 429 always has a stop on its way, although
  loops reset the counter and other stops interfere), `StoppedForGood`.
  One account is enough since accounts share nothing but the event loop; two
  instances and two stops let an old instance's stop meet a new one.
* `lifecycle_serial`: two accounts, two identities, two stops, crashes, no overlap.
  `SingleEngine` (no two instances have any coroutine left for one account),
  `RunningIsRegistered`, `RunningIsFlagged`, and `ImplementsSwitch`.
* `lifecycle_live`: fair event loop. `OvertakenStartEnds`, `TrippedStops`, `BootSettles`.
* `lifecycle_overlap` (violation): README.md:112 promises each account its own engine;
  two overlapping starts leave two running engines, the first out of reach of stop.

Refinement. `EngineSwitch` is what users may rely on: per account a switch that goes
"off", "starting", "on", "ending" in one order, and a saved position, changed
only at stated moments (a failed start saves FALSE in the same step that turns it off, as the comment
at engine.py:197 asks; FALSE is never saved under a running engine). The refinement
mapping is `Power(a)`: "on" if an instance of `a` runs, "starting" if one is in `start()` or in its
failure path, "ending" if one only has coroutines left, and `saved <- flag`.
It holds if requests for an account do not overlap and starts do not raise: an
exception in `start()` leaves the flag set (see section 12).

Bounds: `Engine`, `Stopper` and `BootAttempts` (3 in the code, 1 or 2 in the large
runs; the attempts differ in nothing but their count). When no `Stopper` slot is free
a further stop waits, which removes no safety violation of one or two stops.

Fairness: weak fairness of each coroutine's next step. asyncio runs ready tasks in
turn and every await of a start or stop ends, as httpx and the database drivers
have timeouts. Requests, 429 answers and crashes are not fair. TLC checks that no step
needs strong fairness.

## 4. Museum trades (`MuseumTrade.tla`)

State. `status`, `listed` and `fresh` are the game's trades (external); `rtrade` and
`rstatus` the table `museum_trade`; `traded` the accounts whose daily record of today says
they traded, `old` and `late` the same for a cycle that began before midnight; `pc` and
its neighbours the scheduler coroutine; `spc[s]` and its neighbours a `sync_museum_trades` in
flight, one slot for the scheduler's own and the others for starting engines and
requests. `spent` and `twice` are ghosts of the property `OneTradePerDay`.

| Code | Actions |
|---|---|
| game and players (external) | `PlayerOffers`, `PlayerAccepts`, `Closes`, `Unlists`, `NewDay` |
| `sync_museum_trades` | `SyncBegins`, `FetchOk`, `FetchFails`, `SyncMark`, `SyncEmpty`, `SyncRead`, `SyncWrite`, `SyncRaises` |
| `run_museum_trade_cycle`, `_process_account` | `CycleBegins`, `Visits`, `Skips`, `Checks`, `Pending`, `CycleEnds` |
| `_accept_trade` | `VerifyOk` ... `Settle` |
| `_match_and_create` | `CreateOk`, `CreateLost`, `CreateRefused`, `NoMatch`, `Save`, `MarkSelf` |
| exception, process death | `Raises`, `Crash` |

Left out: items, quantities and fragments, which are in `FarmTables` (whether accounts match and whether fragments
suffice is open, except that a stranger's never do), and the order of pending
rows (rows of one synchronisation have equal `created_at`, so any may come first).
The test `unique_code == message` never fails for a row this program writes, as
both columns get the same value.

Runs.

* `museum_faults`: all faults around one trade. `AcceptedInGame`: a row says "accepted" only
  if the game carried the trade out, however stale a listing and wherever an
  acceptance stopped.
* `museum_serial`: two trades in opposite directions, synchronisations one at a time,
  lost answers, failed transactions, midnight, crashes. `OneRowPerTrade`, `AcceptedForGood`,
  and `OneTradePerDay`: once a trade was made for an account and recorded, no other follows that day.
  (A lost answer, a failed save or a cycle that outlives midnight does allow a second
  one; the ghost `spent` excepts just these.)
* `museum_live`: a stranger's trade, failing answers, crashes. `OutcomeArrives`.
* `museum_overlap` (violation): the existence check at line 568 and `scalar_one_or_none`
  at 572 suppose one row per trade; a synchronisation between the creation in the
  game and the insert leaves two, and from then on both parties' synchronisations raise.

Bounds: one or two trades, as properties relate a trade to one other at most; rows as many as
trades (one more each where duplicates occur); one synchronisation beside the scheduler's;
the date changes at most once per cycle.

Fairness (`museum_live`): the coroutines run; each account is visited again and again and each
await of its synchronisation succeeds infinitely often (strong fairness). This is an
assumption on the environment: an account that stays stopped, digs fewer than 50
plots a day, or never gets an answer is not synchronised by the code either.

## 5. Signing keys (`KeyStore.tla`)

State. `file` is `data/ecdsa_keys.json`, one entry per account; `mem` and `ready` the
`private_key` and `_ready` of a `QPetClient`; `use` what the client serves (a start, an
engine, a route's temporary client); `known` the key the game has registered for the account
(external). A task is a coroutine between two awaits: `pc`, its client `cl`, the key `new` it
registers, and `store`, the copy of the whole file `init_ecdsa` holds across its request and
writes back. `reg` (whom a key was registered for) and `raced` (the accounts for which
replacements of keys have overlapped) are ghosts. Key pairs are identities; one that nobody
holds may be generated again, which lets four stand for unboundedly many.

| Code | Actions and operators |
|---|---|
| `init_ecdsa`, `ensure_ecdsa_ready` | `InitEcdsa`, `Registers` (the game), `RegisterOk`, `RegisterFails` |
| `delete_key` | `DeleteKey`, `Renew` |
| `AccountManager.start`, `relogin` | `UserStarts`, `TokenSaved`, `NapEnds`, `ProbeOk`, `StartFails` |
| `GameEngine.stop` | `UserStops` |
| `api_call`, the 401 branch | `Calls`, `CallEnds`, `Rejected` |
| `_handle_auth_failure` of the engine | `Callback` |
| `_accept_trade`, its retry | `RejectedAccept` |
| `regenerate-key`, `credentials` (and `_accept_trade` of a client that is not ready) | `Regenerates` |
| `sync-daily`, `sync-gang`, creation of a trade | `Ensures` |
| `auction/refresh`, `sync-museum-trades` of an account that does not run | `TempOpens`, `TempCloses` |
| process death | `Crash` |

Runs.

* `keys_faults`: `OnlyRegistered`: no key is in the file or in memory that the game has not
  taken for just that account, although requests overlap, old copies of the file are written
  back and answers are lost. `Agreement`: unless replacements overlap, the file, a ready engine
  and the game agree on the key. What overlapping does is visible in `raced`: entries of
  other accounts get lost or come back, and two replacements for one account may leave the
  client with the loser; no text of the repository claims otherwise.
* `keys_live`: `Heals`: an engine whose key the game does not know gets a good one through a
  401, unless two replacements are in flight at once (recoveries that start together may
  invalidate one another again and again).

Bounds: two accounts, since the file relates an account to others at most one at a time; two
clients for one of them, for an old client beside its successor; two tasks, for one overlap;
four keys. The live run has one account and one client.

Fairness (`keys_live`): tasks run; an engine goes on calling; the game answers a registration and
a rejected call infinitely often when asked infinitely often (strong fairness, an
assumption on the network). Users and routes are not fair.

Assumed of the game: it keeps one key per account, the last registered, and answers 401 to a
call not signed with it. That is how `delete_key` followed by a registration is used throughout.

## 6. Daily records (`DailyRecord.tla`)

State. The counters live in an engine, and a stop loses them as much as the end of the process does; but
only the end of the process ends every coroutine. `memory[e]` says of each engine some coroutine still holds whether
it is new, restored or could not be, `count[e]` is what it holds (`NpcBattle.today_count` and its like,
`Checkin._done_date`), `record[d]` the column in the row of day `d`, which is shared by all; `stage`, `by` and `draft` are the
coroutines that are writing it, the engine each writes for, the day it took and the value it
holds. `done[d]` is what was really done. Two ghosts serve the properties: `stale`, the writers whose value is out of date
(the game's answer was lost, or another wrote the row since they read it), and `overtaken`, the engines beside which a
writer of another engine has written today's row.
Columns do not mix, so a behaviour follows one of six kinds (`column`), named in the header.

| Code | Actions |
|---|---|
| `fight_one`, `Checkin.run`, `AdStamina.run` and what else counts | `Work`, `CheckIn`, `Poll` |
| `_persist_daily` (a cycle, the routes) | `StartPersist`, `Gather`, `Ask`, `Merge`, `Upsert` |
| `sync-daily` | `StartSync`, `Refresh`, then the same |
| `_persist_steals` | `StartSteals`, `CountSteals`, `SaveSteals` |
| `_set_traded` | `StartTrade`, `FindRow`, `SetTraded` |
| start, `_restore_daily_state` | `StartEngine`, `Restore` |
| `stop()`, which cancels the loops of its engine and nobody else | `Cancelled`, `Released` |
| process death, midnight | `Crash`, `Midnight` |

That an engine is stopped needs no action of its own: it changes nothing the row or the counters depend on. What follows
from it are the cancelled loops, the engine started beside it while routes still hold the old one, and
the memory that is gone when the last of them ends.

`RecordedWasDone`: before the first midnight no row says more than was done, although
restored, mirrored and merged counts of several engines meet. (After it yesterday's counters are in today's row,
which is a hazard of the list.) `RecordNeverShrinks`: a count becomes less only by the write of a
writer in `stale`, so one that overlaps nobody and heard the game's answer never lowers it, whoever
else raced; the mark of a finished trade never goes.
`RestartRemembers`: after the restore an engine's memory covers the row, whatever the engines before it wrote and
however its own writers overlap. It ends where a writer of another engine, for instance a `sync-daily` that outlived
a stop and a start, writes the row afterwards (`overtaken`): the running engine does not know what
that write added, and this is how the code behaves, a finding of the list.

Bounds: two days (the date changes under a writer once) with one thing a day, so that counts of two still arise, as
memory carries the first over midnight; two writers (a race has two parties) and two engines (the stopped
one and its successor, each of which may be gone and come again).

## 7. Operation log (`OperationLog.tla`)

One message of one account, which is one entry of `_fold_cache` (`fold`). `logs` and `history` are the counts in
the messages of the lines of the two tables; `pending` and `thread` the pool `_log_executor`; `moving` the
transaction of `migrate_logs_to_history` with the date it took and the rows it copied. `heard` is how
many calls a line really stands for, `blurred` the lines whose updates may have failed, overtaken one
another, died with the process or met the migration.

| Code | Actions |
|---|---|
| `log` | `LogFolded`, `LogInserted` (two attempts, each of which may commit unheard), `FoldExpires` |
| `_offload`, `_update_log_message` | `Take`, `UpdateLine` |
| `migrate_logs_to_history` | `CopyLines`, `DeleteLines`, `CommitMove`, `RollBackMove` |
| process and clock | `ProcessEnds`, `NextDay` |

`CountsSettle`: a line never claims more than was said, and once the pool is idle, no less unless
blurred. `LinesMoveOnce`: no line is in both tables, none is gone before its week is over, with
crashes between the statements and midnights between them.

Bounds: three days with a retention of two, so that lines are moved and purged; two lines; three
calls folded into one; the pool has its two threads.

## 8. Snapshots and caches (`Snapshots.tla`, `TwoLevelCache.tla`)

`Snapshots`: `stored` are the batches with rows in the table (`snapshot_at`), `task[w]` a replacement
between its steps: the test of the age (`BeginReplace`, `FindRecent`, `Ages`), `Fetch`, the DELETE, which takes the rows
it sees (`Delete`) and waits for locks (`Lock`), and the commit of deletion and insertion together
(`CommitBatch`, `GiveUp`). READ COMMITTED and row locks are external. Readers are `ReadLatest` and `ReadRows`, which
fill `_mem_cache` (`cached`). `ReplacedWhole`: no reader sees an emptied table, and a replacement that met
no other leaves one batch. `ServedIsStored`: the list in memory is never served empty for the newest
batch, although its batch may vanish between the two statements. Two replacers, two readers, four batches.

`TwoLevelCache`: one key of one of two caches (`kind`). In a "view" Redis is in front (`_redis_or_fetch`) and
`GameEngine.cached_get` behind, in an "answer" memory is in front (`AIService._cache_get`) and Redis behind.
An entry has the age of its contents and the ticks it has left. `LookInFront`, `LookBehind`, `Fetched`, `Stored` are the awaits of a request, `Warm`
is `_warm_api_caches`, `Evict` the limit of 200 answers, `ProcessRestarts` empties the memory and finds Redis or not.
`ShownIsRecent`: ages add up over both levels but no further, and a failure of the game is shown only
as long as the engine keeps it. A tick is no shorter than a request; lives of two and three ticks suffice for every order of
expiries of the two levels and the warm entry; two requests.

## 9. Activities (`Activities.tla`)

`errand` is the activity, `game` what the game holds (items, free attempts, attempts made, victories, intimacy), `fights` the
`today_fights` of the gang boss, `at[r]` and `call[r]` where
a coroutine is in the activity and in `ItemSupply.ensure`, `mine[r]` its local variables, `tally` what the engine keeps
(`_flowers_sent`, `today_count`, `challenge_books`), `listed` is `Inventory._cache`.

| Code | Actions |
|---|---|
| `ItemSupply.ensure`, `Inventory.use_by_name` | `Ensure`, `Listed`, `UseItem`, `CoolsDown` |
| `_flower_loop`, `_run_marriage`, `MarriageFlowers`, `MarriageGift` | `BeginFlowers`, `BeginGift`, `Send` |
| `GangBoss` | `BeginGang` (with `TodayFights`), `FreeChallenge`, `BookChallenge` |
| `sync-daily`, as far as the gang boss goes | `BeginSync`, `SyncBooks` |
| `Tower` | `BeginTower`, `FreeFloor`, `LookForPill`, `PillFloor` |
| `Chest` | `BeginChest`, `OpenChest`, `ReadCost` |
| `AdStamina`, `AdFarm`, `AdCommunity` | `BeginAd`, `ClaimAd` (the game: `AdDue`) |
| `stop()` | `Cancelled` |

Every request is performed and answered, performed with its answer lost, or not performed
(`Asked`). A fight with the gang boss is won or lost; the code takes the number of fights from the contributions, of which
a defeat gives none, so `TodayFights` is computed from the victories and not from the attempts.
`WithinLimit`: one run at a time keeps the limit of the day; the exceptions it names are behaviour of the code: flowers after
a lost answer, and the gang boss, of which only the victories are bounded, by the limit and the free challenges.
Defeats are bounded by nothing but the books, since each further run takes them for fights still to be made (a finding). `CountedOnce`: with
any overlap the engine's counts do not exceed what the game did.

Bounds: two coroutines, a limit of two, one item: one attempt before and one at the limit, and
a supply that can run out and be refilled once.

## 10. Farm (`Farm.tla`, `FarmSocial.tla`, `FarmTables.tla`)

`Farm`: `plot` is the game's farm, `plan[h]` the plots that coroutine `h` has left for each chore, all taken from one
status (`ReadStatus`), then worked off request by request (`HarvestAll`, `Harvest`, `RemoveWithered`, `Water`, `PlantOne`) while
crops change (`Grow`) and another cycle runs; `Abandon` is a cycle that is cancelled or ends in an exception. `PlantOne` stands for the passes
of `FarmPlant.run` (VIP slot, missing crop, the rest): which crop is chosen is left out, which plot is on which list is not.
`CareWithinLimit`: cycles one at a time water at most five times a day. `CountsWereDone`: harvests and plantings counted were performed (except a
harvest of everything by a stale status). `NoVainPlanting`: a cycle alone plants empty plots only.

`FarmSocial`: a round, its friends, the quotas of the round and of a friend. `QuotasNearlyKept`: quotas
are exceeded by less than a friend's limit, and help counted was given.

`FarmTables`: `have` is what the game has of one item, `row` its row, `desk[k]` a coroutine that holds a reading (a cycle, `sync-farm`, the
calibration), `deal` the account's part in a trade in which it gives the item and one in which it gets it.
`ReadFarm`, `Gain` (digging), `UpgradeLand`, `SyncTable` are the cycle, `ReadTradable` and `Calibrate` the calibration, `Offer`, `CheckTrade`,
`Reject`, `PerformTrade` and `ApplyTrade` the trade of the scheduler. `AcceptByHand` is a trade that a player carries out in the game,
listed by the scheduler or not: `sync_museum_trades` records it as accepted, and nobody applies it to the row.
`marks` remembers why the row may be wrong until it is next synchronised: a trade unheard of or carried out by hand, a stale
reading, a row written during a trade, fragments received on top of fragments given.
`NeverOversold`: without such a mark no more is offered than the game would let go.
`NeverOverdrawn`: the surplus becomes negative only if the row was written between check and subtraction.
`NeverBack`: repaired items and land levels go back only if the reading of the clerk that writes is older than the row, collected crops never.

Bounds: two plots (one the VIP slot, one that completes the collection) and two changes by themselves; three friends with the code's
quotas and two rounds; two writers of the tables, two fragments for an item and three at most, so
that an item is repaired, traded and repaired again.

No liveness is claimed of sections 6 to 10: the loops run for ever and repeat what failed, and what they achieve depends on
the game. These specifications have no fairness.

## 11. Proofs

Every safety invariant and every action property that a passing run checks is a theorem of its
module's specification, for every value of the constants (six need an
assumption on the faults, named below, which is the one their run makes). TLC checked each inductive invariant on the
run's instance before it was proved.

**`EngineLifecycleProofs`** proves `TypeCorrect`, `RegistryCorrect`, `TrippedCorrect` and
`StoppedCorrect` for all sets of accounts, engines and stops, all numbers of attempts and every
fault. The inductive invariant `IInv` adds to the properties what keeps them
inductive: which phases imply `running`, that a stop refers to an engine with an
account, that an instance in use is not free. `RegisteredIsRunning` alone is not
inductive: `BeginStop` pops by account id, so it must be known that no
other account's entry points to the instance.
`SingleEngineCorrect` and `RunningCorrect` hold under the assumption
that `overlap` is not among the faults. The argument: a launch needs `Quiet` (or is the only
restore task), in which no instance is live, and every step of a live instance keeps
the others dead.

**`EngineSwitchProofs`** proves `SwitchImplemented` and `FlagCorrect` under the assumption `Tame` (no overlap, no
failed saves, no exceptions of starts; crashes are allowed). On top of `IInv` and `Serial`, its
invariant says that a stop under way has stopped its instance, that nothing works for an
account while a stop request resets its flag, and that the flag is right whenever the account is quiet. Each
action of the life cycle is then one action of the switch or leaves it unchanged; the long
case is a step of one instance, for which the other instances of the account are dead.

**`MuseumTradeProofs`** proves `TypeCorrect`, `AcceptedCorrect` and `DailyCorrect` under every
fault. A row takes the word "accepted" from a listing, from a computed update or from
the game's answer; `Told` says of each that it was true when taken. It stays true because the
game never leaves "accepted" (`AcceptanceIsFinal`) and a row never changes its trade
(`RowKeepsTrade`). For `DailyCorrect` the invariant `Daily` says that a trade of today is
recorded or on its way, and that the scheduler, once past its check, has made none.
`OneRowCorrect` and `AcceptedForGoodCorrect` hold when `overlap` is not
among the faults. `Serial` says that one coroutine works at a time, and hence that what it
read (the free trades, the pending row, the listing) is still so when it writes.

**`KeyStoreProofs`** proves `TypeCorrect` and `RegisteredCorrect`. `Sound` follows a key on each leg of
its way: one in a request the game has not handled is held by that request alone
(`SentFresh`), one in an answer is registered for the client's account (`AnswersRegistered`),
and a copy of the file holds only what was registered (`CopiesRegistered`), so writing a copy
back, however old, stores nothing worse.
`AgreementCorrect`: file, memory and game agree on the key of every account that is not `raced`.
The agreement is broken and restored on the way, so `Aligned` says where: if two replacements are in flight, both accounts are
marked (`Lone`); while a key is replaced, the old one is gone from the file and from the clients in use (`Emptied`), so
there is nothing to disagree; the key the game answers with is the one it knows (`AnswersAreCurrent`); the copy that will be
written back agrees with the file about every unmarked account (`CopiesAreCurrent`), because whoever else might have changed the
file would have met the replacement. `StartsAlone` (only the task of its start works for a
starting client) is what makes a client agree that becomes an engine.

**`RecordProofs`** is about what is kept outside the game, for any number of days, counts, writers, engines, lines and threads.
What a step of `DailyRecord` does to each variable, point by point, is stated once per action (`...Does`, `StepEffect`); each part of
the invariant then has a lemma of its own that rests on these effects alone.
* `RecordIsTrue`, `RecordIsKept`: `DayInv` says of each kind of column what
  a draft and the count in memory may hold (`OwnColumn`, `GameCounts`, `MarkIsOne`), that nothing is written of days to come
  (`NoFuture`), that on the first day memory is bounded by what was done (`FirstDay`), and that a merged draft
  covers the row unless its writer is `stale` (`DraftsCover`). The last is what the merge is for: without it the upsert could lower the row.
* `RestartCorrect`: what a writer has merged is in its engine's memory or was in the row already (`MemoryCovers`), so that after the restore nothing can be
  written for that engine that its memory does not cover; a check-in is recorded only if the memory has it (`FlagCovers`). A write for another engine
  makes every engine that has restored, or is about to upsert a merge, `overtaken`.
* `DayTypeCorrect`: counts are never reset at midnight, so the bound of the types is not the day's but that of all days (`Ceiling`).
* `MovedOnce`: a copied line stays, until the commit, among the lines that will be
  deleted (`CopiedIsGone`): both statements select by the date taken at the beginning, and no line is written with an
  earlier date.
* `SettleCorrect`: no copy of a line, in a table, in the fold, in the queue, in a thread or in a migration, has more calls than there were
  (`NoneTooMany`); and of a line that nothing blurred, either a table has them all or the update that has them is still to be written
  (`Sharp`). Without the second half "no update on its way" would say nothing of what was written.

**`CacheProofs`**, for any number of replacements, requests and batches and any lives.
* `ReplacedCorrect`, `ServedCorrect`: a batch is brought by one replacement and is new until its commit (`BatchesAreNew`), so that a
  batch somebody has read never comes back (`ReadingsArePast`, `CachedIsPast`): an empty list read of a batch that was
  deleted is kept, but never served. A replacement that met no other deletes all there is (`AloneUnlessMet`).
* `RecentCorrect`: of an entry the sum of its age and the time it has left is bounded, and the sum does not change as time passes
  (`FrontIsBounded`, `BackIsBounded`). An entry that is copied to the other level starts a new life at
  the age it has: this is where the lives add up. The front level holds no failures.

**`FarmProofs`**, for any number of coroutines, plots, friends and fragments, and any limits.
* `QuotasCorrect`: what was taken at a friend and what may still be taken there is within the friend's limit, and it is nothing if the
  quota was met on arrival (`Within`).
* `CareCorrect`, `PlantingCorrect`: unless cycles cross, one is under way (`OneAtATime`), its plan and what was cared for fit into the
  limit (`Rationed`), and a cycle that has planted has no other chores left (`SowsLast`), so that what its lists call empty remains so.
* `CountsCorrect`: plantings counted and those of cycles under way (`Unreported`, a finite set) are no more than were made.
* `OversoldCorrect`, `OverdrawnCorrect`, `NeverBackCorrect`: `NeverOversold` is not inductive, because between a trade and its
  subtraction the row promises what is gone. `SurplusIsThere` and `CountIsThere` account for what is on its way; `CheckedIsThere`
  says that a row not written since the check covers the trade, `OneDeal` that one trade is accepted at a time (the scheduler's
  loop), and `ReadingsCover` that a reading not older than the row says no less. Of a trade by hand none of them can speak: it lowers what
  the game has whatever was checked, so it leaves its mark.

**`WorkProofs`** proves `LimitCorrect` and `CountedCorrect` of the activities, for any number of coroutines and any limit and supply.
What a runner may still do, with what was done, fits into the limit (`Room`); what it is about to use it believes to be
there (`Provided`), in the places its activity has (`Seated`); what it has sent and not yet counted was done (`Counted`). The gang boss
needs the sum with the free challenges, which may become victories that its reading did not have: what `today_fights` leaves of the limit,
the free challenges and the victories together fit into limit and free challenges. Defeats only lower that sum.

The runs `engine_work` and `records` follow four modules each. `WorkIsEachPart` and `RecordsAreEachPart` prove that a behaviour of
the run is a behaviour of each of the four, `WorkCorrect` and `RecordsCorrect` conclude that all its safety properties hold
together, `WorkTypeCorrect` and `RecordsTypeCorrect` that the types do.

The assumptions are those named in the modules; nothing else is assumed.

Only model-checked are the liveness properties (`OvertakenStartEnds`, `TrippedStops`, `BootSettles`,
`OutcomeArrives`, `Heals`): they rest on fairness, hence on ENABLED, which the prover does not reason about.

## 12. Not modelled, and what was found

* The gang mirrors (`gang_sync.py`): upserts of what the game lists, read by the front end only.
* Configuration, friend requests, dashboard, sessions, passwords: rows written and read by single statements.
* Activities that make one request after a reading of their own (world boss, tournament, marriage boss, proposal, upgrades,
  shops): there is nothing between reading and request that `Activities` does not show already.
* Algorithms that choose (which crop pays best, which equipment, which offer): no state; they order what is done, not whether it is right.
* Prompts, tools and the choice of the model of the assistant.
* Of the life cycle: `_heal_db`, which replaces the database session that the loops of an engine share (an upsert of
  `DailyRecord` may vanish in the way this causes), and the copy of the character in the accounts table.
* Of the keys: a torn key file, an entry that cannot be imported, tokens.
* `services/farm/harvest.py`, `FarmCare.water_own`, `acquire_lock` and the rate limiter have no caller.
* Logging (except the log itself), formatting and HTTP.

Two findings are runs: `lifecycle_overlap` and `museum_overlap`. The others were met while modelling and are
listed in `PROJECT.json` with their lines; each is visible in a module as an exception a property has to make
(`help_waters` in `RestartRemembers`, the quotas in `QuotasNearlyKept`, the ages in `ShownIsRecent`, the
giver's count and the trades by hand in `NeverOversold`, the defeats by the gang boss in `WithinLimit`, the engines
`overtaken` in `RestartRemembers`, exceptions of a start in `ImplementsSwitch`) or lies outside the models (a name a class body
cannot see, a method that does not exist, a counter that is not global, an assertion of one row).
