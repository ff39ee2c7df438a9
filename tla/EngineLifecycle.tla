--------------------------- MODULE EngineLifecycle ---------------------------
(***************************************************************************)
(* The life of the GameEngine instances of app/services/engine.py: the     *)
(* registry _engines, the start() and stop() coroutines, the persisted     *)
(* accounts.running flag, the two-strike 429 handler, and the boot-time    *)
(* restore of app/main.py.                                                 *)
(*                                                                         *)
(* Everything runs in one asyncio event loop, so an action is the code     *)
(* between two awaits.  A start() coroutine belongs to one instance and    *)
(* its position is phase[e]; stop() coroutines are separate tasks, since   *)
(* several of them may be in flight for one instance.                      *)
(***************************************************************************)
EXTENDS Naturals, FiniteSets

CONSTANTS
    Account,  \* ids of the managed accounts
    Engine,   \* identities of GameEngine objects, reused after collection
    Stopper,  \* slots for stop() coroutines in flight: bounds their number
    None,     \* an empty slot
    BootAttempts, \* range(3) in delayed_start
    Faults    \* which hostile events the environment may produce

FaultKinds ==
    { "overlap",  \* a request for an account while another one is in flight
      "save",     \* _save_running() loses its commit (the error is swallowed)
      "raise",    \* start() raises instead of returning False
      "crash" }   \* the process dies and is started again

ASSUME NoneAssumption  == None \notin Engine /\ None \notin Account
ASSUME BootAssumption  == BootAttempts \in Nat \ {0}
ASSUME FaultAssumption == Faults \subseteq FaultKinds

VARIABLES
    acct,      \* acct[e]: the account of the instance, None for a free identity
    phase,     \* phase[e]: where the start() coroutine of e is
    seen,      \* seen[e]: the running flag that coroutine read from the DB
    running,   \* running[e]: GameEngine._running
    loops,     \* loops[e]: the loop tasks of e (GameEngine._tasks) are alive
    calls,     \* calls[e]: some other coroutine still uses e's client
    hits,      \* hits[e]: GameEngine._rate_limit_hits, 2 standing for "2 or more"
    registry,  \* registry[a]: _engines.get(a)
    managers,  \* managers[a]: the instance whose manager _managers holds
    flag,      \* flag[a]: accounts.running in the database
    boot,      \* boot[a]: attempts left to delayed_start(a), 0 when it ended
    waiting,   \* waiting[a]: the instance whose start() delayed_start(a) awaits
    spc,       \* spc[s]: where stop() coroutine s is
    seng,      \* seng[s]: the instance it stops
    sseen,     \* sseen[s]: the running flag it read from the DB
    reset      \* reset[a]: a stop request without an engine is about to clear flag[a]

memory  == <<acct, phase, seen, running, loops, calls, hits>>
tables  == <<registry, managers>>
restore == <<boot, waiting>>
stops   == <<spc, seng, sseen>>
vars    == <<memory, tables, flag, restore, stops, reset>>

\* start() not called; before _running is set; after it; returned; abandoned
Starting == {"connect", "peers"}
Finishing == {"onRead", "onWrite", "init"}
Failing  == {"offRead", "offWrite"}
Settled  == {"unborn", "up", "gone"}
Phase    == Starting \cup Finishing \cup Failing \cup Settled

TypeOK ==
    /\ acct \in [Engine -> Account \cup {None}]
    /\ phase \in [Engine -> Phase]
    /\ seen \in [Engine -> BOOLEAN]
    /\ running \in [Engine -> BOOLEAN]
    /\ loops \in [Engine -> BOOLEAN]
    /\ calls \in [Engine -> BOOLEAN]
    /\ hits \in [Engine -> 0..2]
    /\ registry \in [Account -> Engine \cup {None}]
    /\ managers \in [Account -> Engine \cup {None}]
    /\ flag \in [Account -> BOOLEAN]
    /\ boot \in [Account -> 0..BootAttempts]
    /\ waiting \in [Account -> Engine \cup {None}]
    /\ spc \in [Stopper -> {"idle", "spawned", "read", "write"}]
    /\ seng \in [Stopper -> Engine \cup {None}]
    /\ sseen \in [Stopper -> BOOLEAN]
    /\ reset \in [Account -> BOOLEAN]

-----------------------------------------------------------------------------
(***************************************************************************)
(* Boot.  Nothing is in memory; delayed_start is spawned for each account  *)
(* whose flag is set in the database.                                      *)
(***************************************************************************)
EmptyMemory(f) ==
    /\ acct'     = [e \in Engine |-> None]
    /\ phase'    = [e \in Engine |-> "unborn"]
    /\ seen'     = [e \in Engine |-> FALSE]
    /\ running'  = [e \in Engine |-> FALSE]
    /\ loops'    = [e \in Engine |-> FALSE]
    /\ calls'    = [e \in Engine |-> FALSE]
    /\ hits'     = [e \in Engine |-> 0]
    /\ registry' = [a \in Account |-> None]
    /\ managers' = [a \in Account |-> None]
    /\ boot'     = [a \in Account |-> IF f[a] THEN BootAttempts ELSE 0]
    /\ waiting'  = [a \in Account |-> None]
    /\ spc'      = [s \in Stopper |-> "idle"]
    /\ seng'     = [s \in Stopper |-> None]
    /\ sseen'    = [s \in Stopper |-> FALSE]
    /\ reset'    = [a \in Account |-> FALSE]

Init ==
    /\ flag \in [Account -> BOOLEAN]
    /\ acct     = [e \in Engine |-> None]
    /\ phase    = [e \in Engine |-> "unborn"]
    /\ seen     = [e \in Engine |-> FALSE]
    /\ running  = [e \in Engine |-> FALSE]
    /\ loops    = [e \in Engine |-> FALSE]
    /\ calls    = [e \in Engine |-> FALSE]
    /\ hits     = [e \in Engine |-> 0]
    /\ registry = [a \in Account |-> None]
    /\ managers = [a \in Account |-> None]
    /\ boot     = [a \in Account |-> IF flag[a] THEN BootAttempts ELSE 0]
    /\ waiting  = [a \in Account |-> None]
    /\ spc      = [s \in Stopper |-> "idle"]
    /\ seng     = [s \in Stopper |-> None]
    /\ sseen    = [s \in Stopper |-> FALSE]
    /\ reset    = [a \in Account |-> FALSE]

\* The process is killed and started again: only the database survives.
Crash ==
    /\ "crash" \in Faults
    /\ EmptyMemory(flag)
    /\ UNCHANGED flag

-----------------------------------------------------------------------------
(***************************************************************************)
(* _save_running(v) is db.get(Account) followed by a commit: the flush     *)
(* issues an UPDATE only when the row that was read held another value,    *)
(* and an exception of either step is logged and swallowed.                *)
(***************************************************************************)
CommitFlag(a, read, v) ==
    \/ flag' = IF read = v THEN flag ELSE [flag EXCEPT ![a] = v]
    \/ "save" \in Faults /\ UNCHANGED flag

\* get_engine(a) finds an engine and it is running.
Operating(a) == registry[a] # None /\ running[registry[a]]

\* A stop() coroutine is at work on the instance.
StopPending(e) == \E s \in Stopper : seng[s] = e

\* Some coroutine can still act for the instance.
Live(e) ==
    \/ phase[e] \notin Settled
    \/ running[e] \/ loops[e] \/ calls[e]
    \/ StopPending(e)

(***************************************************************************)
(* Nothing is in flight for account a: at most a running engine exists.    *)
(* Without the fault "overlap" users send a request only in such a state.  *)
(***************************************************************************)
Quiet(a) ==
    /\ boot[a] = 0 /\ ~reset[a]
    /\ \A e \in Engine :
          acct[e] = a => /\ phase[e] \in Settled
                         /\ ~StopPending(e)
                         /\ ~running[e] => ~loops[e] /\ ~calls[e]

Allowed(a) == "overlap" \in Faults \/ Quiet(a)

-----------------------------------------------------------------------------
(***************************************************************************)
(* start()                                                                 *)
(***************************************************************************)

\* Mutant of Launch: a new instance although one is registered.
LaunchUnchecked(a, e) ==
    /\ phase[e] = "unborn"
    /\ acct'  = [acct EXCEPT ![e] = a]
    /\ phase' = [phase EXCEPT ![e] = "connect"]
    /\ UNCHANGED <<seen, running, loops, calls, hits>>

(***************************************************************************)
(* get_or_create_engine(a) returns the registered instance, or a new one   *)
(* that nobody else can find; start() begins unless it is running.         *)
(***************************************************************************)
Launch(a, e) ==
    /\ IF registry[a] # None THEN e = registry[a] ELSE phase[e] = "unborn"
    /\ ~running[e]
    /\ acct'  = [acct EXCEPT ![e] = a]
    /\ phase' = [phase EXCEPT ![e] = "connect"]
    /\ UNCHANGED <<seen, running, loops, calls, hits>>

\* POST /accounts/{a}/start.  With a running engine it answers without effect.
UserStart(a) ==
    /\ Allowed(a)
    /\ \E e \in Engine : Launch(a, e)
    /\ UNCHANGED <<tables, flag, restore, stops, reset>>

\* Mutant of RestoreAttempt: the number of attempts is not tested.
RestoreAttemptUnbounded(a) ==
    /\ waiting[a] = None
    /\ \/ /\ Operating(a)
          /\ boot' = [boot EXCEPT ![a] = @ - 1]
          /\ UNCHANGED <<memory, waiting>>
       \/ \E e \in Engine :
             /\ Launch(a, e)
             /\ waiting' = [waiting EXCEPT ![a] = e]
             /\ UNCHANGED boot
    /\ UNCHANGED <<tables, flag, stops, reset>>

\* One attempt of delayed_start(a); on a running engine start() is False at once.
RestoreAttempt(a) ==
    /\ boot[a] > 0 /\ waiting[a] = None
    /\ \/ /\ Operating(a)
          /\ boot' = [boot EXCEPT ![a] = @ - 1]
          /\ UNCHANGED <<memory, waiting>>
       \/ \E e \in Engine :
             /\ Launch(a, e)
             /\ waiting' = [waiting EXCEPT ![a] = e]
             /\ UNCHANGED boot
    /\ UNCHANGED <<tables, flag, stops, reset>>

\* delayed_start sees start() of e end, with n attempts left to it.
Report(e, n) ==
    LET a == acct[e] IN
    IF waiting[a] = e
    THEN /\ boot' = [boot EXCEPT ![a] = n]
         /\ waiting' = [waiting EXCEPT ![a] = None]
    ELSE UNCHANGED restore

\* mgr.start() is True: logged in, signing key registered, API reachable.
ConnectOk(e) ==
    /\ phase[e] = "connect"
    /\ phase' = [phase EXCEPT ![e] = "peers"]
    /\ managers' = [managers EXCEPT ![acct[e]] = e]
    /\ UNCHANGED <<acct, seen, running, loops, calls, hits,
                   registry, flag, restore, stops, reset>>

\* Mutant of ConnectFalse: the failed start does not clear the flag.
ConnectFalseSilent(e) ==
    /\ phase[e] = "connect"
    /\ phase' = [phase EXCEPT ![e] = "gone"]
    /\ Report(e, IF boot[acct[e]] > 0 THEN boot[acct[e]] - 1 ELSE 0)
    /\ UNCHANGED <<acct, seen, running, loops, calls, hits,
                   tables, flag, stops, reset>>

\* mgr.start() is False: the DB flag is cleared next.
ConnectFalse(e) ==
    /\ phase[e] = "connect"
    /\ phase' = [phase EXCEPT ![e] = "offRead"]
    /\ UNCHANGED <<acct, seen, running, loops, calls, hits,
                   tables, flag, restore, stops, reset>>

(***************************************************************************)
(* relogin() (httpx errors) or get_peers() raises: nothing in start()      *)
(* catches it, and it ends the request or the delayed_start task.          *)
(***************************************************************************)
StartRaises(e) ==
    /\ "raise" \in Faults
    /\ phase[e] \in Starting
    /\ phase' = [phase EXCEPT ![e] = "gone"]
    /\ Report(e, 0)
    /\ UNCHANGED <<acct, seen, running, loops, calls, hits,
                   tables, flag, stops, reset>>

\* Mutant of Register: the instance is not entered in _engines.
RegisterNowhere(e) ==
    /\ phase[e] = "peers"
    /\ phase' = [phase EXCEPT ![e] = "onRead"]
    /\ running' = [running EXCEPT ![e] = TRUE]
    /\ UNCHANGED <<acct, seen, loops, calls, hits, tables,
                   flag, restore, stops, reset>>

\* _init_services(), _running = True and _engines[a] = self, without an await.
Register(e) ==
    /\ phase[e] = "peers"
    /\ phase' = [phase EXCEPT ![e] = "onRead"]
    /\ running' = [running EXCEPT ![e] = TRUE]
    /\ registry' = [registry EXCEPT ![acct[e]] = e]
    /\ UNCHANGED <<acct, seen, loops, calls, hits, managers,
                   flag, restore, stops, reset>>

\* _save_running(1), first half and second half.
OnRead(e) ==
    /\ phase[e] = "onRead"
    /\ phase' = [phase EXCEPT ![e] = "onWrite"]
    /\ seen' = [seen EXCEPT ![e] = flag[acct[e]]]
    /\ UNCHANGED <<acct, running, loops, calls, hits,
                   tables, flag, restore, stops, reset>>

\* Mutant of OnWrite: the flag is not saved.
OnWriteSkipped(e) ==
    /\ phase[e] = "onWrite"
    /\ phase' = [phase EXCEPT ![e] = "init"]
    /\ seen' = [seen EXCEPT ![e] = FALSE]
    /\ UNCHANGED <<acct, running, loops, calls, hits,
                   tables, flag, restore, stops, reset>>

OnWrite(e) ==
    /\ phase[e] = "onWrite"
    /\ phase' = [phase EXCEPT ![e] = "init"]
    /\ CommitFlag(acct[e], seen[e], TRUE)
    /\ seen' = [seen EXCEPT ![e] = FALSE]
    /\ UNCHANGED <<acct, running, loops, calls, hits,
                   tables, restore, stops, reset>>

(***************************************************************************)
(* _init_sync() returns (it swallows its exceptions); the five loop tasks  *)
(* are created, also when the engine was stopped meanwhile.                *)
(***************************************************************************)
InitDone(e) ==
    /\ phase[e] = "init"
    /\ phase' = [phase EXCEPT ![e] = "up"]
    /\ loops' = [loops EXCEPT ![e] = TRUE]
    /\ Report(e, 0)
    /\ UNCHANGED <<acct, seen, running, calls, hits,
                   tables, flag, stops, reset>>

\* _save_running(0) of a failed start, which then returns False.
OffRead(e) ==
    /\ phase[e] = "offRead"
    /\ phase' = [phase EXCEPT ![e] = "offWrite"]
    /\ seen' = [seen EXCEPT ![e] = flag[acct[e]]]
    /\ UNCHANGED <<acct, running, loops, calls, hits,
                   tables, flag, restore, stops, reset>>

\* Mutant of OffWrite: a failed attempt is not counted.
OffWriteUncounted(e) ==
    /\ phase[e] = "offWrite"
    /\ phase' = [phase EXCEPT ![e] = "gone"]
    /\ CommitFlag(acct[e], seen[e], FALSE)
    /\ seen' = [seen EXCEPT ![e] = FALSE]
    /\ Report(e, boot[acct[e]])
    /\ UNCHANGED <<acct, running, loops, calls, hits,
                   tables, stops, reset>>

OffWrite(e) ==
    /\ phase[e] = "offWrite"
    /\ phase' = [phase EXCEPT ![e] = "gone"]
    /\ CommitFlag(acct[e], seen[e], FALSE)
    /\ seen' = [seen EXCEPT ![e] = FALSE]
    /\ Report(e, IF boot[acct[e]] > 0 THEN boot[acct[e]] - 1 ELSE 0)
    /\ UNCHANGED <<acct, running, loops, calls, hits,
                   tables, stops, reset>>

-----------------------------------------------------------------------------
(***************************************************************************)
(* What a started instance does                                            *)
(***************************************************************************)

\* Mutant of LoopExit: loops run until their task is cancelled.
LoopExitNever(e) ==
    /\ loops[e] /\ ~running[e] /\ ~loops[e]
    /\ UNCHANGED vars

\* Every loop tests _running before each round.
LoopExit(e) ==
    /\ loops[e] /\ ~running[e]
    /\ loops' = [loops EXCEPT ![e] = FALSE]
    /\ UNCHANGED <<acct, phase, seen, running, calls, hits,
                   tables, flag, restore, stops, reset>>

\* The untracked retry() task of _init_sync, or a request using engine.client.
BeginCall(e) ==
    /\ acct[e] # None /\ ~calls[e]
    /\ phase[e] = "init" \/ registry[acct[e]] = e
    /\ calls' = [calls EXCEPT ![e] = TRUE]
    /\ UNCHANGED <<acct, phase, seen, running, loops, hits,
                   tables, flag, restore, stops, reset>>

EndCall(e) ==
    /\ calls[e]
    /\ calls' = [calls EXCEPT ![e] = FALSE]
    /\ UNCHANGED <<acct, phase, seen, running, loops, hits,
                   tables, flag, restore, stops, reset>>

CanCall(e) == phase[e] = "init" \/ loops[e] \/ calls[e]

\* _check_rate_limited: the first 429 starts a cooldown (its length is not modelled).
LimitedOnce(e) ==
    /\ CanCall(e) /\ hits[e] = 0
    /\ hits' = [hits EXCEPT ![e] = 1]
    /\ UNCHANGED <<acct, phase, seen, running, loops, calls,
                   tables, flag, restore, stops, reset>>

\* Mutant of LimitedAgain: the second 429 is only counted.
LimitedAgainCounted(e) ==
    /\ CanCall(e) /\ hits[e] > 0
    /\ hits' = [hits EXCEPT ![e] = 2]
    /\ UNCHANGED <<acct, phase, seen, running, loops, calls,
                   tables, flag, restore, stops, reset>>

\* _check_rate_limited: every further one spawns a stop() task.
LimitedAgain(e) ==
    /\ CanCall(e) /\ hits[e] > 0
    /\ hits' = [hits EXCEPT ![e] = 2]
    /\ \E s \in Stopper :
          /\ spc[s] = "idle"
          /\ spc' = [spc EXCEPT ![s] = "spawned"]
          /\ seng' = [seng EXCEPT ![s] = e]
    /\ UNCHANGED <<acct, phase, seen, running, loops, calls,
                   tables, flag, restore, sseen, reset>>

\* _is_rate_limited after the cooldown, polled by the fight and farm loops.
Poll(e) ==
    /\ loops[e] /\ running[e] /\ hits[e] > 0
    /\ hits' = [hits EXCEPT ![e] = 0]
    /\ UNCHANGED <<acct, phase, seen, running, loops, calls,
                   tables, flag, restore, stops, reset>>

-----------------------------------------------------------------------------
(***************************************************************************)
(* stop()                                                                  *)
(***************************************************************************)

\* Mutant of BeginStop: the registry keeps the stopped instance.
BeginStopRegistered(e) ==
    /\ running' = [running EXCEPT ![e] = FALSE]
    /\ loops' = [loops EXCEPT ![e] = FALSE]
    /\ UNCHANGED <<acct, phase, seen, calls, hits, tables>>

\* Up to its first await: the registry entry goes by account id, whoever owns it.
BeginStop(e) ==
    /\ running' = [running EXCEPT ![e] = FALSE]
    /\ registry' = [registry EXCEPT ![acct[e]] = None]
    /\ loops' = [loops EXCEPT ![e] = FALSE]
    /\ UNCHANGED <<acct, phase, seen, calls, hits, managers>>

\* POST /accounts/{a}/stop with a running engine.
UserStop(a) ==
    /\ Allowed(a)
    /\ Operating(a)
    /\ BeginStop(registry[a])
    /\ \E s \in Stopper :
          /\ spc[s] = "idle"
          /\ spc' = [spc EXCEPT ![s] = "read"]
          /\ seng' = [seng EXCEPT ![s] = registry[a]]
    /\ UNCHANGED <<flag, restore, sseen, reset>>

\* The same request without one: it reads the flag, and clears a flag it saw set.
UserReset(a) ==
    /\ Allowed(a)
    /\ ~Operating(a)
    /\ flag[a] /\ ~reset[a]
    /\ reset' = [reset EXCEPT ![a] = TRUE]
    /\ UNCHANGED <<memory, tables, flag, restore, stops>>

ResetWrite(a) ==
    /\ reset[a]
    /\ reset' = [reset EXCEPT ![a] = FALSE]
    /\ CommitFlag(a, TRUE, FALSE)
    /\ UNCHANGED <<memory, tables, restore, stops>>

\* A stop() task spawned by _check_rate_limited gets its turn.
StopTask(s) ==
    /\ spc[s] = "spawned"
    /\ spc' = [spc EXCEPT ![s] = "read"]
    /\ BeginStop(seng[s])
    /\ UNCHANGED <<seng, sseen, flag, restore, reset>>

\* _save_running(0), then mgr.stop() and db.close().
StopRead(s) ==
    /\ spc[s] = "read"
    /\ spc' = [spc EXCEPT ![s] = "write"]
    /\ sseen' = [sseen EXCEPT ![s] = flag[acct[seng[s]]]]
    /\ UNCHANGED <<seng, memory, tables, flag, restore, reset>>

StopWrite(s) ==
    LET a == acct[seng[s]] IN
    /\ spc[s] = "write"
    /\ spc' = [spc EXCEPT ![s] = "idle"]
    /\ seng' = [seng EXCEPT ![s] = None]
    /\ CommitFlag(a, sseen[s], FALSE)
    /\ sseen' = [sseen EXCEPT ![s] = FALSE]
    /\ managers' = [managers EXCEPT ![a] = None]
    /\ UNCHANGED <<memory, registry, restore, reset>>

\* An instance nobody refers to any more is freed.
Collect(e) ==
    /\ acct[e] # None /\ ~Live(e)
    /\ registry[acct[e]] # e /\ managers[acct[e]] # e /\ waiting[acct[e]] # e
    /\ acct'    = [acct EXCEPT ![e] = None]
    /\ phase'   = [phase EXCEPT ![e] = "unborn"]
    /\ hits'    = [hits EXCEPT ![e] = 0]
    /\ UNCHANGED <<seen, running, loops, calls, tables, flag, restore, stops,
                   reset>>

-----------------------------------------------------------------------------
StartStep(e) ==
    \/ ConnectOk(e) \/ ConnectFalse(e) \/ StartRaises(e)
    \/ Register(e) \/ OnRead(e) \/ OnWrite(e) \/ InitDone(e)
    \/ OffRead(e) \/ OffWrite(e)

EngineStep(e) ==
    \/ LoopExit(e) \/ BeginCall(e) \/ EndCall(e)
    \/ LimitedOnce(e) \/ LimitedAgain(e) \/ Poll(e)
    \/ Collect(e)

StopStep(s) == StopTask(s) \/ StopRead(s) \/ StopWrite(s)

UserStep(a) == UserStart(a) \/ UserStop(a) \/ UserReset(a)

AccountStep(a) == RestoreAttempt(a) \/ ResetWrite(a)

Next ==
    \/ \E e \in Engine : StartStep(e) \/ EngineStep(e)
    \/ \E s \in Stopper : StopStep(s)
    \/ \E a \in Account : UserStep(a) \/ AccountStep(a)
    \/ Crash

Spec == Init /\ [][Next]_vars

(***************************************************************************)
(* The event loop runs every ready task and every await ends (httpx calls  *)
(* time out after 30 s).  Users, 429 answers and crashes owe nothing.      *)
(***************************************************************************)
Fairness ==
    /\ \A e \in Engine : /\ WF_vars(StartStep(e))
                         /\ WF_vars(LoopExit(e))
                         /\ WF_vars(EndCall(e))
                         /\ WF_vars(Collect(e))
    /\ \A s \in Stopper : WF_vars(StopStep(s))
    /\ \A a \in Account : WF_vars(AccountStep(a))

FairSpec == Spec /\ Fairness

-----------------------------------------------------------------------------
(***************************************************************************)
(* Properties under every fault                                            *)
(***************************************************************************)

\* A registered engine is running for that account, with its services set up:
\* get_engine() and its callers use engine.client and engine.config unguarded.
RegisteredIsRunning ==
    \A a \in Account :
        registry[a] # None =>
            /\ running[registry[a]]
            /\ acct[registry[a]] = a
            /\ phase[registry[a]] \in Finishing \cup {"up"}

\* An engine that met its second 429 is stopped or has a stop() on its way,
\* whatever its loops, its own polls and other stops do meanwhile.
TrippedIsStopping ==
    \A e \in Engine :
        hits[e] = 2 /\ running[e] =>
            \E s \in Stopper : spc[s] = "spawned" /\ seng[s] = e

Stopped(e) == phase[e] \in Finishing \cup {"up"} /\ ~running[e]

\* An instance that was stopped is never started again: get_or_create_engine
\* hands out a new one.
StoppedForGood ==
    [][\A e \in Engine : Stopped(e) => Stopped(e)' \/ phase'[e] = "unborn"]_vars

\* A start() overtaken by a stop() ends without leaving a loop task behind.
OvertakenStartEnds ==
    \A e \in Engine :
        (Stopped(e) /\ phase[e] # "up") ~> (phase[e] \in Settled /\ ~loops[e])

\* An engine that met its second 429 does stop.
TrippedStops == \A e \in Engine : hits[e] = 2 ~> ~running[e]

\* delayed_start makes its attempts and ends.
BootSettles == \A a \in Account : boot[a] > 0 ~> boot[a] = 0

(***************************************************************************)
(* Properties of accounts whose requests do not overlap                    *)
(***************************************************************************)

\* README.md:112 ("each account has an engine instance of its own"): two engines
\* never run for one account.
OneRunningEngine ==
    \A e, f \in Engine : running[e] /\ running[f] /\ acct[e] = acct[f] => e = f

\* Stronger: no two instances even have a coroutine left that acts for one account.
SingleEngine ==
    \A e, f \in Engine : Live(e) /\ Live(f) /\ acct[e] = acct[f] => e = f

\* What runs can be found, hence stopped.
RunningIsRegistered == \A e \in Engine : running[e] => registry[acct[e]] = e

\* An engine that runs undisturbed has its flag set, so that a restart restores it.
RunningIsFlagged == \A a \in Account : Quiet(a) /\ registry[a] # None => flag[a]

\* The position of the switch that EngineSwitch describes.
Working(a) == {e \in Engine : acct[e] = a /\ Live(e)}
Power(a) ==
    IF \E e \in Working(a) : running[e] THEN "on"
    ELSE IF \E e \in Working(a) : phase[e] \in Starting \cup Failing THEN "starting"
    ELSE IF Working(a) # {} THEN "ending" ELSE "off"

Switch == INSTANCE EngineSwitch WITH power <- [a \in Account |-> Power(a)], saved <- flag

\* Seen from outside, instances, registry and transactions are one switch per
\* account: a stopped engine has ended with all its coroutines before the next
\* one starts, a start that fails clears the flag (engine.py:197 asks for it, so
\* that no engine is shown as starting that does not exist), and no flag is
\* cleared under a running engine.
ImplementsSwitch == Switch!SwitchSpec

=============================================================================
