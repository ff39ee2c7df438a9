------------------------ MODULE EngineLifecycleProofs ------------------------
(* Theorems about EngineLifecycle, for any accounts, engines and faults. *)
EXTENDS EngineLifecycle, TLAPS

\* An instance has an account exactly when it is in use.
UsedHasAccount == \A e \in Engine : phase[e] = "unborn" <=> acct[e] = None

\* Nothing runs, loops, is called or is limited before _init_services().
ActiveIsServiced ==
    \A e \in Engine :
        running[e] \/ loops[e] \/ calls[e] \/ hits[e] # 0 =>
            phase[e] \in Finishing \cup {"up"}

\* A stop() coroutine in flight has its instance.
StopHasEngine ==
    \A s \in Stopper :
        /\ spc[s] = "idle" <=> seng[s] = None
        /\ seng[s] # None => phase[seng[s]] \in Finishing \cup {"up"}

IInv ==
    /\ TypeOK
    /\ UsedHasAccount
    /\ ActiveIsServiced
    /\ StopHasEngine
    /\ RegisteredIsRunning
    /\ TrippedIsStopping

-----------------------------------------------------------------------------
LEMMA InitIInv == Init => IInv
<1> SUFFICES ASSUME Init PROVE IInv
  OBVIOUS
<1> USE NoneAssumption, BootAssumption
<1>1. TypeOK
  BY DEF Init, TypeOK, Phase, Settled
<1>2. UsedHasAccount /\ ActiveIsServiced /\ StopHasEngine
  BY DEF Init, UsedHasAccount, ActiveIsServiced, StopHasEngine
<1>3. RegisteredIsRunning /\ TrippedIsStopping
  BY DEF Init, RegisteredIsRunning, TrippedIsStopping
<1> QED
  BY <1>1, <1>2, <1>3 DEF IInv

LEMMA CrashIInv == IInv /\ Crash => IInv'
<1> SUFFICES ASSUME IInv, Crash PROVE IInv'
  OBVIOUS
<1> USE NoneAssumption, BootAssumption
<1>1. TypeOK'
  BY DEF IInv, Crash, EmptyMemory, TypeOK, Phase, Settled
<1>2. (UsedHasAccount /\ ActiveIsServiced /\ StopHasEngine)'
  BY DEF IInv, Crash, EmptyMemory, UsedHasAccount, ActiveIsServiced, StopHasEngine
<1>3. (RegisteredIsRunning /\ TrippedIsStopping)'
  BY DEF Crash, EmptyMemory, RegisteredIsRunning, TrippedIsStopping
<1> QED
  BY <1>1, <1>2, <1>3 DEF IInv

-----------------------------------------------------------------------------
LEMMA TypeStep == TypeOK /\ UsedHasAccount /\ StopHasEngine /\ [Next]_vars => TypeOK'
<1> SUFFICES ASSUME TypeOK, UsedHasAccount, StopHasEngine, [Next]_vars
             PROVE  TypeOK'
  OBVIOUS
<1> USE NoneAssumption, BootAssumption
<1> USE DEF TypeOK, Phase, Starting, Finishing, Failing, Settled,
        memory, tables, restore, stops
<1>1. ASSUME NEW e \in Engine, StartStep(e) PROVE TypeOK'
  <2>1. CASE ConnectOk(e)
    BY <2>1 DEF ConnectOk
  <2>2. CASE ConnectFalse(e)
    BY <2>2 DEF ConnectFalse
  <2>3. CASE StartRaises(e)
    BY <2>3 DEF StartRaises, Report
  <2>4. CASE Register(e)
    BY <2>4 DEF Register
  <2>5. CASE OnRead(e)
    BY <2>5 DEF OnRead, UsedHasAccount
  <2>6. CASE OnWrite(e)
    BY <2>6 DEF OnWrite, CommitFlag
  <2>7. CASE InitDone(e)
    BY <2>7 DEF InitDone, Report
  <2>8. CASE OffRead(e)
    BY <2>8 DEF OffRead, UsedHasAccount
  <2>9. CASE OffWrite(e)
    <3>1. acct[e] \in Account
      BY <2>9 DEF OffWrite, UsedHasAccount
    <3>2. boot' \in [Account -> 0..BootAttempts] /\ waiting' \in [Account -> Engine \cup {None}]
      BY <2>9, <3>1 DEF OffWrite, Report
    <3>3. flag' \in [Account -> BOOLEAN]
      BY <2>9, <3>1 DEF OffWrite, CommitFlag
    <3> QED
      BY <2>9, <3>2, <3>3 DEF OffWrite
  <2> QED
    BY <1>1, <2>1, <2>2, <2>3, <2>4, <2>5, <2>6, <2>7, <2>8, <2>9 DEF StartStep
<1>2. ASSUME NEW e \in Engine, EngineStep(e) PROVE TypeOK'
  <2>1. CASE LoopExit(e) \/ BeginCall(e) \/ EndCall(e)
    <3>1. loops' \in [Engine -> BOOLEAN] /\ calls' \in [Engine -> BOOLEAN]
      BY <2>1 DEF LoopExit, BeginCall, EndCall
    <3>2. UNCHANGED <<acct, phase, seen, running, hits, tables, flag, restore, stops, reset>>
      BY <2>1 DEF LoopExit, BeginCall, EndCall
    <3> QED
      BY <3>1, <3>2
  <2>2. CASE LimitedOnce(e) \/ Poll(e)
    BY <2>2 DEF LimitedOnce, Poll
  <2>3. CASE LimitedAgain(e)
    BY <2>3 DEF LimitedAgain
  <2>4. CASE Collect(e)
    BY <2>4 DEF Collect
  <2> QED
    BY <1>2, <2>1, <2>2, <2>3, <2>4 DEF EngineStep
<1>3. ASSUME NEW s \in Stopper, StopStep(s) PROVE TypeOK'
  <2>1. CASE StopTask(s)
    BY <2>1 DEF StopTask, BeginStop
  <2>2. CASE StopRead(s)
    BY <2>2 DEF StopRead, UsedHasAccount, StopHasEngine
  <2>3. CASE StopWrite(s)
    BY <2>3 DEF StopWrite, CommitFlag
  <2> QED
    BY <1>3, <2>1, <2>2, <2>3 DEF StopStep
<1>4. ASSUME NEW a \in Account, UserStep(a) PROVE TypeOK'
  <2>1. CASE UserStart(a)
    BY <2>1 DEF UserStart, Launch
  <2>2. CASE UserStop(a)
    <3>1. registry[a] \in Engine
      BY <2>2 DEF UserStop, Operating
    <3>2. spc' \in [Stopper -> {"idle", "spawned", "read", "write"}]
          /\ seng' \in [Stopper -> Engine \cup {None}]
      BY <2>2, <3>1 DEF UserStop
    <3> QED
      BY <2>2, <3>1, <3>2 DEF UserStop, BeginStop
  <2>3. CASE UserReset(a)
    BY <2>3 DEF UserReset
  <2> QED
    BY <1>4, <2>1, <2>2, <2>3 DEF UserStep
<1>5. ASSUME NEW a \in Account, AccountStep(a) PROVE TypeOK'
  <2>1. CASE RestoreAttempt(a)
    <3>1. CASE Operating(a) /\ boot' = [boot EXCEPT ![a] = @ - 1] /\ UNCHANGED <<memory, waiting>>
      BY <2>1, <3>1 DEF RestoreAttempt
    <3>2. CASE \E e \in Engine : /\ Launch(a, e)
                                /\ waiting' = [waiting EXCEPT ![a] = e]
                                /\ UNCHANGED boot
      BY <2>1, <3>2 DEF RestoreAttempt, Launch
    <3> QED
      BY <2>1, <3>1, <3>2 DEF RestoreAttempt
  <2>2. CASE ResetWrite(a)
    BY <2>2 DEF ResetWrite, CommitFlag
  <2> QED
    BY <1>5, <2>1, <2>2 DEF AccountStep
<1>6. CASE Crash
  BY <1>6 DEF Crash, EmptyMemory
<1>7. CASE UNCHANGED vars
  BY <1>7 DEF vars
<1> QED
  BY <1>1, <1>2, <1>3, <1>4, <1>5, <1>6, <1>7 DEF Next

-----------------------------------------------------------------------------
\* The part of IInv that is not the typing.
Links ==
    /\ UsedHasAccount
    /\ ActiveIsServiced
    /\ StopHasEngine
    /\ RegisteredIsRunning
    /\ TrippedIsStopping

LEMMA LinksStep == IInv /\ [Next]_vars => Links'
<1> SUFFICES ASSUME IInv, [Next]_vars PROVE Links'
  OBVIOUS
<1> USE NoneAssumption
<1> USE DEF IInv, TypeOK, Links, UsedHasAccount, ActiveIsServiced, StopHasEngine,
        RegisteredIsRunning, TrippedIsStopping,
        Starting, Finishing, Failing, Settled, memory, tables, restore, stops
<1>1. ASSUME NEW e \in Engine, StartStep(e) PROVE Links'
  <2>1. CASE ConnectOk(e)
    BY <2>1 DEF ConnectOk
  <2>2. CASE ConnectFalse(e)
    BY <2>2 DEF ConnectFalse
  <2>3. CASE StartRaises(e)
    BY <2>3 DEF StartRaises
  <2>4. CASE Register(e)
    BY <2>4 DEF Register
  <2>5. CASE OnRead(e)
    BY <2>5 DEF OnRead
  <2>6. CASE OnWrite(e)
    BY <2>6 DEF OnWrite
  <2>7. CASE InitDone(e)
    BY <2>7 DEF InitDone
  <2>8. CASE OffRead(e)
    BY <2>8 DEF OffRead
  <2>9. CASE OffWrite(e)
    BY <2>9 DEF OffWrite
  <2> QED
    BY <1>1, <2>1, <2>2, <2>3, <2>4, <2>5, <2>6, <2>7, <2>8, <2>9 DEF StartStep
<1>2. ASSUME NEW e \in Engine, EngineStep(e) PROVE Links'
  <2>1. CASE LoopExit(e)
    BY <2>1 DEF LoopExit
  <2>2. CASE BeginCall(e)
    BY <2>2 DEF BeginCall
  <2>3. CASE EndCall(e)
    BY <2>3 DEF EndCall
  <2>4. CASE LimitedOnce(e)
    BY <2>4 DEF LimitedOnce, CanCall
  <2>5. CASE LimitedAgain(e)
    BY <2>5 DEF LimitedAgain, CanCall
  <2>6. CASE Poll(e)
    BY <2>6 DEF Poll
  <2>7. CASE Collect(e)
    BY <2>7 DEF Collect, Live, StopPending
  <2> QED
    BY <1>2, <2>1, <2>2, <2>3, <2>4, <2>5, <2>6, <2>7 DEF EngineStep
<1>3. ASSUME NEW s \in Stopper, StopStep(s) PROVE Links'
  <2>1. CASE StopTask(s)
    BY <2>1 DEF StopTask, BeginStop
  <2>2. CASE StopRead(s)
    BY <2>2 DEF StopRead
  <2>3. CASE StopWrite(s)
    BY <2>3 DEF StopWrite
  <2> QED
    BY <1>3, <2>1, <2>2, <2>3 DEF StopStep
<1>4. ASSUME NEW a \in Account, UserStep(a) PROVE Links'
  <2>1. CASE UserStart(a)
    BY <2>1 DEF UserStart, Launch
  <2>2. CASE UserStop(a)
    BY <2>2 DEF UserStop, Operating, BeginStop
  <2>3. CASE UserReset(a)
    BY <2>3 DEF UserReset
  <2> QED
    BY <1>4, <2>1, <2>2, <2>3 DEF UserStep
<1>5. ASSUME NEW a \in Account, AccountStep(a) PROVE Links'
  <2>1. CASE RestoreAttempt(a)
    BY <2>1 DEF RestoreAttempt, Launch
  <2>2. CASE ResetWrite(a)
    BY <2>2 DEF ResetWrite
  <2> QED
    BY <1>5, <2>1, <2>2 DEF AccountStep
<1>6. CASE Crash
  BY <1>6, CrashIInv
<1>7. CASE UNCHANGED vars
  BY <1>7 DEF vars
<1> QED
  BY <1>1, <1>2, <1>3, <1>4, <1>5, <1>6, <1>7 DEF Next

THEOREM IInvHolds == Spec => []IInv
<1>1. IInv /\ [Next]_vars => IInv'
  <2> SUFFICES ASSUME IInv, [Next]_vars PROVE IInv'
    OBVIOUS
  <2>1. TypeOK'
    BY TypeStep DEF IInv
  <2>2. Links'
    BY LinksStep
  <2> QED
    BY <2>1, <2>2 DEF IInv, Links
<1> QED
  BY InitIInv, <1>1, PTL DEF Spec

-----------------------------------------------------------------------------
\* Type correctness: every variable keeps its type in every reachable state.
THEOREM TypeCorrect == Spec => []TypeOK
<1>1. IInv => TypeOK
  BY DEF IInv
<1> QED
  BY IInvHolds, <1>1, PTL

\* What get_engine() returns runs for that account, whatever starts, stops,
\* crashes and lost commits interleave.
THEOREM RegistryCorrect == Spec => []RegisteredIsRunning
<1>1. IInv => RegisteredIsRunning
  BY DEF IInv
<1> QED
  BY IInvHolds, <1>1, PTL

\* The second 429 always has its stop() under way or done.
THEOREM TrippedCorrect == Spec => []TrippedIsStopping
<1>1. IInv => TrippedIsStopping
  BY DEF IInv
<1> QED
  BY IInvHolds, <1>1, PTL

\* An instance once stopped is not started again.
THEOREM StoppedCorrect == Spec => StoppedForGood
<1>1. ASSUME IInv, [Next]_vars, NEW e \in Engine, Stopped(e)
      PROVE  Stopped(e)' \/ phase'[e] = "unborn"
  <2> USE <1>1 DEF IInv, TypeOK, Stopped, RegisteredIsRunning, Operating,
                   Starting, Finishing, Failing, Settled,
                   memory, tables, restore, stops
  <2>1. ASSUME NEW f \in Engine, StartStep(f) PROVE Stopped(e)'
    <3>1. CASE ConnectOk(f) \/ ConnectFalse(f) \/ StartRaises(f) \/ Register(f)
      BY <3>1 DEF ConnectOk, ConnectFalse, StartRaises, Register
    <3>2. CASE OnRead(f) \/ OffRead(f)
      BY <3>2 DEF OnRead, OffRead
    <3>3. CASE OnWrite(f)
      <4>1. phase' = [phase EXCEPT ![f] = "init"] /\ running' = running
        BY <3>3 DEF OnWrite
      <4> QED
        BY <4>1
    <3>4. CASE OffWrite(f)
      <4>1. phase[f] = "offWrite" /\ phase' = [phase EXCEPT ![f] = "gone"]
            /\ running' = running
        BY <3>4 DEF OffWrite
      <4> QED
        BY <4>1
    <3>5. CASE InitDone(f)
      BY <3>5 DEF InitDone
    <3> QED
      BY <2>1, <3>1, <3>2, <3>3, <3>4, <3>5 DEF StartStep
  <2>2. ASSUME NEW f \in Engine, EngineStep(f)
        PROVE  Stopped(e)' \/ phase'[e] = "unborn"
    BY <2>2 DEF EngineStep, LoopExit, BeginCall, EndCall, LimitedOnce,
                LimitedAgain, Poll, Collect
  <2>3. ASSUME NEW s \in Stopper, StopStep(s) PROVE Stopped(e)'
    BY <2>3 DEF StopStep, StopTask, StopRead, StopWrite, BeginStop
  <2>4. ASSUME NEW a \in Account, UserStep(a) PROVE Stopped(e)'
    BY <2>4 DEF UserStep, UserStart, UserStop, UserReset, Launch, BeginStop
  <2>5. ASSUME NEW a \in Account, AccountStep(a) PROVE Stopped(e)'
    <3>1. CASE \E f \in Engine : Launch(a, f)
      BY <3>1 DEF Launch
    <3>2. CASE UNCHANGED memory
      BY <3>2
    <3> QED
      BY <2>5, <3>1, <3>2 DEF AccountStep, RestoreAttempt, ResetWrite
  <2>6. CASE Crash
    BY <2>6 DEF Crash, EmptyMemory
  <2>7. CASE UNCHANGED vars
    BY <2>7 DEF vars
  <2> QED
    BY <2>1, <2>2, <2>3, <2>4, <2>5, <2>6, <2>7 DEF Next
<1>2. IInv /\ [Next]_vars =>
        [\A e \in Engine : Stopped(e) => Stopped(e)' \/ phase'[e] = "unborn"]_vars
  BY <1>1
<1> QED
  BY IInvHolds, <1>2, PTL DEF Spec, StoppedForGood

-----------------------------------------------------------------------------
(***************************************************************************)
(* When the requests for an account do not overlap, one engine instance at *)
(* most works for it and a running one can be found: for any number of     *)
(* accounts and instances, with crashes, lost commits, exceptions and      *)
(* rate-limit stops at any moment.                                         *)
(***************************************************************************)

\* While delayed_start(a) is not over, the only instance at work is its own.
BootOwns ==
    \A a \in Account : boot[a] > 0 =>
        \A e \in Engine : acct[e] = a /\ Live(e) => waiting[a] = e

\* The start() that delayed_start(a) awaits is in flight.
AwaitedIsStarting ==
    \A a \in Account : waiting[a] # None =>
        /\ acct[waiting[a]] = a
        /\ phase[waiting[a]] \notin Settled
        /\ boot[a] > 0

Serial == SingleEngine /\ RunningIsRegistered /\ BootOwns /\ AwaitedIsStarting

LEMMA InitSerial == Init => Serial
<1> SUFFICES ASSUME Init PROVE Serial
  OBVIOUS
<1>1. \A e \in Engine : ~Live(e)
  BY NoneAssumption DEF Init, Live, StopPending, Settled
<1>2. SingleEngine /\ RunningIsRegistered /\ BootOwns
  BY <1>1 DEF SingleEngine, RunningIsRegistered, BootOwns, Live
<1>3. AwaitedIsStarting
  BY DEF Init, AwaitedIsStarting
<1> QED
  BY <1>2, <1>3 DEF Serial

\* In a quiet account without a registered engine no instance is at work.
LEMMA QuietIsIdle ==
    ASSUME IInv, RunningIsRegistered, NEW a \in Account, Quiet(a), ~Operating(a)
    PROVE  \A e \in Engine : acct[e] = a => ~Live(e)
BY NoneAssumption DEF IInv, TypeOK, RunningIsRegistered, Quiet, Operating, Live

\* A launch into an idle account keeps Serial, by a user or by delayed_start.
LEMMA LaunchSerial ==
    ASSUME IInv, Serial, NEW a \in Account, NEW e \in Engine, Launch(a, e),
           \A f \in Engine : acct[f] = a => ~Live(f),
           UNCHANGED <<tables, stops, boot>>,
           \/ boot[a] = 0 /\ UNCHANGED waiting
           \/ boot[a] > 0 /\ waiting' = [waiting EXCEPT ![a] = e]
    PROVE  Serial'
<1> USE NoneAssumption
<1> USE DEF IInv, TypeOK, Serial, Settled, tables, stops
<1>1. phase[e] = "unborn" /\ acct[e] = None
  BY DEF Launch, RegisteredIsRunning, UsedHasAccount
<1>2. \A f \in Engine \ {e} : acct'[f] = acct[f] /\ phase'[f] = phase[f]
  BY DEF Launch
<1>3. acct'[e] = a /\ phase'[e] = "connect" /\ UNCHANGED <<running, loops, calls>>
  BY DEF Launch
<1>4. \A f \in Engine \ {e} : Live(f)' <=> Live(f)
  BY <1>2, <1>3 DEF Live, StopPending
<1>5. SingleEngine'
  BY <1>2, <1>3, <1>4 DEF SingleEngine
<1>6. RunningIsRegistered'
  BY <1>1, <1>2, <1>3 DEF RunningIsRegistered, ActiveIsServiced, Finishing
<1>7. BootOwns'
  BY <1>2, <1>3, <1>4 DEF BootOwns
<1>8. AwaitedIsStarting'
  BY <1>1, <1>2, <1>3 DEF AwaitedIsStarting
<1> QED
  BY <1>5, <1>6, <1>7, <1>8

LEMMA SerialStep ==
    ASSUME "overlap" \notin Faults
    PROVE  IInv /\ Serial /\ [Next]_vars => Serial'
<1> SUFFICES ASSUME IInv, Serial, [Next]_vars PROVE Serial'
  OBVIOUS
<1> USE NoneAssumption, BootAssumption
<1> USE DEF IInv, TypeOK, Serial, SingleEngine, RunningIsRegistered, BootOwns,
        AwaitedIsStarting, Live, StopPending,
        UsedHasAccount, ActiveIsServiced, StopHasEngine, RegisteredIsRunning,
        Starting, Finishing, Failing, Settled, memory, tables, restore, stops
<1>1. ASSUME NEW e \in Engine, StartStep(e) PROVE Serial'
  <2>1. CASE ConnectOk(e)
    BY <2>1 DEF ConnectOk
  <2>2. CASE ConnectFalse(e)
    BY <2>2 DEF ConnectFalse
  <2>3. CASE StartRaises(e)
    BY <2>3 DEF StartRaises, Report
  <2>4. CASE Register(e)
    BY <2>4 DEF Register
  <2>5. CASE OnRead(e)
    BY <2>5 DEF OnRead
  <2>6. CASE OnWrite(e)
    BY <2>6 DEF OnWrite
  <2>7. CASE InitDone(e)
    BY <2>7 DEF InitDone, Report
  <2>8. CASE OffRead(e)
    BY <2>8 DEF OffRead
  <2>9. CASE OffWrite(e)
    BY <2>9 DEF OffWrite, Report
  <2> QED
    BY <1>1, <2>1, <2>2, <2>3, <2>4, <2>5, <2>6, <2>7, <2>8, <2>9 DEF StartStep
<1>2. ASSUME NEW e \in Engine, EngineStep(e) PROVE Serial'
  <2>1. CASE LoopExit(e)
    BY <2>1 DEF LoopExit
  <2>2. CASE BeginCall(e)
    BY <2>2 DEF BeginCall
  <2>3. CASE EndCall(e)
    BY <2>3 DEF EndCall
  <2>4. CASE LimitedOnce(e)
    BY <2>4 DEF LimitedOnce, CanCall
  <2>5. CASE LimitedAgain(e)
    BY <2>5 DEF LimitedAgain, CanCall
  <2>6. CASE Poll(e)
    BY <2>6 DEF Poll
  <2>7. CASE Collect(e)
    BY <2>7 DEF Collect
  <2> QED
    BY <1>2, <2>1, <2>2, <2>3, <2>4, <2>5, <2>6, <2>7 DEF EngineStep
<1>3. ASSUME NEW s \in Stopper, StopStep(s) PROVE Serial'
  <2>1. CASE StopTask(s)
    BY <2>1 DEF StopTask, BeginStop
  <2>2. CASE StopRead(s)
    BY <2>2 DEF StopRead
  <2>3. CASE StopWrite(s)
    BY <2>3 DEF StopWrite
  <2> QED
    BY <1>3, <2>1, <2>2, <2>3 DEF StopStep
<1>4. ASSUME NEW a \in Account, UserStep(a) PROVE Serial'
  <2>1. CASE UserStart(a)
    <3> PICK e \in Engine : Launch(a, e)
      BY <2>1 DEF UserStart
    <3>1. Quiet(a) /\ ~Operating(a)
      BY <2>1 DEF UserStart, Allowed, Launch, Operating
    <3>2. \A f \in Engine : acct[f] = a => ~Live(f)
      BY <3>1, QuietIsIdle
    <3>3. boot[a] = 0 /\ UNCHANGED <<tables, stops, boot, waiting>>
      BY <2>1, <3>1 DEF UserStart, Quiet
    <3> HIDE DEF IInv, Serial, Live, tables, stops
    <3> QED
      BY <3>2, <3>3, LaunchSerial
  <2>2. CASE UserStop(a)
    BY <2>2 DEF UserStop, Operating, BeginStop
  <2>3. CASE UserReset(a)
    BY <2>3 DEF UserReset
  <2> QED
    BY <1>4, <2>1, <2>2, <2>3 DEF UserStep
<1>5. ASSUME NEW a \in Account, AccountStep(a) PROVE Serial'
  <2>1. CASE RestoreAttempt(a)
    <3>1. boot[a] > 0 /\ \A f \in Engine : acct[f] = a => ~Live(f)
      BY <2>1 DEF RestoreAttempt
    <3>2. ~Operating(a)
      BY <3>1 DEF Operating
    <3>3. PICK e \in Engine : Launch(a, e) /\ waiting' = [waiting EXCEPT ![a] = e]
                                          /\ UNCHANGED boot
      BY <2>1, <3>2 DEF RestoreAttempt
    <3>4. UNCHANGED <<tables, stops>>
      BY <2>1 DEF RestoreAttempt
    <3> HIDE DEF IInv, Serial, Live, tables, stops
    <3> QED
      BY <3>1, <3>3, <3>4, LaunchSerial
  <2>2. CASE ResetWrite(a)
    BY <2>2 DEF ResetWrite
  <2> QED
    BY <1>5, <2>1, <2>2 DEF AccountStep
<1>6. CASE Crash
  BY <1>6 DEF Crash, EmptyMemory
<1>7. CASE UNCHANGED vars
  BY <1>7 DEF vars
<1> QED
  BY <1>1, <1>2, <1>3, <1>4, <1>5, <1>6, <1>7 DEF Next

THEOREM SerialHolds ==
    ASSUME "overlap" \notin Faults
    PROVE  Spec => []Serial
<1>1. IInv /\ Serial /\ [Next]_vars => Serial'
  BY SerialStep
<1> QED
  BY InitSerial, IInvHolds, <1>1, PTL DEF Spec

\* Without overlapping requests no two instances ever work for one account.
THEOREM SingleEngineCorrect ==
    ASSUME "overlap" \notin Faults
    PROVE  Spec => []SingleEngine
<1>1. Serial => SingleEngine
  BY DEF Serial
<1> QED
  BY SerialHolds, <1>1, PTL

\* Without overlapping requests a running engine is always found by stop().
THEOREM RunningCorrect ==
    ASSUME "overlap" \notin Faults
    PROVE  Spec => []RunningIsRegistered
<1>1. Serial => RunningIsRegistered
  BY DEF Serial
<1> QED
  BY SerialHolds, <1>1, PTL

=============================================================================
