-------------------------- MODULE EngineSwitchProofs --------------------------
(***************************************************************************)
(* EngineLifecycle implements EngineSwitch when the requests for an        *)
(* account do not overlap, commits succeed and a start fails by returning  *)
(* False: for any number of accounts and instances, with crashes and       *)
(* rate-limit stops at any moment.                                         *)
(***************************************************************************)
EXTENDS EngineLifecycleProofs

Tame == Faults \cap {"overlap", "save", "raise"} = {}

\* A stop() under way has stopped its instance.
StoppingStopped ==
    \A s \in Stopper : spc[s] \in {"read", "write"} => ~running[seng[s]]

\* A stop request that found no engine still has none to disturb.
ResetIsIdle ==
    \A a \in Account : reset[a] =>
        boot[a] = 0 /\ \A e \in Engine : acct[e] = a => ~Live(e)

\* What a failed start has read of the flag is still so.
SeenIsFlag == \A e \in Engine : phase[e] = "offWrite" => seen[e] = flag[acct[e]]

Tidy == StoppingStopped /\ ResetIsIdle /\ SeenIsFlag

-----------------------------------------------------------------------------
(* What Power says of an account, before and after a step. *)

Shown(e) ==
    IF running[e] THEN "on"
    ELSE IF phase[e] \in Starting \cup Failing THEN "starting" ELSE "ending"

LEMMA PowerNow ==
    ASSUME SingleEngine, NEW a \in Account, NEW e \in Engine, acct[e] = a, Live(e)
    PROVE  Power(a) = Shown(e)
<1>1. Working(a) = {e}
  BY DEF SingleEngine, Working
<1> QED
  BY <1>1, Zenon DEF Power, Shown

LEMMA PowerThen ==
    ASSUME SingleEngine', NEW a \in Account, NEW e \in Engine, acct'[e] = a, Live(e)'
    PROVE  Power(a)' = Shown(e)'
<1>1. Working(a)' = {e}
  BY DEF SingleEngine, Working
<1> QED
  BY <1>1, Zenon DEF Power, Shown

LEMMA IdleNow ==
    ASSUME NEW a \in Account, \A e \in Engine : acct[e] = a => ~Live(e)
    PROVE  Power(a) = "off"
<1>1. Working(a) = {}
  BY DEF Working
<1> QED
  BY <1>1, Zenon DEF Power

LEMMA IdleThen ==
    ASSUME NEW a \in Account, \A e \in Engine : acct'[e] = a => ~Live(e)'
    PROVE  Power(a)' = "off"
<1>1. Working(a)' = {}
  BY DEF Working
<1> QED
  BY <1>1, Zenon DEF Power

\* A step of one instance.
OnlyTouches(e) ==
    \A f \in Engine \ {e} :
        /\ acct'[f] = acct[f] /\ (Live(f)' <=> Live(f))
        /\ running'[f] = running[f] /\ phase'[f] = phase[f]

LEMMA OthersKeep ==
    ASSUME NEW e \in Engine, NEW a \in Account,
           acct[e] \in {a, None}, acct'[e] \in {a, None}, OnlyTouches(e)
    PROVE  \A b \in Account \ {a} : Power(b)' = Power(b)
<1> TAKE b \in Account \ {a}
<1>1. acct[e] # b /\ acct'[e] # b
  BY NoneAssumption
<1>2. Working(b)' = Working(b)
  BY <1>1 DEF Working, OnlyTouches
<1>3. \A f \in Working(b) : running'[f] = running[f] /\ phase'[f] = phase[f]
  BY <1>1 DEF Working, OnlyTouches
<1>4. (\E f \in Working(b)' : running'[f]) <=> \E f \in Working(b) : running[f]
  BY <1>2, <1>3
<1>5. (\E f \in Working(b)' : phase'[f] \in Starting \cup Failing)
        <=> \E f \in Working(b) : phase[f] \in Starting \cup Failing
  BY <1>2, <1>3
<1> HIDE DEF Working
<1> QED
  BY <1>2, <1>4, <1>5, Zenon DEF Power, Starting, Failing

Powers == [a \in Account |-> Power(a)]

\* The other accounts' positions are carried over.
LEMMA PowersMove ==
    ASSUME NEW a \in Account, \A b \in Account \ {a} : Power(b)' = Power(b)
    PROVE  /\ Powers' = [Powers EXCEPT ![a] = Power(a)']
           /\ Power(a)' = Power(a) => Powers' = Powers
<1>1. Powers' = [b \in Account |-> Power(b)'] /\ Powers = [b \in Account |-> Power(b)]
  BY DEF Powers
<1> QED
  BY <1>1

-----------------------------------------------------------------------------
(* Tidy is inductive beside the invariants of the other proofs. *)

LEMMA InitTidy == Init => Tidy
BY NoneAssumption DEF Init, Tidy, StoppingStopped, ResetIsIdle, SeenIsFlag

\* What a step of a start() leaves alone.
LEMMA StartFrame ==
    ASSUME IInv, NEW e \in Engine, StartStep(e)
    PROVE  /\ phase[e] \notin Settled /\ acct[e] \in Account
           /\ UNCHANGED <<acct, calls, stops, reset>>
           /\ \A a \in Account \ {acct[e]} : boot'[a] = boot[a]
           /\ OnlyTouches(e)
<1> USE NoneAssumption
<1> USE DEF IInv, TypeOK, UsedHasAccount, Settled, OnlyTouches, Live, StopPending, stops,
        restore, tables
<1>1. CASE ConnectOk(e)
  BY <1>1 DEF ConnectOk
<1>2. CASE ConnectFalse(e)
  BY <1>2 DEF ConnectFalse
<1>3. CASE StartRaises(e)
  BY <1>3 DEF StartRaises, Starting, Report
<1>4. CASE Register(e)
  BY <1>4 DEF Register
<1>5. CASE OnRead(e)
  BY <1>5 DEF OnRead
<1>6. CASE OnWrite(e)
  BY <1>6 DEF OnWrite
<1>7. CASE InitDone(e)
  BY <1>7 DEF InitDone, Report
<1>8. CASE OffRead(e)
  BY <1>8 DEF OffRead
<1>9. CASE OffWrite(e)
  BY <1>9 DEF OffWrite, Report
<1> QED
  BY <1>1, <1>2, <1>3, <1>4, <1>5, <1>6, <1>7, <1>8, <1>9, StartStep(e) DEF StartStep

\* No instance of an account with a reset under way gets work to do.
LEMMA ResetStays ==
    ASSUME Tame, IInv, Serial, Tidy, [Next]_vars
    PROVE  ResetIsIdle'
<1> USE NoneAssumption, BootAssumption
<1> USE DEF Tidy, ResetIsIdle, IInv, TypeOK, Live, StopPending, UsedHasAccount,
        ActiveIsServiced, StopHasEngine, RegisteredIsRunning, Finishing, Starting, Failing,
        Settled, memory, tables, restore, stops
<1>1. ASSUME NEW e \in Engine, StartStep(e) PROVE ResetIsIdle'
  <2>1. Live(e)
    BY <1>1, StartFrame
  <2>2. ~reset[acct[e]] /\ acct[e] \in Account /\ UNCHANGED <<reset, acct>>
    BY <1>1, <2>1, StartFrame
  <2>3. \A a \in Account \ {acct[e]} : boot'[a] = boot[a]
    BY <1>1, StartFrame
  <2>4. \A f \in Engine \ {e} : Live(f)' <=> Live(f)
    BY <1>1, StartFrame DEF OnlyTouches
  <2> HIDE DEF Live
  <2> QED
    BY <2>2, <2>3, <2>4
<1>2. ASSUME NEW e \in Engine, EngineStep(e) PROVE ResetIsIdle'
  <2>1. CASE LoopExit(e)
    BY <2>1 DEF LoopExit
  <2>2. CASE BeginCall(e)
    BY <2>2 DEF BeginCall
  <2>3. CASE EndCall(e)
    BY <2>3 DEF EndCall
  <2>4. CASE LimitedOnce(e) \/ Poll(e)
    BY <2>4 DEF LimitedOnce, Poll
  <2>5. CASE LimitedAgain(e)
    BY <2>5 DEF LimitedAgain, CanCall
  <2>6. CASE Collect(e)
    BY <2>6 DEF Collect
  <2> QED
    BY <1>2, <2>1, <2>2, <2>3, <2>4, <2>5, <2>6 DEF EngineStep
<1>3. ASSUME NEW s \in Stopper, StopStep(s) PROVE ResetIsIdle'
  <2>1. CASE StopTask(s)
    BY <2>1 DEF StopTask, BeginStop
  <2>2. CASE StopRead(s)
    BY <2>2 DEF StopRead
  <2>3. CASE StopWrite(s)
    BY <2>3 DEF StopWrite
  <2> QED
    BY <1>3, <2>1, <2>2, <2>3 DEF StopStep
<1>4. ASSUME NEW a \in Account, UserStart(a) PROVE ResetIsIdle'
  BY <1>4 DEF UserStart, Allowed, Tame, Quiet, Launch
<1>5. ASSUME NEW a \in Account, UserStop(a) PROVE ResetIsIdle'
  BY <1>5 DEF UserStop, Operating, BeginStop
<1>6. ASSUME NEW a \in Account, UserReset(a) PROVE ResetIsIdle'
  <2>1. Quiet(a) /\ ~Operating(a)
    BY <1>6 DEF UserReset, Allowed, Tame
  <2>2. \A e \in Engine : acct[e] = a => ~Live(e)
    BY <2>1, QuietIsIdle DEF Serial
  <2> QED
    BY <1>6, <2>1, <2>2 DEF UserReset, Quiet
<1>7. ASSUME NEW a \in Account, RestoreAttempt(a) PROVE ResetIsIdle'
  BY <1>7 DEF RestoreAttempt, Launch
<1>8. ASSUME NEW a \in Account, ResetWrite(a) PROVE ResetIsIdle'
  BY <1>8 DEF ResetWrite
<1>9. CASE Crash
  BY <1>9 DEF Crash, EmptyMemory
<1>10. CASE UNCHANGED vars
  BY <1>10 DEF vars
<1> QED
  BY <1>1, <1>2, <1>3, <1>4, <1>5, <1>6, <1>7, <1>8, <1>9, <1>10
     DEF Next, UserStep, AccountStep

LEMMA StoppingStays ==
    ASSUME IInv, Tidy, [Next]_vars
    PROVE  StoppingStopped'
<1> USE NoneAssumption
<1> USE DEF Tidy, StoppingStopped, IInv, TypeOK, StopHasEngine, Finishing,
        memory, tables, restore, stops
<1>1. ASSUME NEW e \in Engine, StartStep(e) PROVE StoppingStopped'
  <2>1. CASE Register(e)
    BY <2>1 DEF Register
  <2>2. CASE ~Register(e)
    <3>1. UNCHANGED running
      BY <1>1, <2>2 DEF StartStep, ConnectOk, ConnectFalse, StartRaises, OnRead, OnWrite,
                        InitDone, OffRead, OffWrite
    <3> QED
      BY <1>1, <3>1, StartFrame
  <2> QED
    BY <2>1, <2>2
<1>2. ASSUME NEW e \in Engine, EngineStep(e) PROVE StoppingStopped'
  BY <1>2 DEF EngineStep, LoopExit, BeginCall, EndCall, LimitedOnce, LimitedAgain, Poll, Collect
<1>3. ASSUME NEW s \in Stopper, StopStep(s) PROVE StoppingStopped'
  <2>1. CASE StopTask(s)
    BY <2>1 DEF StopTask, BeginStop
  <2>2. CASE StopRead(s)
    BY <2>2 DEF StopRead
  <2>3. CASE StopWrite(s)
    BY <2>3 DEF StopWrite
  <2> QED
    BY <1>3, <2>1, <2>2, <2>3 DEF StopStep
<1>4. ASSUME NEW a \in Account, UserStep(a) PROVE StoppingStopped'
  BY <1>4 DEF UserStep, UserStart, UserStop, UserReset, Launch, BeginStop, Operating
<1>5. ASSUME NEW a \in Account, AccountStep(a) PROVE StoppingStopped'
  BY <1>5 DEF AccountStep, RestoreAttempt, ResetWrite, Launch
<1>6. CASE Crash
  BY <1>6 DEF Crash, EmptyMemory
<1>7. CASE UNCHANGED vars
  BY <1>7 DEF vars
<1> QED
  BY <1>1, <1>2, <1>3, <1>4, <1>5, <1>6, <1>7 DEF Next

LEMMA SeenStays ==
    ASSUME Tame, IInv, Serial, Tidy, [Next]_vars
    PROVE  SeenIsFlag'
<1> USE NoneAssumption
<1> USE DEF Tidy, SeenIsFlag, ResetIsIdle, IInv, TypeOK, UsedHasAccount, StopHasEngine,
        Serial, SingleEngine, Live, StopPending, Starting, Finishing, Failing, Settled,
        CommitFlag, memory, tables, restore, stops
<1>1. ASSUME NEW e \in Engine, StartStep(e) PROVE SeenIsFlag'
  <2>1. phase[e] \notin Settled /\ acct[e] \in Account
    BY <1>1 DEF StartStep, ConnectOk, ConnectFalse, StartRaises, Register, OnRead, OnWrite,
                InitDone, OffRead, OffWrite
  <2>2. \A f \in Engine \ {e} : phase[f] = "offWrite" => acct[f] # acct[e]
    BY <2>1
  <2>3. CASE OnWrite(e) \/ OffWrite(e)
    BY <2>1, <2>2, <2>3 DEF OnWrite, OffWrite
  <2>4. CASE OnRead(e) \/ OffRead(e)
    BY <2>1, <2>4 DEF OnRead, OffRead
  <2>5. CASE ConnectOk(e) \/ ConnectFalse(e) \/ StartRaises(e) \/ Register(e) \/ InitDone(e)
    BY <2>1, <2>5 DEF ConnectOk, ConnectFalse, StartRaises, Register, InitDone
  <2> QED
    BY <1>1, <2>3, <2>4, <2>5 DEF StartStep
<1>2. ASSUME NEW e \in Engine, EngineStep(e) PROVE SeenIsFlag'
  BY <1>2 DEF EngineStep, LoopExit, BeginCall, EndCall, LimitedOnce, LimitedAgain, Poll, Collect
<1>3. ASSUME NEW s \in Stopper, StopStep(s) PROVE SeenIsFlag'
  <2>1. CASE StopTask(s) \/ StopRead(s)
    BY <2>1 DEF StopTask, BeginStop, StopRead
  <2>2. CASE StopWrite(s)
    <3>1. seng[s] \in Engine /\ Live(seng[s]) /\ phase[seng[s]] # "offWrite"
      BY <2>2 DEF StopWrite
    <3>2. \A f \in Engine : phase[f] = "offWrite" => acct[f] # acct[seng[s]]
      BY <3>1
    <3> QED
      BY <2>2, <3>1, <3>2 DEF StopWrite
  <2> QED
    BY <1>3, <2>1, <2>2 DEF StopStep
<1>4. ASSUME NEW a \in Account, UserStep(a) PROVE SeenIsFlag'
  BY <1>4 DEF UserStep, UserStart, UserStop, UserReset, Launch, BeginStop, Operating
<1>5. ASSUME NEW a \in Account, AccountStep(a) PROVE SeenIsFlag'
  BY <1>5 DEF AccountStep, RestoreAttempt, ResetWrite, Launch
<1>6. CASE Crash
  BY <1>6 DEF Crash, EmptyMemory
<1>7. CASE UNCHANGED vars
  BY <1>7 DEF vars
<1> QED
  BY <1>1, <1>2, <1>3, <1>4, <1>5, <1>6, <1>7 DEF Next

LEMMA TidyStep ==
    ASSUME Tame
    PROVE  IInv /\ Serial /\ Tidy /\ [Next]_vars => Tidy'
<1> SUFFICES ASSUME IInv, Serial, Tidy, [Next]_vars PROVE Tidy'
  OBVIOUS
<1> QED
  BY ResetStays, StoppingStays, SeenStays DEF Tidy

-----------------------------------------------------------------------------
(* Every step is a step of the switch, or none. *)

\* A step of one instance of account a, as a step of the switch.
LEMMA TouchMoves ==
    ASSUME NEW e \in Engine, NEW a \in Account,
           acct[e] \in {a, None}, acct'[e] \in {a, None}, OnlyTouches(e)
    PROVE  /\ Powers' = [Powers EXCEPT ![a] = Power(a)']
           /\ Power(a)' = Power(a) => Powers' = Powers
BY OthersKeep, PowersMove

SwitchStep == Switch!SwitchNext \/ UNCHANGED <<Powers, flag>>

\* The steps of the switch, by the position before and after.
LEMMA SwitchMoves ==
    ASSUME NEW a \in Account, Powers' = [Powers EXCEPT ![a] = Power(a)'],
           Power(a)' = Power(a) => Powers' = Powers,
           \/ UNCHANGED flag /\ Power(a)' = Power(a)
           \/ UNCHANGED flag /\ Power(a) = "off" /\ Power(a)' = "starting"
           \/ UNCHANGED flag /\ Power(a) = "starting" /\ Power(a)' = "on"
           \/ UNCHANGED flag /\ Power(a) = "on" /\ Power(a)' = "ending"
           \/ /\ Power(a) = "starting" /\ Power(a)' = "off"
              /\ flag' = [flag EXCEPT ![a] = FALSE]
           \/ /\ Power(a) \in {"on", "ending"} /\ Power(a)' = Power(a)
              /\ flag' = [flag EXCEPT ![a] = TRUE]
           \/ /\ Power(a) = "ending" /\ Power(a)' \in {"ending", "off"}
              /\ UNCHANGED flag \/ flag' = [flag EXCEPT ![a] = FALSE]
           \/ /\ Power(a) = "off" /\ Power(a)' = "off"
              /\ flag' = [flag EXCEPT ![a] = FALSE]
    PROVE  SwitchStep
<1>1. Powers[a] = Power(a) /\ Powers = [b \in Account |-> Power(b)]
  BY DEF Powers
<1>2. CASE UNCHANGED flag /\ Power(a)' = Power(a)
  BY <1>2 DEF SwitchStep
<1> USE <1>1 DEF SwitchStep, Powers, Switch!SwitchNext, Switch!Moves, Switch!Saves
<1>3. CASE UNCHANGED flag /\ Power(a) = "off" /\ Power(a)' = "starting"
  <2>1. Switch!TurnOn(a)
    BY <1>3 DEF Switch!TurnOn
  <2> QED
    BY <2>1
<1>4. CASE UNCHANGED flag /\ Power(a) = "starting" /\ Power(a)' = "on"
  <2>1. Switch!ComesUp(a)
    BY <1>4 DEF Switch!ComesUp
  <2> QED
    BY <2>1
<1>5. CASE UNCHANGED flag /\ Power(a) = "on" /\ Power(a)' = "ending"
  <2>1. Switch!TurnOff(a)
    BY <1>5 DEF Switch!TurnOff
  <2> QED
    BY <2>1
<1>6. CASE /\ Power(a) = "starting" /\ Power(a)' = "off"
           /\ flag' = [flag EXCEPT ![a] = FALSE]
  <2>1. Switch!Fails(a)
    BY <1>6 DEF Switch!Fails
  <2> QED
    BY <2>1
<1>7. CASE /\ Power(a) \in {"on", "ending"} /\ Power(a)' = Power(a)
           /\ flag' = [flag EXCEPT ![a] = TRUE]
  <2>1. Switch!Records(a)
    BY <1>7 DEF Switch!Records
  <2> QED
    BY <2>1
<1>8. CASE /\ Power(a) = "ending" /\ Power(a)' \in {"ending", "off"}
           /\ UNCHANGED flag \/ flag' = [flag EXCEPT ![a] = FALSE]
  <2>1. Switch!Ends(a)
    BY <1>8 DEF Switch!Ends
  <2> QED
    BY <2>1
<1>9. CASE /\ Power(a) = "off" /\ Power(a)' = "off"
           /\ flag' = [flag EXCEPT ![a] = FALSE]
  <2>1. Switch!Reset(a)
    BY <1>9 DEF Switch!Reset
  <2> QED
    BY <2>1
<1> QED
  BY <1>2, <1>3, <1>4, <1>5, <1>6, <1>7, <1>8, <1>9

LEMMA StartSwitches ==
    ASSUME Tame, IInv, Serial, Serial', Tidy, NEW e \in Engine, StartStep(e)
    PROVE  SwitchStep
<1> DEFINE a == acct[e]
<1>1. a \in Account /\ acct'[e] = a /\ Live(e) /\ OnlyTouches(e)
  BY StartFrame DEF Live
<1>2. /\ Powers' = [Powers EXCEPT ![a] = Power(a)']
      /\ Power(a)' = Power(a) => Powers' = Powers
  BY <1>1, TouchMoves
<1>3. Power(a) = Shown(e) /\ (Live(e)' => Power(a)' = Shown(e)')
  BY <1>1, PowerNow, PowerThen DEF Serial
<1>4. Powers[a] = Power(a)
  BY <1>1 DEF Powers
<1>5. ~Live(e)' => Power(a)' = "off"
  <2> SUFFICES ASSUME ~Live(e)' PROVE Power(a)' = "off"
    OBVIOUS
  <2>1. \A f \in Engine \ {e} : acct'[f] = a => ~Live(f)'
    BY <1>1 DEF OnlyTouches, Serial, SingleEngine
  <2> QED
    BY <1>1, <2>1, IdleThen
<1> USE DEF IInv, TypeOK, ActiveIsServiced, StopHasEngine, Shown, Live, StopPending,
        Starting, Finishing, Failing, Settled
<1>6. CASE ConnectOk(e) \/ ConnectFalse(e) \/ OnRead(e) \/ OffRead(e) \/ InitDone(e)
  <2>1. /\ UNCHANGED <<running, calls, seng, flag>>
        /\ \/ phase[e] \in Starting \cup Failing /\ phase'[e] \in Starting \cup Failing
           \/ phase[e] \in Finishing /\ phase'[e] \in Finishing
           \/ phase[e] \in Finishing /\ loops'[e] /\ phase'[e] = "up"
    <3>1. CASE ConnectOk(e) \/ ConnectFalse(e)
      BY <3>1 DEF ConnectOk, ConnectFalse, stops
    <3>2. CASE OnRead(e) \/ OffRead(e)
      BY <3>2 DEF OnRead, OffRead, stops
    <3>3. CASE InitDone(e)
      BY <3>3 DEF InitDone, stops
    <3> QED
      BY <1>6, <3>1, <3>2, <3>3
  <2> HIDE DEF IInv, TypeOK, StopPending
  <2>2. Live(e)' /\ Shown(e)' = Shown(e)
    BY <2>1
  <2> QED
    BY <1>1, <1>2, <1>3, <2>1, <2>2, SwitchMoves
<1>7. CASE Register(e)
  <2>1. Live(e)' /\ Shown(e) = "starting" /\ Shown(e)' = "on" /\ UNCHANGED flag
    BY <1>7 DEF Register
  <2> QED
    BY <1>1, <1>2, <1>3, <2>1, SwitchMoves
<1>8. CASE OnWrite(e)
  <2>1. /\ phase[e] = "onWrite" /\ phase'[e] = "init" /\ UNCHANGED running
        /\ CommitFlag(a, seen[e], TRUE)
    BY <1>8 DEF OnWrite
  <2> HIDE DEF IInv, TypeOK, StopPending
  <2>2. Live(e)' /\ Shown(e) \in {"on", "ending"} /\ Shown(e)' = Shown(e)
    BY <2>1
  <2>3. UNCHANGED flag \/ flag' = [flag EXCEPT ![a] = TRUE]
    BY <2>1 DEF CommitFlag
  <2> QED
    BY <1>1, <1>2, <1>3, <2>2, <2>3, SwitchMoves
<1>9. CASE OffWrite(e)
  <2>1. ~Live(e)' /\ Shown(e) = "starting"
    BY <1>9, NoneAssumption DEF OffWrite, stops
  <2>2. flag' = [flag EXCEPT ![a] = FALSE]
    BY <1>1, <1>9 DEF OffWrite, CommitFlag, Tame, Tidy, SeenIsFlag
  <2> QED
    BY <1>1, <1>2, <1>3, <1>5, <2>1, <2>2, SwitchMoves
<1> QED
  BY <1>6, <1>7, <1>8, <1>9, StartStep(e) DEF StartStep, StartRaises, Tame

LEMMA EngineSwitches ==
    ASSUME IInv, Serial, Serial', Tidy, NEW e \in Engine, EngineStep(e)
    PROVE  SwitchStep
<1> USE NoneAssumption
<1> USE DEF IInv, TypeOK, UsedHasAccount, ActiveIsServiced, StopHasEngine, Finishing,
        Settled, stops, tables, restore
<1>1. acct[e] \in Account /\ acct'[e] \in {acct[e], None} /\ OnlyTouches(e) /\ UNCHANGED flag
  <2>1. CASE LoopExit(e) \/ BeginCall(e) \/ EndCall(e) \/ LimitedOnce(e) \/ Poll(e)
    BY <2>1 DEF LoopExit, BeginCall, EndCall, LimitedOnce, Poll, CanCall, OnlyTouches, Live,
                StopPending
  <2>2. CASE LimitedAgain(e)
    BY <2>2 DEF LimitedAgain, CanCall, OnlyTouches, Live, StopPending
  <2>3. CASE Collect(e)
    BY <2>3 DEF Collect, OnlyTouches, Live, StopPending
  <2> QED
    BY <2>1, <2>2, <2>3, EngineStep(e) DEF EngineStep
<1>2. PICK a \in Account : a = acct[e]
  BY <1>1
<1>3. /\ Powers' = [Powers EXCEPT ![a] = Power(a)']
      /\ Power(a)' = Power(a) => Powers' = Powers
  BY <1>1, <1>2, TouchMoves
<1>4. /\ Live(e) => Power(a) = Shown(e)
      /\ Live(e)' /\ acct'[e] = a => Power(a)' = Shown(e)'
  BY <1>2, PowerNow, PowerThen DEF Serial
<1>5. Live(e) /\ ~(Live(e)' /\ acct'[e] = a) => Power(a)' = "off"
  <2> SUFFICES ASSUME Live(e), ~(Live(e)' /\ acct'[e] = a) PROVE Power(a)' = "off"
    OBVIOUS
  <2>1. \A f \in Engine : acct'[f] = a => ~Live(f)'
    BY <1>1, <1>2 DEF OnlyTouches, Serial, SingleEngine
  <2> QED
    BY <2>1, IdleThen
<1>6. CASE Collect(e)
  <2>1. \A f \in Engine \ {e} : acct'[f] = acct[f] /\ (Live(f)' <=> Live(f))
    BY <1>1 DEF OnlyTouches
  <2>2. Working(a)' = Working(a) /\ UNCHANGED <<running>>
        /\ \A f \in Working(a) : phase'[f] = phase[f]
    BY <1>6, <1>2, <2>1 DEF Collect, Working
  <2>3. Power(a)' = Power(a)
    BY <2>2 DEF Power
  <2> QED
    BY <1>1, <1>3, <2>3, SwitchMoves
<1>7. CASE LoopExit(e) \/ EndCall(e)
  <2>1. Live(e) /\ acct'[e] = a /\ running'[e] = running[e] /\ phase'[e] = phase[e]
        /\ phase[e] \in Finishing \cup {"up"}
    BY <1>2, <1>7 DEF LoopExit, EndCall, Live
  <2>2. running[e] => Live(e)'
    BY <2>1 DEF Live
  <2>3. Shown(e)' = Shown(e) /\ Shown(e) \in {"on", "ending"} /\ (~running[e] => Shown(e) = "ending")
    BY <2>1 DEF Shown, Starting, Failing
  <2>4. Power(a)' = Power(a) \/ (Power(a) = "ending" /\ Power(a)' = "off")
    BY <1>4, <1>5, <2>1, <2>2, <2>3
  <2> QED
    BY <1>1, <1>3, <2>4, SwitchMoves
<1>8. CASE BeginCall(e) \/ LimitedOnce(e) \/ LimitedAgain(e) \/ Poll(e)
  <2>1. Live(e)
    BY <1>2, <1>8 DEF BeginCall, LimitedOnce, LimitedAgain, Poll, CanCall, Live,
                      RegisteredIsRunning
  <2>2. UNCHANGED <<acct, phase, running, loops>> /\ (calls[e] => calls'[e])
    BY <1>8 DEF BeginCall, LimitedOnce, LimitedAgain, Poll
  <2>3. StopPending(e) => StopPending(e)'
    BY <1>8 DEF BeginCall, LimitedOnce, LimitedAgain, Poll, StopPending
  <2> HIDE DEF IInv, TypeOK
  <2>4. Live(e)'
    BY <2>1, <2>2, <2>3 DEF Live
  <2>5. acct'[e] = a /\ Shown(e)' = Shown(e)
    BY <1>2, <2>2 DEF Shown
  <2> QED
    BY <1>1, <1>3, <1>4, <2>1, <2>4, <2>5, SwitchMoves
<1> QED
  BY <1>6, <1>7, <1>8, EngineStep(e) DEF EngineStep

LEMMA StopSwitches ==
    ASSUME IInv, Serial, Serial', Tidy, NEW s \in Stopper, StopStep(s),
           NEW e \in Engine, e = seng[s]
    PROVE  SwitchStep
<1> USE NoneAssumption
<1> USE DEF IInv, TypeOK, UsedHasAccount, StopHasEngine, Finishing, Settled, stops, tables,
        restore, memory
<1>1. PICK a \in Account : a = acct[e]
  BY StopStep(s) DEF StopStep, StopTask, StopRead, StopWrite
<1>2. /\ UNCHANGED <<acct, phase>> /\ Live(e)
      /\ phase[e] \in Finishing \cup {"up"}
  BY StopStep(s) DEF StopStep, StopTask, StopRead, StopWrite, BeginStop, Live, StopPending
<1>3. OnlyTouches(e) /\ (StopWrite(s) \/ Live(e)')
  <2>1. CASE StopTask(s)
    BY <2>1, <1>2 DEF StopTask, BeginStop, OnlyTouches, Live, StopPending
  <2>2. CASE StopRead(s)
    BY <2>2, <1>2 DEF StopRead, OnlyTouches, Live, StopPending
  <2>3. CASE StopWrite(s)
    <3>1. UNCHANGED <<running, loops, calls>>
      BY <2>3 DEF StopWrite
    <3>2. \A f \in Engine \ {e} : StopPending(f)' <=> StopPending(f)
      BY <2>3 DEF StopWrite, StopPending
    <3> QED
      BY <2>3, <1>2, <3>1, <3>2 DEF OnlyTouches, Live
  <2> QED
    BY <2>1, <2>2, <2>3, StopStep(s) DEF StopStep
<1>4. /\ Powers' = [Powers EXCEPT ![a] = Power(a)']
      /\ Power(a)' = Power(a) => Powers' = Powers
  BY <1>1, <1>2, <1>3, TouchMoves
<1>5. Power(a) = Shown(e) /\ (Live(e)' => Power(a)' = Shown(e)')
  BY <1>1, <1>2, PowerNow, PowerThen DEF Serial
<1>6. ~Live(e)' => Power(a)' = "off"
  <2> SUFFICES ASSUME ~Live(e)' PROVE Power(a)' = "off"
    OBVIOUS
  <2>1. \A f \in Engine : acct'[f] = a => ~Live(f)'
    BY <1>1, <1>2, <1>3 DEF OnlyTouches, Serial, SingleEngine
  <2> QED
    BY <2>1, IdleThen
<1>7. CASE StopTask(s)
  <2>1. Shown(e)' = "ending" /\ Shown(e) \in {"on", "ending"}
    BY <1>2, <1>7 DEF StopTask, BeginStop, Shown, Starting, Failing
  <2>2. UNCHANGED flag /\ Live(e)'
    BY <1>3, <1>7 DEF StopTask, StopWrite
  <2> QED
    BY <1>4, <1>5, <2>1, <2>2, SwitchMoves
<1>8. CASE StopRead(s)
  <2> HIDE DEF IInv, TypeOK
  <2>1. UNCHANGED <<phase, running, flag>>
    BY <1>8 DEF StopRead
  <2>2. Shown(e)' = Shown(e)
    BY <2>1 DEF Shown
  <2>3. spc[s] = "read"
    BY <1>8 DEF StopRead
  <2>4. Live(e)'
    BY <1>3, <2>3 DEF StopWrite
  <2> QED
    BY <1>4, <1>5, <2>1, <2>2, <2>4, SwitchMoves
<1>9. CASE StopWrite(s)
  <2>1. Shown(e) = "ending" /\ Shown(e)' = "ending"
    BY <1>2, <1>9 DEF StopWrite, Shown, Starting, Failing, Tidy, StoppingStopped
  <2>2. UNCHANGED flag \/ flag' = [flag EXCEPT ![a] = FALSE]
    BY <1>1, <1>9 DEF StopWrite, CommitFlag
  <2>3. Power(a) = "ending" /\ Power(a)' \in {"ending", "off"}
    BY <1>5, <1>6, <2>1
  <2> QED
    BY <1>4, <2>2, <2>3, SwitchMoves
<1> QED
  BY <1>7, <1>8, <1>9, StopStep(s) DEF StopStep

\* A launch in an idle account turns its switch on.
LEMMA LaunchSwitches ==
    ASSUME IInv, Serial, Serial', NEW a \in Account, NEW e \in Engine, Launch(a, e),
           \A f \in Engine : acct[f] = a => ~Live(f), UNCHANGED <<stops, flag>>
    PROVE  SwitchStep
<1> USE NoneAssumption
<1> USE DEF IInv, TypeOK, Settled
<1>1. phase[e] = "unborn" /\ acct[e] = None
  BY DEF Launch, RegisteredIsRunning, UsedHasAccount, Live
<1>2. /\ acct'[e] = a /\ phase'[e] = "connect" /\ ~running'[e]
      /\ \A f \in Engine \ {e} : acct'[f] = acct[f] /\ phase'[f] = phase[f]
      /\ UNCHANGED <<running, loops, calls>>
  BY <1>1 DEF Launch, ActiveIsServiced, Finishing
<1>3. OnlyTouches(e) /\ Live(e)' /\ Shown(e)' = "starting"
  BY <1>2 DEF OnlyTouches, Live, StopPending, stops, Shown, Starting
<1>4. /\ Powers' = [Powers EXCEPT ![a] = Power(a)']
      /\ Power(a)' = Power(a) => Powers' = Powers
  BY <1>1, <1>2, <1>3, TouchMoves
<1>5. Power(a) = "off" /\ Power(a)' = "starting"
  BY <1>2, <1>3, IdleNow, PowerThen DEF Serial
<1> QED
  BY <1>4, <1>5, SwitchMoves

LEMMA RequestSwitches ==
    ASSUME Tame, IInv, Serial, Serial', Tidy, NEW a \in Account, UserStep(a) \/ AccountStep(a)
    PROVE  SwitchStep
<1> USE NoneAssumption
<1>1. CASE UserStart(a)
  <2>1. PICK e \in Engine : Launch(a, e)
    BY <1>1 DEF UserStart
  <2>2. Quiet(a) /\ ~Operating(a)
    BY <1>1, <2>1 DEF UserStart, Allowed, Tame, Launch, Operating
  <2>3. \A f \in Engine : acct[f] = a => ~Live(f)
    BY <2>2, QuietIsIdle DEF Serial
  <2> QED
    BY <1>1, <2>1, <2>3, LaunchSwitches DEF UserStart
<1>2. CASE UserStop(a)
  <2>1. PICK e \in Engine : e = registry[a] /\ acct[e] = a /\ running[e]
    BY <1>2 DEF UserStop, Operating, IInv, TypeOK, RegisteredIsRunning
  <2>2. /\ UNCHANGED <<acct, phase, calls, flag>> /\ StopPending(e)' /\ ~running'[e]
        /\ \A f \in Engine \ {e} : running'[f] = running[f] /\ loops'[f] = loops[f]
        /\ \A f \in Engine \ {e} : StopPending(f)' <=> StopPending(f)
    BY <1>2, <2>1 DEF UserStop, BeginStop, StopPending, IInv, TypeOK, StopHasEngine
  <2>3. OnlyTouches(e) /\ Live(e) /\ Live(e)'
    BY <2>1, <2>2 DEF OnlyTouches, Live
  <2>4. phase[e] \in Finishing \cup {"up"}
    BY <2>1 DEF IInv, ActiveIsServiced
  <2>5. Shown(e) = "on" /\ Shown(e)' = "ending"
    BY <2>1, <2>2, <2>4 DEF Shown, Starting, Failing, Finishing
  <2>6. /\ Powers' = [Powers EXCEPT ![a] = Power(a)']
        /\ Power(a)' = Power(a) => Powers' = Powers
    BY <2>1, <2>2, <2>3, TouchMoves
  <2>7. Power(a) = "on" /\ Power(a)' = "ending"
    BY <2>1, <2>2, <2>3, <2>5, PowerNow, PowerThen DEF Serial
  <2> QED
    BY <2>2, <2>6, <2>7, SwitchMoves
<1>3. CASE UserReset(a)
  <2>1. UNCHANGED <<memory, stops, flag>>
    BY <1>3 DEF UserReset
  <2> QED
    BY <2>1 DEF SwitchStep, Powers, Power, Working, Live, StopPending, memory, stops
<1>4. CASE RestoreAttempt(a)
  <2>1. CASE UNCHANGED memory
    <3>1. UNCHANGED <<memory, stops, flag>>
      BY <1>4, <2>1 DEF RestoreAttempt
    <3> QED
      BY <3>1 DEF SwitchStep, Powers, Power, Working, Live, StopPending, memory, stops
  <2>2. ASSUME NEW e \in Engine, Launch(a, e), waiting[a] = None, boot[a] > 0 PROVE SwitchStep
    <3>1. \A f \in Engine : acct[f] = a => ~Live(f)
      BY <2>2 DEF Serial, BootOwns
    <3>2. UNCHANGED <<stops, flag>>
      BY <1>4 DEF RestoreAttempt
    <3> QED
      BY <2>2, <3>1, <3>2, LaunchSwitches
  <2> QED
    BY <1>4, <2>1, <2>2 DEF RestoreAttempt
<1>5. CASE ResetWrite(a)
  <2>1. UNCHANGED <<memory, stops>> /\ reset[a]
    BY <1>5 DEF ResetWrite
  <2>2. UNCHANGED Powers /\ \A b \in Account : Power(b)' = Power(b)
    BY <2>1 DEF Powers, Power, Working, Live, StopPending, memory, stops
  <2>3. Power(a) = "off"
    BY <2>1, IdleNow DEF Tidy, ResetIsIdle
  <2>4. UNCHANGED flag \/ flag' = [flag EXCEPT ![a] = FALSE]
    BY <1>5 DEF ResetWrite, CommitFlag
  <2> QED
    BY <2>2, <2>3, <2>4, PowersMove, SwitchMoves
<1> QED
  BY <1>1, <1>2, <1>3, <1>4, <1>5 DEF UserStep, AccountStep

LEMMA CrashSwitches ==
    ASSUME IInv, Crash
    PROVE  SwitchStep
<1>1. \A e \in Engine : acct'[e] = None
  BY DEF Crash, EmptyMemory
<1>2. \A a \in Account : Power(a)' = "off"
  BY <1>1, NoneAssumption, IdleThen
<1>3. Powers' = [a \in Account |-> "off"] /\ UNCHANGED flag
  BY <1>2 DEF Powers, Crash
<1>4. Switch!Blackout
  BY <1>3 DEF Switch!Blackout, Powers
<1> QED
  BY <1>4 DEF SwitchStep, Switch!SwitchNext

LEMMA SwitchSimulates ==
    ASSUME Tame
    PROVE  IInv /\ Serial /\ Serial' /\ Tidy /\ [Next]_vars => SwitchStep
<1> SUFFICES ASSUME IInv, Serial, Serial', Tidy, [Next]_vars PROVE SwitchStep
  OBVIOUS
<1>1. ASSUME NEW s \in Stopper, StopStep(s) PROVE SwitchStep
  <2>1. spc[s] # "idle"
    BY <1>1 DEF StopStep, StopTask, StopRead, StopWrite
  <2>2. seng[s] \in Engine
    BY <2>1, NoneAssumption DEF IInv, TypeOK, StopHasEngine
  <2> QED
    BY <1>1, <2>2, StopSwitches
<1>2. CASE UNCHANGED vars
  BY <1>2 DEF vars, SwitchStep, Powers, Power, Working, Live, StopPending, memory, stops
<1> QED
  BY <1>1, <1>2, StartSwitches, EngineSwitches, RequestSwitches, CrashSwitches DEF Next

LEMMA SwitchStarts == Init => Switch!SwitchInit
<1> SUFFICES ASSUME Init PROVE Switch!SwitchInit
  OBVIOUS
<1>1. \A a \in Account : Power(a) = "off"
  BY IdleNow, NoneAssumption DEF Init
<1> QED
  BY <1>1 DEF Init, Switch!SwitchInit

\* Instances, registry and transactions implement one switch per account.
THEOREM SwitchImplemented ==
    ASSUME Tame
    PROVE  Spec => ImplementsSwitch
<1>1. IInv /\ Serial /\ Tidy /\ [Next]_vars => Tidy'
  BY TidyStep
<1>2. IInv /\ Serial /\ Serial' /\ Tidy /\ [Next]_vars
        => [Switch!SwitchNext]_<<[a \in Account |-> Power(a)], flag>>
  BY SwitchSimulates DEF SwitchStep, Powers
<1>3. "overlap" \notin Faults
  BY DEF Tame
<1>4. Spec => []Serial
  BY <1>3, SerialHolds
<1> QED
  BY InitTidy, SwitchStarts, IInvHolds, <1>1, <1>2, <1>4, PTL
     DEF Spec, ImplementsSwitch, Switch!SwitchSpec

-----------------------------------------------------------------------------
(* The flag of a running engine. *)

\* Once start() has saved the flag it is set as long as the engine runs; what
\* start() has read of it before stays true until it writes.
FlaggedOn ==
    \A e \in Engine : running[e] =>
        /\ phase[e] \in {"init", "up"} => flag[acct[e]]
        /\ phase[e] = "onWrite" /\ seen[e] => flag[acct[e]]

LEMMA FlaggedStep ==
    ASSUME Tame, IInv, Serial, Tidy, FlaggedOn, [Next]_vars
    PROVE  FlaggedOn'
<1> USE NoneAssumption
<1> USE DEF IInv, TypeOK, FlaggedOn, UsedHasAccount, Starting, Finishing, Failing, Settled,
        memory, tables, restore, stops
<1>1. ASSUME NEW e \in Engine, StartStep(e) PROVE FlaggedOn'
  <2>1. acct[e] \in Account /\ UNCHANGED acct
    BY <1>1, StartFrame DEF memory
  <2>2. CASE ConnectOk(e) \/ ConnectFalse(e) \/ StartRaises(e) \/ InitDone(e)
    BY <2>2 DEF ConnectOk, ConnectFalse, StartRaises, InitDone
  <2>3. CASE Register(e) \/ OnRead(e) \/ OffRead(e)
    BY <2>3 DEF Register, OnRead, OffRead
  <2>4. CASE OnWrite(e)
    BY <2>1, <2>4 DEF OnWrite, CommitFlag, Tame
  <2>5. CASE OffWrite(e)
    <3>1. phase[e] = "offWrite" /\ phase' = [phase EXCEPT ![e] = "gone"]
          /\ UNCHANGED running /\ seen' = [seen EXCEPT ![e] = FALSE]
      BY <2>5 DEF OffWrite
    <3>2. \A f \in Engine \ {e} : running[f] => acct[f] # acct[e]
      BY <3>1 DEF Serial, SingleEngine, Live
    <3>3. \A a \in Account \ {acct[e]} : flag'[a] = flag[a]
      BY <2>5 DEF OffWrite, CommitFlag
    <3> QED
      BY <2>1, <3>1, <3>2, <3>3
  <2> QED
    BY <1>1, <2>2, <2>3, <2>4, <2>5 DEF StartStep
<1>2. ASSUME NEW e \in Engine, EngineStep(e) PROVE FlaggedOn'
  BY <1>2 DEF EngineStep, LoopExit, BeginCall, EndCall, LimitedOnce, LimitedAgain, Poll, Collect
<1>3. ASSUME NEW s \in Stopper, StopStep(s) PROVE FlaggedOn'
  <2>1. CASE StopTask(s) \/ StopRead(s)
    BY <2>1 DEF StopTask, BeginStop, StopRead
  <2>2. CASE StopWrite(s)
    <3>1. seng[s] \in Engine /\ Live(seng[s]) /\ ~running[seng[s]]
      BY <2>2 DEF StopWrite, StopHasEngine, Live, StopPending, Tidy, StoppingStopped
    <3>2. \A f \in Engine : running[f] => acct[f] # acct[seng[s]]
      BY <3>1 DEF Serial, SingleEngine, Live
    <3>3. UNCHANGED memory /\ \A a \in Account \ {acct[seng[s]]} : flag'[a] = flag[a]
      BY <2>2 DEF StopWrite, CommitFlag
    <3> QED
      BY <3>2, <3>3
  <2> QED
    BY <1>3, <2>1, <2>2 DEF StopStep
<1>4. ASSUME NEW a \in Account, UserStep(a) PROVE FlaggedOn'
  BY <1>4 DEF UserStep, UserStart, UserStop, UserReset, Launch, BeginStop, Operating
<1>5. ASSUME NEW a \in Account, RestoreAttempt(a) PROVE FlaggedOn'
  BY <1>5 DEF RestoreAttempt, Launch
<1>6. ASSUME NEW a \in Account, ResetWrite(a) PROVE FlaggedOn'
  <2>1. \A f \in Engine : running[f] => acct[f] # a
    BY <1>6 DEF ResetWrite, Tidy, ResetIsIdle, Live
  <2>2. UNCHANGED memory /\ \A b \in Account \ {a} : flag'[b] = flag[b]
    BY <1>6 DEF ResetWrite, CommitFlag
  <2> QED
    BY <2>1, <2>2
<1>7. CASE Crash
  BY <1>7 DEF Crash, EmptyMemory
<1>8. CASE UNCHANGED vars
  BY <1>8 DEF vars
<1> QED
  BY <1>1, <1>2, <1>3, <1>4, <1>5, <1>6, <1>7, <1>8 DEF Next, AccountStep

\* A restart finds every engine that ran undisturbed.
THEOREM FlagCorrect ==
    ASSUME Tame
    PROVE  Spec => []RunningIsFlagged
<1>1. Init => FlaggedOn
  BY DEF Init, FlaggedOn
<1>2. IInv /\ Serial /\ Tidy /\ FlaggedOn /\ [Next]_vars => FlaggedOn'
  BY FlaggedStep
<1>3. IInv /\ Serial /\ Tidy /\ [Next]_vars => Tidy'
  BY TidyStep
<1>4. IInv /\ FlaggedOn => RunningIsFlagged
  <2> SUFFICES ASSUME IInv, FlaggedOn, NEW a \in Account, Quiet(a), registry[a] # None
               PROVE  flag[a]
    BY DEF RunningIsFlagged
  <2>1. registry[a] \in Engine /\ running[registry[a]] /\ acct[registry[a]] = a
    BY DEF IInv, TypeOK, RegisteredIsRunning
  <2>2. phase[registry[a]] = "up"
    BY <2>1 DEF IInv, RegisteredIsRunning, Quiet, Finishing, Settled
  <2> QED
    BY <2>1, <2>2 DEF FlaggedOn
<1>5. "overlap" \notin Faults
  BY DEF Tame
<1>6. Spec => []Serial
  BY <1>5, SerialHolds
<1> QED
  BY InitTidy, IInvHolds, <1>1, <1>2, <1>3, <1>4, <1>6, PTL DEF Spec
=============================================================================
