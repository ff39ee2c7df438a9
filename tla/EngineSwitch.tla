------------------------------ MODULE EngineSwitch ------------------------------
(***************************************************************************)
(* What the users of an account may rely on: its engine is a switch.  It   *)
(* goes through its four positions in one order, and the position it had   *)
(* last is kept where a restart of the program finds it.  How instances,   *)
(* registry, coroutines and transactions bring this about is the subject   *)
(* of EngineLifecycle, which implements this module as long as the         *)
(* requests for an account do not overlap.                                 *)
(***************************************************************************)
CONSTANT Account

VARIABLES
    power,  \* power[a]: the position of a's switch
    saved   \* saved[a]: what a restart finds, accounts.running

Position == {"off", "starting", "on", "ending"}

SwitchInit ==
    /\ power = [a \in Account |-> "off"]
    /\ saved \in [Account -> BOOLEAN]

Moves(a, from, to) == power[a] = from /\ power' = [power EXCEPT ![a] = to]
Saves(a, v) == saved' = [saved EXCEPT ![a] = v]

\* A user, or the restore at boot, turns it on; never while it is still ending.
TurnOn(a) == Moves(a, "off", "starting") /\ UNCHANGED saved

ComesUp(a) == Moves(a, "starting", "on") /\ UNCHANGED saved

\* A start that fails does not leave the account to be restored for ever.
Fails(a) == Moves(a, "starting", "off") /\ Saves(a, FALSE)

\* That it is on is saved late: a stop may have come before.
Records(a) == power[a] \in {"on", "ending"} /\ Saves(a, TRUE) /\ UNCHANGED power

\* A user, or the second 429, turns it off.
TurnOff(a) == Moves(a, "on", "ending") /\ UNCHANGED saved

\* What is on is never saved as off, nor is it off before all its work ended.
Ends(a) ==
    /\ Moves(a, "ending", "off") \/ (power[a] = "ending" /\ UNCHANGED power)
    /\ Saves(a, FALSE) \/ UNCHANGED saved

\* A stop request for an account without an engine.
Reset(a) == power[a] = "off" /\ Saves(a, FALSE) /\ UNCHANGED power

\* The process dies.
Blackout == power' = [a \in Account |-> "off"] /\ UNCHANGED saved

SwitchNext ==
    \/ \E a \in Account :
          \/ TurnOn(a) \/ ComesUp(a) \/ Fails(a) \/ Records(a)
          \/ TurnOff(a) \/ Ends(a) \/ Reset(a)
    \/ Blackout

SwitchSpec == SwitchInit /\ [][SwitchNext]_<<power, saved>>
=============================================================================
