------------------------------ MODULE MCEngineWork ------------------------------
(***************************************************************************)
(* Small instances of the four modules about what an engine does in the    *)
(* game: Activities, Farm, FarmSocial and FarmTables.  They share no       *)
(* variable and nothing that one of them promises depends on another, so a *)
(* behaviour follows one of them while the others rest in a fixed state.   *)
(***************************************************************************)
EXTENDS Activities, Farm, FarmSocial, FarmTables, TLC

VARIABLE part  \* the module a behaviour follows

ActivityRests ==
    /\ errand = "flowers" /\ enabled = FALSE
    /\ game = [stock |-> 0, bag |-> 0, free |-> 0, used |-> 0, won |-> 0, warm |-> 0,
               due |-> FALSE]
    /\ ActivityInit
FarmRests == plot = [p \in Plot |-> "empty"] /\ premium = FALSE /\ FarmInit
TablesRest == table = "land" /\ have = 0 /\ row = Missing /\ TablesInit

MCInit ==
    \/ part = "activity" /\ ActivityInit /\ FarmRests /\ SocialInit /\ TablesRest
    \/ part = "farm" /\ ActivityRests /\ FarmInit /\ SocialInit /\ TablesRest
    \/ part = "social" /\ ActivityRests /\ FarmRests /\ SocialInit /\ TablesRest
    \/ part = "tables" /\ ActivityRests /\ FarmRests /\ SocialInit /\ TablesInit

MCNext ==
    \/ /\ part = "activity" /\ ActivityNext
       /\ UNCHANGED <<part, farmVars, socialVars, tableVars>>
    \/ part = "farm" /\ FarmNext /\ UNCHANGED <<part, activityVars, socialVars, tableVars>>
    \/ part = "social" /\ SocialNext /\ UNCHANGED <<part, activityVars, farmVars, tableVars>>
    \/ part = "tables" /\ TablesNext /\ UNCHANGED <<part, activityVars, farmVars, socialVars>>

MCSpec == MCInit /\ [][MCNext]_<<part, activityVars, farmVars, socialVars, tableVars>>

Identical == Permutations(Runner)

\* The types of the four modules: the values of variables, and that whatever
\* ends leaves nothing behind for the next (a cancelled run no locals, a farm
\* cycle no planting that is not reported, a writer no old reading).
WorkTypeOK ==
    /\ part = "activity" => ActivityTypeOK
    /\ part = "farm" => FarmTypeOK
    /\ part = "social" => SocialTypeOK
    /\ part = "tables" => TablesTypeOK
=============================================================================
