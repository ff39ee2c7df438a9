-------------------------------- MODULE MCRecords --------------------------------
(***************************************************************************)
(* Small instances of the four modules about what is kept outside the      *)
(* game: DailyRecord, OperationLog, Snapshots and TwoLevelCache.  They     *)
(* share no variable, so a behaviour follows one of them while the others  *)
(* rest in a fixed state.                                                  *)
(***************************************************************************)
EXTENDS DailyRecord, OperationLog, Snapshots, TwoLevelCache, TLC

VARIABLE part  \* the module a behaviour follows

DayRests == column = "memory" /\ DayInit
CacheRests == kind = "view" /\ redis = FALSE /\ CacheInit

MCInit ==
    \/ part = "day" /\ DayInit /\ LogInit /\ SnapshotInit /\ CacheRests
    \/ part = "log" /\ DayRests /\ LogInit /\ SnapshotInit /\ CacheRests
    \/ part = "snapshots" /\ DayRests /\ LogInit /\ SnapshotInit /\ CacheRests
    \/ part = "cache" /\ DayRests /\ LogInit /\ SnapshotInit /\ CacheInit

MCNext ==
    \/ part = "day" /\ DayNext /\ UNCHANGED <<part, logVars, snapshotVars, cacheVars>>
    \/ part = "log" /\ LogNext /\ UNCHANGED <<part, dayVars, snapshotVars, cacheVars>>
    \/ part = "snapshots" /\ SnapshotNext /\ UNCHANGED <<part, dayVars, logVars, cacheVars>>
    \/ part = "cache" /\ CacheNext /\ UNCHANGED <<part, dayVars, logVars, snapshotVars>>

MCSpec == MCInit /\ [][MCNext]_<<part, dayVars, logVars, snapshotVars, cacheVars>>

Identical == Permutations(Writer) \cup Permutations(Engine)

\* The types of the four modules: the values of variables, and that what has
\* expired or ended is gone.
RecordsTypeOK ==
    /\ part = "day" => DayTypeOK
    /\ part = "log" => LogTypeOK
    /\ part = "snapshots" => SnapshotTypeOK
    /\ part = "cache" => CacheTypeOK
=============================================================================
