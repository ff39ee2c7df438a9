----------------------------- MODULE TwoLevelCache -----------------------------
(***************************************************************************)
(* Two caches that are two levels deep, one in the process and one in      *)
(* Redis, for one key of each:                                             *)
(*   "view"    what the routes of an account show: Redis in front          *)
(*             (_redis_or_fetch()), GameEngine.cached_get() behind; the    *)
(*             engine's cycle writes Redis, too (_warm_api_caches());      *)
(*   "answer"  the assistant's answers (AIService): memory in front, Redis *)
(*             behind.                                                     *)
(* What is found behind is put in front as if it were new, so the ages add *)
(* up.  Ages are counted in ticks no shorter than the slowest request.     *)
(***************************************************************************)
EXTENDS Naturals

CONSTANTS
    Visitor,    \* requests under way: a bound
    RouteTTL,   \* a view in Redis: 5 minutes
    WarmTTL,    \* a view in Redis, put there by the engine: 10 minutes
    EngineTTL,  \* a view in the engine: 30 seconds
    AnswerTTL   \* an answer, in either place: 30 minutes

ASSUME CacheAssumption ==
    /\ {RouteTTL, WarmTTL, EngineTTL, AnswerTTL} \subseteq Nat \ {0}
    /\ RouteTTL <= WarmTTL

VARIABLES
    kind,     \* which of the two
    redis,    \* Redis was there when the process started
    front,    \* the entry asked first: the age of what it holds, the ticks it
              \* has left, whether the game said success
    back,     \* the other one
    visit,    \* visit[v]: what a request is doing, and the age of what it has
    shown,    \* what was returned last, if not straight from the game
    level     \* from where

cacheVars == <<kind, redis, front, back, visit, shown, level>>

NoEntry == [age |-> 0, left |-> 0, ok |-> FALSE]
Away    == [stage |-> "away", age |-> 0, ok |-> FALSE]

Age == 0..(2 * AnswerTTL + WarmTTL + EngineTTL + 3)

CacheTypeOK ==
    /\ kind \in {"view", "answer"} /\ redis \in BOOLEAN
    /\ {front, back, shown} \subseteq [age: Age, left: Age, ok: BOOLEAN]
    /\ front.left = 0 => front = NoEntry
    /\ back.left = 0 => back = NoEntry
    /\ visit \in [Visitor -> [stage: {"away", "behind", "fetch", "store"}, age: Age, ok: BOOLEAN]]
    /\ level \in {"none", "front", "back"}

CacheInit ==
    /\ kind \in {"view", "answer"} /\ redis \in BOOLEAN
    /\ front = NoEntry /\ back = NoEntry /\ shown = NoEntry /\ level = "none"
    /\ visit = [v \in Visitor |-> Away]

Leaves(v) == visit' = [visit EXCEPT ![v] = Away]
Turns(v, to) == visit' = [visit EXCEPT ![v] = [Away EXCEPT !.stage = to]]
Showing(entry, from) == shown' = entry /\ level' = from
SameShown == UNCHANGED <<shown, level>>
Setting == UNCHANGED <<kind, redis>>

FrontTTL == IF kind = "view" THEN RouteTTL ELSE AnswerTTL

\* setex() does nothing without Redis, and may fail; a dictionary does not.
Entry(age, left, ok) == [age |-> age, left |-> left, ok |-> ok]
StoredIn(place, new, inRedis) ==
    IF inRedis /\ ~redis THEN {place} ELSE IF inRedis THEN {place, new} ELSE {new}

-----------------------------------------------------------------------------
(* _cache_get(), and cache_get() with cached_get() *)

LookInFront(v) ==
    /\ visit[v].stage = "away"
    /\ IF front.left > 0 /\ (kind = "view" => redis) THEN Leaves(v) /\ Showing(front, "front")
       ELSE Turns(v, "behind") /\ SameShown
    /\ Setting /\ UNCHANGED <<front, back>>

\* Mutant of Restamped: what was left of its life is added.
Prolonged(entry) == Entry(entry.age, FrontTTL + entry.left, TRUE)

\* Put in front with a whole life before it, whatever its age.
Restamped(entry) == Entry(entry.age, FrontTTL, TRUE)

\* The engine keeps failures, too; they are not put in front.  A failure of
\* Redis is a miss.
LookBehind(v) ==
    /\ visit[v].stage = "behind"
    /\ \/ /\ back.left > 0 /\ (kind = "answer" => redis)
          /\ Leaves(v) /\ Showing(back, "back")
          /\ front' \in IF back.ok THEN StoredIn(front, Restamped(back), kind = "view")
                        ELSE {front}
       \/ /\ back.left = 0 \/ kind = "answer"
          /\ Turns(v, "fetch") /\ SameShown /\ UNCHANGED front
    /\ Setting /\ UNCHANGED back

-----------------------------------------------------------------------------
(* A miss: the game or the model is asked. *)

\* The engine's entry is as old as the request, and kept if it failed, as well.
\* A broken or empty stream of the model is not kept at all.
Fetched(v) ==
    /\ visit[v].stage = "fetch"
    /\ \E ok \in BOOLEAN :
         IF kind = "view"
         THEN LET left == IF visit[v].age < EngineTTL THEN EngineTTL - visit[v].age ELSE 0
              IN  /\ back' = IF left = 0 THEN NoEntry ELSE Entry(visit[v].age, left, ok)
                  /\ visit' = [visit EXCEPT ![v].stage = IF ok THEN "store" ELSE "away",
                                            ![v].age = IF ok THEN @ ELSE 0, ![v].ok = ok]
                  /\ UNCHANGED front
         ELSE /\ front' = IF ok THEN Entry(visit[v].age, FrontTTL, TRUE) ELSE front
              /\ visit' = [visit EXCEPT ![v] = IF ok THEN [@ EXCEPT !.stage = "store", !.ok = TRUE]
                                               ELSE Away]
              /\ UNCHANGED back
    /\ Setting /\ SameShown

\* The second level, in the same request.
Stored(v) ==
    /\ visit[v].stage = "store" /\ Leaves(v)
    /\ IF kind = "view"
       THEN /\ front' \in StoredIn(front, Entry(visit[v].age, RouteTTL, TRUE), TRUE)
            /\ UNCHANGED back
       ELSE /\ back' \in StoredIn(back, Entry(visit[v].age, AnswerTTL, TRUE), TRUE)
            /\ UNCHANGED front
    /\ Setting /\ SameShown

\* A cycle of the engine puts in front what it has just been told.
Warm ==
    /\ kind = "view" /\ redis
    /\ \E age \in 0..1 : front' = Entry(age, WarmTTL, TRUE)
    /\ Setting /\ SameShown /\ UNCHANGED <<back, visit>>

-----------------------------------------------------------------------------
(* Time, and the end of the process, after which Redis may be there again. *)

\* Mutant of Older: what has expired is not removed.
Stale(entry) ==
    [entry EXCEPT !.age = @ + 1, !.left = IF @ = 0 THEN 0 ELSE @ - 1]

Older(entry) ==
    IF entry.left <= 1 THEN NoEntry
    ELSE [entry EXCEPT !.age = @ + 1, !.left = @ - 1]

\* No request takes longer than a tick.
Tick ==
    /\ \A v \in Visitor : visit[v].stage \in {"fetch", "store"} => visit[v].age = 0
    /\ front' = Older(front) /\ back' = Older(back)
    /\ visit' = [v \in Visitor |-> IF visit[v].stage \in {"fetch", "store"}
                                   THEN [visit[v] EXCEPT !.age = 1] ELSE visit[v]]
    /\ Setting /\ SameShown

ProcessRestarts ==
    /\ IF kind = "view" THEN back' = NoEntry /\ UNCHANGED front
       ELSE front' = NoEntry /\ UNCHANGED back
    /\ redis' \in BOOLEAN
    /\ visit' = [v \in Visitor |-> Away]
    /\ SameShown /\ UNCHANGED kind

\* The 201st answer in memory pushes out the oldest.
Evict ==
    /\ kind = "answer" /\ front # NoEntry /\ front' = NoEntry
    /\ Setting /\ SameShown /\ UNCHANGED <<back, visit>>

CacheNext ==
    \/ \E v \in Visitor : LookInFront(v) \/ LookBehind(v) \/ Fetched(v) \/ Stored(v)
    \/ Warm \/ Tick \/ ProcessRestarts \/ Evict

CacheSpec == CacheInit /\ [][CacheNext]_cacheVars

-----------------------------------------------------------------------------
(* Properties *)

\* What is shown is no older than both lives together, with any interleaving of
\* requests, restarts, evictions and cycles: a view five and a half minutes, or
\* ten if the engine put it there; an answer an hour, where its constant says
\* "30 min".  A failure of the game is never shown for longer than the engine
\* keeps it.
ShownIsRecent ==
    /\ kind = "answer" => shown.age < 2 * AnswerTTL
    /\ kind = "view" /\ shown.ok =>
          shown.age < EngineTTL + RouteTTL \/ shown.age <= WarmTTL
    /\ level # "none" /\ ~shown.ok => level = "back" /\ shown.age < EngineTTL
=============================================================================
