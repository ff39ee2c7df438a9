------------------------------ MODULE FarmSocial ------------------------------
(***************************************************************************)
(* One coroutine's rounds through the friends' farms,                      *)
(* GameEngine._run_farm_social(): at each friend it steals ripe crops and  *)
(* waters dry ones until the quotas of the round are met.                  *)
(***************************************************************************)
EXTENDS Naturals

CONSTANTS
    Friends,     \* length of the list of friends: a bound
    StealQuota,  \* 2, the limit of a round and of a single friend
    WaterQuota,  \* 3, likewise
    Rounds       \* rounds of a behaviour: a bound

ASSUME SocialAssumption ==
    Friends \in Nat /\ StealQuota \in Nat \ {0} /\ WaterQuota \in Nat \ {0} /\ Rounds \in Nat

VARIABLES
    round,    \* rounds begun
    friend,   \* the friend it is at, 0 between rounds
    task,     \* "look" (before), "steal", "water"
    offers,   \* plots of the friend left for the task
    stolen,   \* stolen_total of the round
    here,     \* the count of FarmSteal.run() or water_friend() at this friend
    watered,  \* watered_count of the round
    helped,   \* FarmCare.helped, which goes into the daily record
    given     \* waterings the game performed

socialVars == <<round, friend, task, offers, stolen, here, watered, helped, given>>

SocialTypeOK ==
    /\ round \in 0..Rounds /\ friend \in 0..Friends
    /\ task \in {"look", "steal", "water"}
    /\ offers \in 0..(StealQuota + WaterQuota)
    /\ {stolen, here, watered, helped, given} \subseteq Nat
    /\ friend = 0 => task = "look" /\ offers = 0 /\ here = 0

SocialInit ==
    /\ round = 0 /\ friend = 0 /\ task = "look" /\ offers = 0
    /\ stolen = 0 /\ here = 0 /\ watered = 0 /\ helped = 0 /\ given = 0

BeginRound ==
    /\ friend = 0 /\ round < Rounds /\ Friends > 0
    /\ round' = round + 1 /\ friend' = 1 /\ stolen' = 0 /\ watered' = 0
    /\ UNCHANGED <<task, offers, here, helped, given>>

OnlyRound == UNCHANGED <<round, helped, given>>

\* Mutant of Tried: the quota of the round is not looked at.
Offered(total, quota) == 0..quota

\* farm_get_friend(): the plots that can be had, as many as are tried; none
\* without an answer, or once the quota of the round is met.
Tried(total, quota) == IF total < quota THEN 0..quota ELSE {0}

LookToSteal ==
    /\ friend # 0 /\ task = "look"
    /\ task' = "steal" /\ here' = 0
    /\ offers' \in Tried(stolen, StealQuota)
    /\ OnlyRound /\ UNCHANGED <<friend, stolen, watered>>

Steal ==
    /\ task = "steal" /\ offers > 0
    /\ offers' = offers - 1 /\ here' \in {here, here + 1}
    /\ OnlyRound /\ UNCHANGED <<friend, task, stolen, watered>>

LookToWater ==
    /\ task = "steal" /\ offers = 0
    /\ task' = "water" /\ here' = 0 /\ stolen' = stolen + here
    /\ offers' \in Tried(watered, WaterQuota)
    /\ OnlyRound /\ UNCHANGED <<friend, watered>>

WaterFriend ==
    /\ task = "water" /\ offers > 0 /\ offers' = offers - 1
    /\ \/ given' = given + 1 /\ here' = here + 1 /\ helped' = helped + 1
       \/ given' \in {given, given + 1} /\ UNCHANGED <<here, helped>>
    /\ UNCHANGED <<round, friend, task, stolen, watered>>

\* The round ends with the list, or when both quotas are met.
NextFriend ==
    /\ task = "water" /\ offers = 0
    /\ task' = "look" /\ here' = 0 /\ watered' = watered + here
    /\ LET met == stolen >= StealQuota /\ watered' >= WaterQuota
       IN  friend' = IF met \/ friend = Friends THEN 0 ELSE friend + 1
    /\ OnlyRound /\ UNCHANGED <<offers, stolen>>

SocialNext ==
    BeginRound \/ LookToSteal \/ Steal \/ LookToWater \/ WaterFriend \/ NextFriend

SocialSpec == SocialInit /\ [][SocialNext]_socialVars

-----------------------------------------------------------------------------
(* Properties *)

\* "At most two plots" a round is what the comment promises; but the limit of a
\* friend is not lowered by what was taken before.  What the code does keep: a
\* quota is exceeded by less than a friend's limit, and what goes into the daily
\* record as help was performed by the game.
QuotasNearlyKept ==
    /\ stolen + (IF task = "steal" THEN here ELSE 0) <= 2 * StealQuota - 1
    /\ watered + (IF task = "water" THEN here ELSE 0) <= 2 * WaterQuota - 1
    /\ helped <= given
==============================================================================
