------------------------------ MODULE CacheProofs ------------------------------
(***************************************************************************)
(* Theorems about Snapshots and TwoLevelCache, the modules of what is      *)
(* kept to be read again: for any number of replacements, requests and     *)
(* batches, and for any times to live.                                     *)
(***************************************************************************)
EXTENDS Snapshots, TwoLevelCache, FiniteSetTheorems, TLAPS

(***************************************************************************)
(* The greatest element of a set of numbers below a bound belongs to it.   *)
(***************************************************************************)
LEMMA LeastIsThere ==
    ASSUME NEW S \in SUBSET Nat, S # {}
    PROVE  \E x \in S : \A y \in S : x <= y
<1>1. PICK x \in S : \A y \in S : <<y, x>> \notin OpToRel(<, Nat)
  BY NatLessThanWellFounded, WFMin
<1>2. \A y \in S : ~(y < x)
  BY <1>1 DEF OpToRel
<1> QED
  BY <1>2

LEMMA MaxBelongs ==
    ASSUME NEW S \in SUBSET Nat, S # {}, NEW n \in Nat, \A x \in S : x <= n
    PROVE  Max(S) \in S
<1> DEFINE T == {n - x : x \in S}
<1>1. \A x \in S : x \in Nat /\ x <= n /\ n - x \in Nat
  OBVIOUS
<1>2. T \in SUBSET Nat
  BY <1>1
<1>3. T # {}
  OBVIOUS
<1>4. PICK t \in T : \A u \in T : t <= u
  BY <1>2, <1>3, LeastIsThere
<1>5. PICK x \in S : t = n - x
  BY <1>4
<1>6. \A y \in S : n - x <= n - y
  BY <1>4, <1>5
<1>7. \A y \in S : x >= y
  BY <1>6
<1> QED
  BY <1>7 DEF Max

-----------------------------------------------------------------------------
(***************************************************************************)
(* Snapshots.  A batch comes into the table once and never again, so what  *)
(* a request has seen there can only disappear.                            *)
(***************************************************************************)

Task == [stage: {"idle", "fetch", "delete", "lock", "commit"}, batch: 0..Batches,
         doomed: SUBSET Batch]

\* A replacement has a batch of its own, which is not in the table yet.
Brings(w) == task[w].stage \in {"delete", "lock", "commit"}

BatchesAreNew ==
    /\ \A w \in Replacer : Brings(w) => task[w].batch \in 1..clock /\ task[w].batch \notin stored
    /\ \A v, w \in Replacer : v # w /\ Brings(v) /\ Brings(w) => task[v].batch # task[w].batch

StoredAreGiven == stored \subseteq 1..clock

\* Nobody is going to bring a batch that has been read before.
Past(b) == b \in 0..clock /\ \A w \in Replacer : Brings(w) => task[w].batch # b

ReadingsArePast == \A r \in Reader : Past(reading[r])

CachedIsPast ==
    /\ Past(cached.batch)
    /\ cached.batch # 0 /\ cached.batch \in stored => cached.filled

\* A replacement that has met no other is alone and deletes all there is.
AloneUnlessMet ==
    ~met =>
        /\ \A v, w \in Replacer :
              task[v].stage # "idle" /\ task[w].stage # "idle" => v = w
        /\ \A w \in Replacer : task[w].stage \in {"lock", "commit"} => task[w].doomed = stored

SnapshotInv ==
    /\ SnapshotTypeOK /\ BatchesAreNew /\ StoredAreGiven /\ ReadingsArePast /\ CachedIsPast
    /\ AloneUnlessMet

LEMMA SnapshotStarts == SnapshotInit => SnapshotInv
<1> SUFFICES ASSUME SnapshotInit PROVE SnapshotInv
  OBVIOUS
<1> USE SnapshotAssumption DEF SnapshotInit
<1>1. SnapshotTypeOK
  <2>1. NoTask \in Task /\ stored \subseteq Batch
    BY DEF NoTask, Task
  <2>2. task \in [Replacer -> Task]
    BY <2>1
  <2>3. reading \in [Reader -> 0..Batches] /\ cached \in [batch: 0..Batches, filled: BOOLEAN]
    OBVIOUS
  <2> QED
    BY <2>1, <2>2, <2>3 DEF SnapshotTypeOK, Task
<1>2. BatchesAreNew /\ StoredAreGiven /\ ReadingsArePast /\ CachedIsPast /\ AloneUnlessMet
  BY DEF BatchesAreNew, StoredAreGiven, ReadingsArePast, CachedIsPast, AloneUnlessMet, Past,
         Brings, NoTask
<1> QED
  BY <1>1, <1>2 DEF SnapshotInv

LEMMA LatestBelongs ==
    ASSUME SnapshotInv PROVE Latest \in stored \cup {0} /\ (stored = {} <=> Latest = 0)
<1>1. stored \in SUBSET Nat /\ clock \in Nat /\ \A x \in stored : x <= clock /\ x # 0
  BY SnapshotAssumption DEF SnapshotInv, SnapshotTypeOK, StoredAreGiven
<1>2. stored # {} => Max(stored) \in stored
  BY <1>1, MaxBelongs
<1> QED
  BY <1>1, <1>2 DEF Latest

LEMMA SnapshotSteps == SnapshotInv /\ [SnapshotNext]_snapshotVars => SnapshotInv'
<1> SUFFICES ASSUME SnapshotInv, [SnapshotNext]_snapshotVars PROVE SnapshotInv'
  OBVIOUS
<1> USE SnapshotAssumption
    DEF SnapshotInv, SnapshotTypeOK, BatchesAreNew, StoredAreGiven, ReadingsArePast,
        CachedIsPast, AloneUnlessMet, Past, Brings, NoTask, Batch
<1>1. ASSUME NEW w \in Replacer, BeginReplace(w) PROVE SnapshotInv'
  BY <1>1 DEF BeginReplace, Steps
<1>2. ASSUME NEW w \in Replacer, FindRecent(w) PROVE SnapshotInv'
  BY <1>2 DEF FindRecent, Quits, OnlyTask
<1>3. ASSUME NEW w \in Replacer, Fetch(w) PROVE SnapshotInv'
  <2>1. CASE /\ clock' = clock + 1
             /\ task' = [task EXCEPT ![w] =
                           [@ EXCEPT !.stage = "delete", !.batch = clock + 1]]
    <3>0. UNCHANGED <<stored, recent, reading, cached, met>> /\ clock < Batches
          /\ task[w].stage = "fetch"
      BY <1>3 DEF Fetch
    <3>1. task'[w] = [task[w] EXCEPT !.stage = "delete", !.batch = clock + 1]
          /\ \A v \in Replacer \ {w} : task'[v] = task[v]
      BY <2>1
    <3>2. clock \in Nat /\ clock' \in Nat /\ clock' = clock + 1 /\ clock' <= Batches
      BY <2>1, <3>0
    <3>3. task'[w].stage = "delete" /\ task'[w].batch = clock' /\ task'[w].doomed = task[w].doomed
      BY <3>1, <3>2
    <3>4. SnapshotTypeOK'
      <4>1. task[w] \in Task /\ clock + 1 \in 0..Batches
        BY <3>2, <2>1, <3>0 DEF Task
      <4>2. [task[w] EXCEPT !.stage = "delete", !.batch = clock + 1] \in Task
        BY <4>1 DEF Task
      <4>3. task' \in [Replacer -> Task]
        BY <2>1, <4>2 DEF Task
      <4> QED
        BY <2>1, <3>0, <3>2, <4>1, <4>3 DEF Task
    <3>5. \A v \in Replacer \ {w} : Brings(v) <=> Brings(v)'
      BY <3>1
    <3>6. \A v \in Replacer : Brings(v) =>
             task[v].batch \in Nat /\ task[v].batch <= clock /\ task[v].batch # clock'
      BY <3>2
    <3>7. BatchesAreNew'
      <4>1. ASSUME NEW v \in Replacer, Brings(v)'
            PROVE  task'[v].batch \in 1..clock' /\ task'[v].batch \notin stored'
        <5>1. CASE v = w
          BY <3>0, <3>2, <3>3, <5>1
        <5>2. CASE v # w
          <6>1. task'[v] = task[v] /\ Brings(v)
            BY <3>1, <4>1, <5>2
          <6>2. task[v].batch \in 1..clock /\ task[v].batch \notin stored
            BY <6>1
          <6> QED
            BY <3>0, <3>2, <6>1, <6>2
        <5> QED
          BY <5>1, <5>2
      <4>2. ASSUME NEW v \in Replacer, NEW u \in Replacer, u # v, Brings(u)', Brings(v)'
            PROVE  task'[u].batch # task'[v].batch
        <5>1. \A x \in {u, v} \ {w} :
                 task'[x].batch = task[x].batch /\ Brings(x) /\ task[x].batch # clock'
          BY <3>1, <3>6, <4>2
        <5>2. u # w /\ v # w => task[u].batch # task[v].batch
          BY <4>2, <5>1
        <5> QED
          BY <3>3, <4>2, <5>1, <5>2
      <4> QED
        BY <4>1, <4>2
    <3>8. ASSUME NEW b, Past(b) PROVE Past(b)'
      <4>1. b \in 0..clock' /\ b # clock'
        BY <3>2, <3>8
      <4>2. ASSUME NEW v \in Replacer, Brings(v)' PROVE task'[v].batch # b
        <5>1. CASE v = w
          BY <3>3, <4>1, <5>1
        <5>2. CASE v # w
          BY <3>1, <3>8, <4>2, <5>2
        <5> QED
          BY <5>1, <5>2
      <4> QED
        BY <4>1, <4>2
    <3>9. StoredAreGiven' /\ ReadingsArePast' /\ CachedIsPast'
      <4> HIDE DEF Past
      <4> QED
        BY <3>0, <3>2, <3>8
    <3>10. AloneUnlessMet'
      <4>1. \A v \in Replacer : task'[v].stage # "idle" <=> task[v].stage # "idle"
        BY <3>0, <3>1, <3>3
      <4>2. \A v \in Replacer : task'[v].stage \in {"lock", "commit"} =>
               task[v].stage \in {"lock", "commit"} /\ task'[v].doomed = task[v].doomed
        BY <3>1, <3>3
      <4> QED
        BY <3>0, <4>1, <4>2
    <3> QED
      BY <3>4, <3>7, <3>9, <3>10
  <2>2. CASE Quits(w) /\ UNCHANGED clock
    BY <1>3, <2>2 DEF Fetch, Quits
  <2> QED
    BY <1>3, <2>1, <2>2 DEF Fetch
<1>4. ASSUME NEW w \in Replacer, Delete(w) PROVE SnapshotInv'
  <2>1. SnapshotTypeOK'
    BY <1>4 DEF Delete, OnlyTask
  <2>2. BatchesAreNew'
    BY <1>4 DEF Delete, OnlyTask
  <2>3. StoredAreGiven'
    BY <1>4 DEF Delete, OnlyTask
  <2>4. ReadingsArePast'
    BY <1>4 DEF Delete, OnlyTask
  <2>5. CachedIsPast'
    BY <1>4 DEF Delete, OnlyTask
  <2>6. AloneUnlessMet'
    BY <1>4 DEF Delete, OnlyTask
  <2> QED
    BY <2>1, <2>2, <2>3, <2>4, <2>5, <2>6
<1>5. ASSUME NEW w \in Replacer, Lock(w) PROVE SnapshotInv'
  BY <1>5 DEF Lock, Steps, OnlyTask
<1>6. ASSUME NEW w \in Replacer, CommitBatch(w) PROVE SnapshotInv'
  <2>1. SnapshotTypeOK'
    <3>1. task[w].batch \in Batch
      BY <1>6 DEF CommitBatch
    <3>2. stored' \subseteq Batch /\ recent' \in BOOLEAN
      BY <1>6, <3>1 DEF CommitBatch, Rest
    <3>3. task' \in [Replacer -> Task]
      BY <1>6 DEF CommitBatch, Quits, Task
    <3> QED
      BY <1>6, <3>2, <3>3 DEF CommitBatch, Task
  <2>2. BatchesAreNew'
    BY <1>6 DEF CommitBatch, Quits, Rest
  <2>3. StoredAreGiven'
    BY <1>6 DEF CommitBatch, Quits, Rest
  <2>4. ReadingsArePast'
    BY <1>6 DEF CommitBatch, Quits, Rest
  <2>5. CachedIsPast'
    BY <1>6 DEF CommitBatch, Quits, Rest
  <2>6. AloneUnlessMet'
    BY <1>6 DEF CommitBatch, Quits, Rest
  <2> QED
    BY <2>1, <2>2, <2>3, <2>4, <2>5, <2>6
<1>7. ASSUME NEW w \in Replacer, GiveUp(w) PROVE SnapshotInv'
  BY <1>7 DEF GiveUp, Quits, OnlyTask
<1>8. ASSUME NEW r \in Reader, ReadLatest(r) PROVE SnapshotInv'
  <2>0. Latest \in 0..clock /\ \A v \in Replacer : Brings(v) => task[v].batch # Latest
    <3>1. Latest \in stored \cup {0} /\ clock \in Nat
      BY LatestBelongs
    <3> HIDE DEF SnapshotTypeOK
    <3> QED
      BY <3>1
  <2>1. SnapshotTypeOK'
    BY <1>8, <2>0 DEF ReadLatest
  <2>2. BatchesAreNew'
    BY <1>8, <2>0 DEF ReadLatest
  <2>3. StoredAreGiven'
    BY <1>8, <2>0 DEF ReadLatest
  <2>4. ReadingsArePast'
    BY <1>8, <2>0 DEF ReadLatest
  <2>5. CachedIsPast'
    BY <1>8, <2>0 DEF ReadLatest
  <2>6. AloneUnlessMet'
    BY <1>8, <2>0 DEF ReadLatest
  <2> QED
    BY <2>1, <2>2, <2>3, <2>4, <2>5, <2>6
<1>9. ASSUME NEW r \in Reader, ReadRows(r) PROVE SnapshotInv'
  <2>1. SnapshotTypeOK'
    BY <1>9 DEF ReadRows, Selected
  <2>2. BatchesAreNew'
    BY <1>9 DEF ReadRows, Selected
  <2>3. StoredAreGiven'
    BY <1>9 DEF ReadRows, Selected
  <2>4. ReadingsArePast'
    BY <1>9 DEF ReadRows, Selected
  <2>5. CachedIsPast'
    BY <1>9 DEF ReadRows, Selected
  <2>6. AloneUnlessMet'
    BY <1>9 DEF ReadRows, Selected
  <2> QED
    BY <2>1, <2>2, <2>3, <2>4, <2>5, <2>6
<1>10. CASE Ages
  BY <1>10 DEF Ages
<1>11. CASE UNCHANGED snapshotVars
  BY <1>11 DEF snapshotVars
<1> QED
  BY <1>1, <1>2, <1>3, <1>4, <1>5, <1>6, <1>7, <1>8, <1>9, <1>10, <1>11 DEF SnapshotNext

LEMMA SnapshotInvHolds == SnapshotSpec => []SnapshotInv
BY SnapshotStarts, SnapshotSteps, PTL DEF SnapshotSpec

\* What is stored, cached or under way are batches that exist.
THEOREM SnapshotTypeCorrect == SnapshotSpec => []SnapshotTypeOK
<1>1. SnapshotInv => SnapshotTypeOK
  BY DEF SnapshotInv
<1> QED
  BY SnapshotInvHolds, <1>1, PTL

\* The list in memory is not the empty one of a batch that was replaced between
\* the two statements of the request that read it.
THEOREM ServedCorrect == SnapshotSpec => []ServedIsStored
<1>1. ASSUME SnapshotInv PROVE ServedIsStored
  BY <1>1, LatestBelongs DEF SnapshotInv, CachedIsPast, ServedIsStored
<1> QED
  BY SnapshotInvHolds, <1>1, PTL

LEMMA OnlyCommits ==
    ASSUME [SnapshotNext]_snapshotVars, stored' # stored
    PROVE  \E w \in Replacer : CommitBatch(w)
  BY DEF SnapshotNext, snapshotVars, BeginReplace, FindRecent, OnlyTask, Fetch, Delete, Lock,
         GiveUp, Ages, ReadLatest, ReadRows

\* A table that has rows is never seen without, and a replacement that met no
\* other leaves one batch.
THEOREM ReplacedCorrect == SnapshotSpec => ReplacedWhole
<1>1. ASSUME SnapshotInv, [SnapshotNext]_snapshotVars
      PROVE  /\ stored # {} => stored' # {}
             /\ stored' # stored /\ ~met => Cardinality(stored') <= 1
  <2>1. SUFFICES ASSUME stored' # stored
                 PROVE  stored' # {} /\ (~met => Cardinality(stored') <= 1)
    OBVIOUS
  <2>2. PICK w \in Replacer : CommitBatch(w)
    BY <1>1, <2>1, OnlyCommits
  <2>3. stored' = (stored \ task[w].doomed) \cup {task[w].batch}
    BY <2>2 DEF CommitBatch, Rest
  <2>4. ASSUME ~met PROVE Cardinality(stored') <= 1
    <3>1. task[w].doomed = stored
      BY <1>1, <2>2, <2>4 DEF SnapshotInv, AloneUnlessMet, CommitBatch
    <3>2. stored' = {task[w].batch}
      BY <2>3, <3>1
    <3>3. Cardinality({task[w].batch}) = 1
      BY FS_Singleton
    <3> QED
      BY <3>2, <3>3
  <2> QED
    BY <2>3, <2>4
<1>2. SnapshotInv /\ [SnapshotNext]_snapshotVars =>
        [/\ stored # {} => stored' # {}
         /\ stored' # stored /\ ~met => Cardinality(stored') <= 1]_snapshotVars
  BY <1>1
<1> QED
  BY SnapshotInvHolds, <1>2, PTL DEF SnapshotSpec, ReplacedWhole

-----------------------------------------------------------------------------
(***************************************************************************)
(* TwoLevelCache.  The age of an entry and the ticks it has left add up to *)
(* the same as long as it is there, so what matters is the sum with which  *)
(* it was put there.                                                       *)
(***************************************************************************)

Kept == [age: Nat, left: Nat, ok: BOOLEAN]

CacheShape ==
    /\ kind \in {"view", "answer"} /\ redis \in BOOLEAN
    /\ front \in Kept /\ back \in Kept /\ shown \in Kept
    /\ front.left = 0 => front = NoEntry
    /\ back.left = 0 => back = NoEntry
    /\ level \in {"none", "front", "back"}

\* What a request brings is at most a tick old.
VisitsAreFresh ==
    /\ visit \in [Visitor -> [stage: {"away", "behind", "fetch", "store"}, age: {0, 1},
                               ok: BOOLEAN]]
    /\ \A v \in Visitor : visit[v].stage = "store" => visit[v].ok

\* In front are successes only: in Redis, of the engine's cycle or at most one
\* life of the engine's entries older than their own; in memory, of two lives.
FrontIsBounded ==
    front.left > 0 =>
        /\ front.ok
        /\ kind = "answer" => front.age + front.left <= 2 * AnswerTTL
        /\ kind = "view" => \/ front.age + front.left < EngineTTL + RouteTTL
                            \/ front.age + front.left <= WarmTTL + 1

BackIsBounded ==
    back.left > 0 =>
        /\ kind = "answer" => back.ok /\ back.age + back.left <= AnswerTTL + 1
        /\ kind = "view" => back.age + back.left <= EngineTTL

ShownIsBounded ==
    /\ ShownIsRecent
    /\ level = "none" => shown = NoEntry
    /\ shown.left <= 2 * AnswerTTL + WarmTTL + EngineTTL + 1

CacheInv ==
    CacheShape /\ VisitsAreFresh /\ FrontIsBounded /\ BackIsBounded /\ ShownIsBounded

LEMMA Lives ==
    /\ RouteTTL \in Nat \ {0} /\ WarmTTL \in Nat \ {0} /\ EngineTTL \in Nat \ {0}
    /\ AnswerTTL \in Nat \ {0} /\ RouteTTL <= WarmTTL
BY CacheAssumption

LEMMA CacheStarts == CacheInit => CacheInv
BY Lives DEF CacheInit, CacheInv, CacheShape, VisitsAreFresh, FrontIsBounded, BackIsBounded,
             ShownIsBounded, ShownIsRecent, NoEntry, Away, Kept

LEMMA OlderKeepsSum ==
    ASSUME NEW e \in Kept
    PROVE  /\ Older(e) \in Kept
           /\ Older(e).left = 0 => Older(e) = NoEntry
           /\ Older(e).left > 0 => /\ e.left > 0 /\ Older(e).ok = e.ok
                                   /\ Older(e).age + Older(e).left = e.age + e.left
<1>1. CASE e.left <= 1
  BY <1>1 DEF Older, Kept, NoEntry
<1>2. CASE e.left > 1
  <2>1. Older(e) = [e EXCEPT !.age = e.age + 1, !.left = e.left - 1]
    BY <1>2 DEF Older, Kept
  <2>2. Older(e).age = e.age + 1 /\ Older(e).left = e.left - 1 /\ Older(e).ok = e.ok
    BY <2>1 DEF Kept
  <2>3. e.age + 1 \in Nat /\ e.left - 1 \in Nat
    BY <1>2 DEF Kept
  <2>4. Older(e) \in Kept
    BY <2>1, <2>3 DEF Kept
  <2> QED
    BY <1>2, <2>2, <2>4 DEF Kept
<1> QED
  BY <1>1, <1>2 DEF Kept

LEMMA EntryIsKept ==
    ASSUME NEW age \in Nat, NEW left \in Nat, NEW ok \in BOOLEAN
    PROVE  /\ Entry(age, left, ok) \in Kept
           /\ Entry(age, left, ok).age = age /\ Entry(age, left, ok).left = left
           /\ Entry(age, left, ok).ok = ok
BY DEF Entry, Kept

LEMMA NoEntryIsKept == NoEntry \in Kept /\ NoEntry.left = 0 /\ ~NoEntry.ok /\ NoEntry.age = 0
BY DEF NoEntry, Kept

LEMMA FieldsOfKept == \A e \in Kept : e.age \in Nat /\ e.left \in Nat /\ e.ok \in BOOLEAN
BY DEF Kept

\* What CacheShape says of an entry.
WellKept(entry) == entry \in Kept /\ (entry.left = 0 => entry = NoEntry)

LEMMA PutInFront ==
    ASSUME kind' = kind, NEW age \in Nat, NEW left \in Nat \ {0},
           front' = Entry(age, left, TRUE),
           kind = "answer" => age + left <= 2 * AnswerTTL,
           kind = "view" => age + left < EngineTTL + RouteTTL \/ age + left <= WarmTTL + 1
    PROVE  WellKept(front') /\ FrontIsBounded'
<1>1. /\ front' \in Kept /\ front'.age = age /\ front'.left = left
      /\ front'.ok
  BY DEF Entry, Kept
<1> QED
  BY <1>1 DEF WellKept, FrontIsBounded

LEMMA PutBehind ==
    ASSUME kind' = kind, NEW age \in Nat, NEW left \in Nat \ {0}, NEW ok \in BOOLEAN,
           back' = Entry(age, left, ok),
           kind = "answer" => ok /\ age + left <= AnswerTTL + 1,
           kind = "view" => age + left <= EngineTTL
    PROVE  WellKept(back') /\ BackIsBounded'
<1>1. /\ back' \in Kept /\ back'.age = age /\ back'.left = left
      /\ back'.ok = ok
  BY DEF Entry, Kept
<1> QED
  BY <1>1 DEF WellKept, BackIsBounded

LEMMA NothingInFront ==
    ASSUME front' = NoEntry PROVE WellKept(front') /\ FrontIsBounded'
BY NoEntryIsKept DEF WellKept, FrontIsBounded

LEMMA NothingBehind ==
    ASSUME back' = NoEntry PROVE WellKept(back') /\ BackIsBounded'
BY NoEntryIsKept DEF WellKept, BackIsBounded

LEMMA SameInFront ==
    ASSUME CacheInv, kind' = kind, front' = front PROVE WellKept(front') /\ FrontIsBounded'
BY DEF CacheInv, CacheShape, WellKept, FrontIsBounded

LEMMA SameBehind ==
    ASSUME CacheInv, kind' = kind, back' = back PROVE WellKept(back') /\ BackIsBounded'
BY DEF CacheInv, CacheShape, WellKept, BackIsBounded

LEMMA SameShowing ==
    ASSUME CacheInv, kind' = kind, SameShown
    PROVE  ShownIsBounded' /\ shown' \in Kept /\ level' \in {"none", "front", "back"}
BY DEF CacheInv, CacheShape, ShownIsBounded, ShownIsRecent, SameShown

LEMMA ShowsFront ==
    ASSUME CacheInv, kind' = kind, front.left > 0, Showing(front, "front")
    PROVE  ShownIsBounded' /\ shown' \in Kept /\ level' \in {"none", "front", "back"}
BY Lives, FieldsOfKept
   DEF CacheInv, CacheShape, FrontIsBounded, ShownIsBounded, ShownIsRecent, Showing

LEMMA ShowsBack ==
    ASSUME CacheInv, kind' = kind, back.left > 0, Showing(back, "back")
    PROVE  ShownIsBounded' /\ shown' \in Kept /\ level' \in {"none", "front", "back"}
BY Lives, FieldsOfKept
   DEF CacheInv, CacheShape, BackIsBounded, ShownIsBounded, ShownIsRecent, Showing

Visit == [stage: {"away", "behind", "fetch", "store"}, age: {0, 1}, ok: BOOLEAN]

\* A request that has done something is still fresh, and all others are.
LEMMA VisitChanges ==
    ASSUME CacheInv, NEW v \in Visitor, NEW new \in Visit, new.stage = "store" => new.ok,
           visit' = [visit EXCEPT ![v] = new]
    PROVE  VisitsAreFresh'
BY DEF CacheInv, VisitsAreFresh, Visit

LEMMA VisitLeaves ==
    ASSUME CacheInv, NEW v \in Visitor, Leaves(v) PROVE VisitsAreFresh'
BY VisitChanges DEF Leaves, Away, Visit

LEMMA VisitTurns ==
    ASSUME CacheInv, NEW v \in Visitor, NEW to \in {"behind", "fetch"}, Turns(v, to)
    PROVE  VisitsAreFresh'
<1> DEFINE new == [Away EXCEPT !.stage = to]
<1>1. Away \in Visit
  BY DEF Away, Visit
<1>2. new \in Visit /\ new.stage = to
  BY <1>1 DEF Visit
<1>3. visit' = [visit EXCEPT ![v] = new]
  BY DEF Turns
<1> HIDE DEF new
<1> QED
  BY <1>2, <1>3, VisitChanges

LEMMA CacheSteps == CacheInv /\ [CacheNext]_cacheVars => CacheInv'
<1> SUFFICES ASSUME CacheInv, [CacheNext]_cacheVars PROVE CacheInv'
  OBVIOUS
<1>0. ASSUME kind' = kind, redis' \in BOOLEAN, WellKept(front'), WellKept(back'),
             VisitsAreFresh', FrontIsBounded', BackIsBounded', ShownIsBounded',
             shown' \in Kept, level' \in {"none", "front", "back"}
      PROVE  CacheInv'
  BY <1>0 DEF CacheInv, CacheShape, WellKept
<1>a. redis \in BOOLEAN /\ kind \in {"view", "answer"}
  BY DEF CacheInv, CacheShape
<1>b. Setting => redis' \in BOOLEAN /\ kind' = kind
  BY <1>a DEF Setting
<1>1. ASSUME NEW v \in Visitor, LookInFront(v) PROVE CacheInv'
  <2>1. Setting /\ front' = front /\ back' = back
    BY <1>1 DEF LookInFront
  <2>2. \/ front.left > 0 /\ Leaves(v) /\ Showing(front, "front")
        \/ Turns(v, "behind") /\ SameShown
    BY <1>1 DEF LookInFront
  <2>3. VisitsAreFresh'
    BY <2>2, VisitLeaves, VisitTurns
  <2> QED
    BY <1>0, <1>b, <2>1, <2>2, <2>3, SameInFront, SameBehind, SameShowing, ShowsFront
<1>2. ASSUME NEW v \in Visitor, LookBehind(v) PROVE CacheInv'
  <2>1. Setting /\ back' = back
    BY <1>2 DEF LookBehind
  <2>2. CASE /\ back.left > 0
             /\ Leaves(v) /\ Showing(back, "back")
             /\ front' \in IF back.ok THEN StoredIn(front, Restamped(back), kind = "view")
                          ELSE {front}
    <3>1. CASE front' = front
      BY <1>0, <1>b, <2>1, <2>2, <3>1, SameInFront, SameBehind, VisitLeaves, ShowsBack
    <3>2. CASE front' = Entry(back.age, FrontTTL, TRUE)
      <4>1. back.age \in Nat /\ back.left \in Nat
        BY FieldsOfKept DEF CacheInv, CacheShape
      <4>2. FrontTTL \in Nat \ {0}
        BY Lives DEF FrontTTL
      <4>3. kind = "answer" => back.age + FrontTTL <= 2 * AnswerTTL
        BY <2>2, <4>1, Lives DEF CacheInv, BackIsBounded, FrontTTL
      <4>4. kind = "view" => back.age + FrontTTL < EngineTTL + RouteTTL
        BY <2>2, <4>1, Lives DEF CacheInv, BackIsBounded, FrontTTL
      <4>5. WellKept(front') /\ FrontIsBounded'
        BY <1>b, <2>1, <3>2, <4>1, <4>2, <4>3, <4>4, PutInFront
      <4> QED
        BY <1>0, <1>b, <2>1, <2>2, <4>5, SameBehind, VisitLeaves, ShowsBack
    <3>3. front' = front \/ front' = Entry(back.age, FrontTTL, TRUE)
      BY <2>2 DEF StoredIn, Restamped
    <3> QED
      BY <3>1, <3>2, <3>3
  <2>3. CASE Turns(v, "fetch") /\ SameShown /\ UNCHANGED front
    BY <1>0, <1>b, <2>1, <2>3, SameInFront, SameBehind, SameShowing, VisitTurns
  <2> QED
    BY <1>2, <2>2, <2>3 DEF LookBehind
<1>3. ASSUME NEW v \in Visitor, Fetched(v) PROVE CacheInv'
  <2>1. PICK ok \in BOOLEAN :
           IF kind = "view"
           THEN LET left == IF visit[v].age < EngineTTL THEN EngineTTL - visit[v].age ELSE 0
                IN  /\ back' = IF left = 0 THEN NoEntry ELSE Entry(visit[v].age, left, ok)
                    /\ visit' = [visit EXCEPT ![v].stage = IF ok THEN "store" ELSE "away",
                                              ![v].age = IF ok THEN @ ELSE 0, ![v].ok = ok]
                    /\ UNCHANGED front
           ELSE /\ front' = IF ok THEN Entry(visit[v].age, FrontTTL, TRUE) ELSE front
                /\ visit' = [visit EXCEPT ![v] =
                               IF ok THEN [@ EXCEPT !.stage = "store", !.ok = TRUE] ELSE Away]
                /\ UNCHANGED back
    BY <1>3 DEF Fetched
  <2>2. Setting /\ SameShown
    BY <1>3 DEF Fetched
  <2>3. visit[v] \in Visit /\ visit[v].age \in {0, 1}
    BY DEF CacheInv, VisitsAreFresh, Visit
  <2>4. CASE kind = "view"
    <3> DEFINE left == IF visit[v].age < EngineTTL THEN EngineTTL - visit[v].age ELSE 0
               new == [stage |-> IF ok THEN "store" ELSE "away",
                       age |-> IF ok THEN visit[v].age ELSE 0, ok |-> ok]
    <3>1. left \in Nat /\ (left # 0 => visit[v].age + left <= EngineTTL)
      BY <2>3, Lives
    <3>2. front' = front /\ back' = IF left = 0 THEN NoEntry ELSE Entry(visit[v].age, left, ok)
      BY <2>1, <2>4
    <3>3. visit' = [visit EXCEPT ![v] = new]
      BY <2>1, <2>3, <2>4 DEF Visit
    <3>4. new \in Visit /\ (new.stage = "store" => new.ok)
      BY <2>3 DEF Visit
    <3> HIDE DEF left, new
    <3>5. VisitsAreFresh'
      BY <3>3, <3>4, VisitChanges
    <3>6. WellKept(back') /\ BackIsBounded'
      <4>1. CASE left = 0
        BY <3>2, <4>1, NothingBehind
      <4>2. CASE left # 0
        BY <1>b, <2>2, <2>3, <2>4, <3>1, <3>2, <4>2, PutBehind
      <4> QED
        BY <4>1, <4>2
    <3> QED
      BY <1>0, <1>b, <2>2, <3>2, <3>5, <3>6, SameInFront, SameShowing
  <2>5. CASE kind = "answer"
    <3>1. back' = back /\ (front' = front \/ front' = Entry(visit[v].age, AnswerTTL, TRUE))
      BY <2>1, <2>5 DEF FrontTTL
    <3>2. WellKept(front') /\ FrontIsBounded'
      <4>1. visit[v].age + AnswerTTL <= 2 * AnswerTTL
        BY <2>3, Lives
      <4>2. CASE front' = Entry(visit[v].age, AnswerTTL, TRUE)
        BY <1>b, <2>2, <2>3, <2>5, <4>1, <4>2, Lives, PutInFront
      <4> QED
        BY <1>b, <2>2, <3>1, <4>2, SameInFront
    <3> DEFINE new == IF ok THEN [visit[v] EXCEPT !.stage = "store", !.ok = TRUE] ELSE Away
    <3>3. visit' = [visit EXCEPT ![v] = new]
      BY <2>1, <2>5
    <3>4. new \in Visit /\ (new.stage = "store" => new.ok)
      BY <2>3 DEF Visit, Away
    <3> HIDE DEF new
    <3>5. VisitsAreFresh'
      BY <3>3, <3>4, VisitChanges
    <3> QED
      BY <1>0, <1>b, <2>2, <3>1, <3>2, <3>5, SameBehind, SameShowing
  <2> QED
    BY <1>a, <2>4, <2>5
<1>4. ASSUME NEW v \in Visitor, Stored(v) PROVE CacheInv'
  <2>1. Setting /\ SameShown /\ Leaves(v)
    BY <1>4 DEF Stored
  <2>2. visit[v].age \in {0, 1}
    BY DEF CacheInv, VisitsAreFresh
  <2>3. CASE kind = "view"
    <3>1. back' = back /\ (front' = front \/ front' = Entry(visit[v].age, RouteTTL, TRUE))
      BY <1>4, <2>3 DEF Stored, StoredIn
    <3>2. CASE front' = Entry(visit[v].age, RouteTTL, TRUE)
      <4>1. visit[v].age + RouteTTL <= WarmTTL + 1
        BY <2>2, Lives
      <4>2. WellKept(front') /\ FrontIsBounded'
        BY <1>b, <2>1, <2>2, <2>3, <3>2, <4>1, Lives, PutInFront
      <4> QED
        BY <1>0, <1>b, <2>1, <3>1, <4>2, SameBehind, SameShowing, VisitLeaves
    <3> QED
      BY <1>0, <1>b, <2>1, <3>1, <3>2, SameInFront, SameBehind, SameShowing, VisitLeaves
  <2>4. CASE kind = "answer"
    <3>1. front' = front /\ (back' = back \/ back' = Entry(visit[v].age, AnswerTTL, TRUE))
      BY <1>4, <2>4 DEF Stored, StoredIn
    <3>2. CASE back' = Entry(visit[v].age, AnswerTTL, TRUE)
      <4>1. visit[v].age + AnswerTTL <= AnswerTTL + 1
        BY <2>2, Lives
      <4>2. WellKept(back') /\ BackIsBounded'
        BY <1>b, <2>1, <2>2, <2>4, <3>2, <4>1, Lives, PutBehind
      <4> QED
        BY <1>0, <1>b, <2>1, <3>1, <4>2, SameInFront, SameShowing, VisitLeaves
    <3> QED
      BY <1>0, <1>b, <2>1, <3>1, <3>2, SameInFront, SameBehind, SameShowing, VisitLeaves
  <2> QED
    BY <1>a, <2>3, <2>4
<1>5. CASE Warm
  <2>1. PICK age \in 0..1 : front' = Entry(age, WarmTTL, TRUE)
    BY <1>5 DEF Warm
  <2>2. /\ Setting /\ SameShown /\ kind = "view" /\ back' = back /\ visit' = visit
    BY <1>5 DEF Warm
  <2>3. WellKept(front') /\ FrontIsBounded'
    <3>1. age \in Nat /\ age + WarmTTL <= WarmTTL + 1 /\ WarmTTL \in Nat \ {0}
      BY Lives
    <3> QED
      BY <1>b, <2>1, <2>2, <3>1, PutInFront
  <2>4. VisitsAreFresh'
    BY <2>2 DEF CacheInv, VisitsAreFresh
  <2> QED
    BY <1>0, <1>b, <2>2, <2>3, <2>4, SameBehind, SameShowing
<1>6. CASE Tick
  <2>1. Setting /\ SameShown /\ front' = Older(front) /\ back' = Older(back)
    BY <1>6 DEF Tick
  <2>2. front \in Kept /\ back \in Kept
    BY DEF CacheInv, CacheShape
  <2>3. WellKept(front') /\ FrontIsBounded'
    BY <1>b, <2>1, <2>2, OlderKeepsSum DEF CacheInv, WellKept, FrontIsBounded
  <2>4. WellKept(back') /\ BackIsBounded'
    BY <1>b, <2>1, <2>2, OlderKeepsSum DEF CacheInv, WellKept, BackIsBounded
  <2>5. VisitsAreFresh'
    <3>1. visit' = [v \in Visitor |-> IF visit[v].stage \in {"fetch", "store"}
                                      THEN [visit[v] EXCEPT !.age = 1] ELSE visit[v]]
      BY <1>6 DEF Tick
    <3>2. visit \in [Visitor -> Visit]
      BY DEF CacheInv, VisitsAreFresh, Visit
    <3> QED
      BY <3>1, <3>2 DEF CacheInv, VisitsAreFresh, Visit
  <2> QED
    BY <1>0, <1>b, <2>1, <2>3, <2>4, <2>5, SameShowing
<1>7. CASE ProcessRestarts
  <2>1. SameShown /\ kind' = kind /\ redis' \in BOOLEAN
    BY <1>7 DEF ProcessRestarts
  <2>2. (back' = NoEntry /\ front' = front) \/ (front' = NoEntry /\ back' = back)
    BY <1>7 DEF ProcessRestarts
  <2>3. VisitsAreFresh'
    BY <1>7 DEF ProcessRestarts, VisitsAreFresh, Away
  <2> QED
    BY <1>0, <2>1, <2>2, <2>3, NothingInFront, NothingBehind, SameInFront, SameBehind, SameShowing
<1>8. CASE Evict
  <2>1. /\ Setting /\ SameShown /\ front' = NoEntry /\ back' = back /\ visit' = visit
    BY <1>8 DEF Evict
  <2>2. VisitsAreFresh'
    BY <2>1 DEF CacheInv, VisitsAreFresh
  <2> QED
    BY <1>0, <1>b, <2>1, <2>2, NothingInFront, SameBehind, SameShowing
<1>9. CASE UNCHANGED cacheVars
  BY <1>9 DEF cacheVars, CacheInv, CacheShape, VisitsAreFresh, FrontIsBounded, BackIsBounded,
              ShownIsBounded, ShownIsRecent
<1> QED
  BY <1>1, <1>2, <1>3, <1>4, <1>5, <1>6, <1>7, <1>8, <1>9 DEF CacheNext

LEMMA CacheInvHolds == CacheSpec => []CacheInv
BY CacheStarts, CacheSteps, PTL DEF CacheSpec

\* What is shown is no older than both lives together, and a failure is never
\* shown for longer than the engine keeps it.
THEOREM RecentCorrect == CacheSpec => []ShownIsRecent
<1>1. CacheInv => ShownIsRecent
  BY DEF CacheInv, ShownIsBounded
<1> QED
  BY CacheInvHolds, <1>1, PTL

LEMMA CacheTypes ==
    ASSUME CacheInv
    PROVE  CacheTypeOK
<1>1. front \in [age: Age, left: Age, ok: BOOLEAN]
  BY Lives, NoEntryIsKept
     DEF CacheInv, CacheShape, FrontIsBounded, Kept, Age
<1>2. back \in [age: Age, left: Age, ok: BOOLEAN]
  BY Lives, NoEntryIsKept
     DEF CacheInv, CacheShape, BackIsBounded, Kept, Age
<1>3. shown \in [age: Age, left: Age, ok: BOOLEAN]
  BY Lives, NoEntryIsKept
     DEF CacheInv, CacheShape, ShownIsBounded, ShownIsRecent, Kept, Age
<1>4. visit \in [Visitor -> [stage: {"away", "behind", "fetch", "store"}, age: Age,
                             ok: BOOLEAN]]
  BY Lives DEF CacheInv, VisitsAreFresh, Age
<1> QED
  BY <1>1, <1>2, <1>3, <1>4 DEF CacheInv, CacheShape, CacheTypeOK

\* The ages stay in the range that the model gives them.
THEOREM CacheTypeCorrect == CacheSpec => []CacheTypeOK
BY CacheInvHolds, CacheTypes, PTL
=============================================================================
