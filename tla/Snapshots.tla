------------------------------- MODULE Snapshots -------------------------------
(***************************************************************************)
(* Two tables that are replaced as a whole: auction_snapshots, by whichever*)
(* engine first finds it older than 25 minutes (_warm_api_caches()) or by  *)
(* the route "refresh", and an account's player_inventory, by the cycle    *)
(* and by two routes.  Neither has a unique key; a replacement deletes all *)
(* rows and inserts its own in one transaction under READ COMMITTED.       *)
(*                                                                         *)
(* The routes of the auction read the newest batch and keep it in memory   *)
(* (_load_and_process_snapshot()).                                         *)
(***************************************************************************)
EXTENDS Naturals, FiniteSetsExt

CONSTANTS
    Replacer,  \* coroutines that replace the table: a bound
    Reader,    \* requests that read it: a bound
    Batches    \* replacements of a behaviour: a bound

ASSUME SnapshotAssumption == Batches \in Nat \ {0}

\* A batch is known by its snapshot_at; 0 is none.
Batch == 1..Batches

VARIABLES
    stored,    \* the batches of which the table has rows
    clock,     \* the newest snapshot_at given so far
    recent,    \* the newest batch is less than 25 minutes old
    task,      \* task[w]: where a replacement is, its batch, what it deletes
    reading,   \* reading[r]: the batch whose rows a request is going to select
    cached,    \* _mem_cache: a batch, and whether its rows are there
    met        \* the replacement under way has met another

snapshotVars == <<stored, clock, recent, task, reading, cached, met>>

NoTask == [stage |-> "idle", batch |-> 0, doomed |-> {}]

SnapshotTypeOK ==
    /\ stored \subseteq Batch
    /\ clock \in 0..Batches /\ recent \in BOOLEAN /\ met \in BOOLEAN
    /\ task \in [Replacer -> [stage: {"idle", "fetch", "delete", "lock", "commit"},
                              batch: 0..Batches, doomed: SUBSET Batch]]
    /\ reading \in [Reader -> 0..Batches]
    /\ cached \in [batch: 0..Batches, filled: BOOLEAN]

SnapshotInit ==
    /\ stored = {} /\ clock = 0 /\ recent = FALSE
    /\ task = [w \in Replacer |-> NoTask]
    /\ reading = [r \in Reader |-> 0] /\ cached = [batch |-> 0, filled |-> FALSE]
    /\ met = FALSE

Steps(w, from, to) == task[w].stage = from /\ task' = [task EXCEPT ![w].stage = to]
Quits(w) == task' = [task EXCEPT ![w] = NoTask]
OnlyTask == UNCHANGED <<stored, clock, recent, reading, cached, met>>

-----------------------------------------------------------------------------
(* Replacing *)

\* An engine looks at the age of the newest batch first; the routes, and those
\* that replace the inventory, do not.
BeginReplace(w) ==
    /\ Steps(w, "idle", "fetch")
    /\ met' = (\E v \in Replacer \ {w} : task[v].stage # "idle")
    /\ UNCHANGED <<stored, clock, recent, reading, cached>>

FindRecent(w) ==
    /\ recent /\ task[w].stage = "fetch" /\ Quits(w) /\ OnlyTask

\* Page by page; a page that fails ends the list as the last one does, and
\* nothing is replaced by an empty list.
Fetch(w) ==
    /\ task[w].stage = "fetch" /\ clock < Batches
    /\ \/ /\ clock' = clock + 1
          /\ task' = [task EXCEPT ![w] = [@ EXCEPT !.stage = "delete", !.batch = clock + 1]]
       \/ Quits(w) /\ UNCHANGED clock
    /\ UNCHANGED <<stored, recent, reading, cached, met>>

\* The statement deletes what is committed when it begins ...
Delete(w) ==
    /\ task[w].stage = "delete"
    /\ task' = [task EXCEPT ![w] = [@ EXCEPT !.stage = "lock", !.doomed = stored]]
    /\ OnlyTask

\* ... and waits for another transaction that deletes the same rows.
Lock(w) ==
    /\ \A v \in Replacer \ {w} :
          task[v].stage = "commit" => task[v].doomed \cap task[w].doomed \cap stored = {}
    /\ Steps(w, "lock", "commit") /\ OnlyTask

\* Mutant of Rest: nothing is deleted.
KeptRows(old, gone) == old

\* Only all of it, or nothing.
Rest(old, gone) == old \ gone

CommitBatch(w) ==
    /\ task[w].stage = "commit" /\ Quits(w)
    /\ stored' = Rest(stored, task[w].doomed) \cup {task[w].batch}
    /\ recent' = TRUE
    /\ UNCHANGED <<clock, reading, cached, met>>

\* An exception, or the end of the process.
GiveUp(w) ==
    /\ task[w].stage \in {"delete", "lock", "commit"} /\ Quits(w) /\ OnlyTask

Ages ==
    /\ recent /\ recent' = FALSE
    /\ UNCHANGED <<stored, clock, task, reading, cached, met>>

-----------------------------------------------------------------------------
(* _load_and_process_snapshot() *)

Latest == IF stored = {} THEN 0 ELSE Max(stored)

\* Nothing more is read if the newest batch is the one in memory.
ReadLatest(r) ==
    /\ reading[r] = 0 /\ Latest # cached.batch
    /\ reading' = [reading EXCEPT ![r] = Latest]
    /\ UNCHANGED <<stored, clock, recent, task, cached, met>>

\* Mutant of Selected: the newest batch is asked for once more.
SelectedLatest(b) == [batch |-> Latest, filled |-> b \in stored]

\* The second statement selects the rows of that batch, if they are there.
Selected(b) == [batch |-> b, filled |-> b \in stored]

ReadRows(r) ==
    /\ reading[r] # 0
    /\ cached' = Selected(reading[r])
    /\ reading' = [reading EXCEPT ![r] = 0]
    /\ UNCHANGED <<stored, clock, recent, task, met>>

SnapshotNext ==
    \/ \E w \in Replacer :
          \/ BeginReplace(w) \/ FindRecent(w) \/ Fetch(w) \/ Delete(w) \/ Lock(w)
          \/ CommitBatch(w) \/ GiveUp(w)
    \/ \E r \in Reader : ReadLatest(r) \/ ReadRows(r)
    \/ Ages

SnapshotSpec == SnapshotInit /\ [][SnapshotNext]_snapshotVars

-----------------------------------------------------------------------------
(* Properties *)

\* Whatever fails or overlaps, a table that has rows is never seen without; and
\* a replacement that met no other leaves one batch, where two that met may
\* each leave theirs: a bag with every item twice until the next one.
ReplacedWhole ==
    [][/\ stored # {} => stored' # {}
       /\ stored' # stored /\ ~met => Cardinality(stored') <= 1]_snapshotVars

\* The list in memory is served only while its batch is the newest, and is not
\* the empty one of a batch that was replaced between the two statements.
ServedIsStored == cached.batch # 0 /\ cached.batch = Latest => cached.filled
=============================================================================
