----------------------------- MODULE OperationLog -----------------------------
(***************************************************************************)
(* The log in the database (app/core/logger.py), for one message of one    *)
(* account and module.  log() folds repetitions within five minutes into   *)
(* the line it inserted first: it counts them in memory and leaves the     *)
(* update of the line to a pool of two threads.  Just after midnight, in a *)
(* thread of the scheduler, the lines of earlier days move to the history. *)
(***************************************************************************)
EXTENDS Naturals, Sequences, FiniteSetsExt

CONSTANTS
    LogDays,  \* the days of a behaviour: a bound
    Keep,     \* days a line stays in the history: 7
    Lines,    \* rows inserted in a behaviour: a bound
    Said,     \* calls folded into a line: a bound
    Thread    \* _log_executor's threads, two

ASSUME LogAssumption ==
    /\ LogDays \in Nat \ {0} /\ Keep \in Nat \ {0}
    /\ Lines \in Nat \ {0} /\ Said \in Nat \ {0}

Line == 1..Lines  \* the ids of rows, in the order of insertion

VARIABLES
    date,     \* date.today()
    fold,     \* the entry of _fold_cache less than five minutes old: id and
              \* count, id 0 without one
    heard,    \* heard[l]: calls the line stands for, 0 before it is inserted
    written,  \* written[l]: the day of its timestamp
    logs,     \* logs[l]: the count in its message, 0 if it is not in logs
    history,  \* history[l]: likewise, in logs_history
    pending,  \* updates handed to the pool
    thread,   \* thread[t]: the update a thread of the pool is at
    moving,   \* the migration's transaction: its stage, its date and its copy
    blurred   \* lines whose count may be behind

logVars == <<date, fold, heard, written, logs, history, pending, thread, moving, blurred>>

NoFold   == [id |-> 0, count |-> 0]
NoMove   == [stage |-> "none", day |-> 0, copy |-> [l \in Line |-> 0]]
Update   == [id: 0..Lines, count: Nat]

LogTypeOK ==
    /\ date \in 1..LogDays
    /\ fold \in Update
    /\ heard \in [Line -> 0..Said] /\ written \in [Line -> 0..LogDays]
    /\ logs \in [Line -> Nat] /\ history \in [Line -> Nat]
    /\ pending \in Seq(Update) /\ thread \in [Thread -> Update]
    /\ moving \in [stage: {"none", "copied", "deleted"}, day: 0..LogDays, copy: [Line -> Nat]]
    /\ blurred \subseteq Line

LogInit ==
    /\ date = 1 /\ fold = NoFold
    /\ heard = [l \in Line |-> 0] /\ written = heard /\ logs = heard /\ history = heard
    /\ pending = << >> /\ thread = [t \in Thread |-> NoFold]
    /\ moving = NoMove /\ blurred = {}

-----------------------------------------------------------------------------
(* log() *)

\* Mutant of NextCount.
CountedTwice(n) == n + 2

\* A repetition: one more in memory, one update more for the pool.
NextCount(n) == n + 1

LogFolded ==
    /\ fold.id # 0 /\ heard[fold.id] < Said
    /\ LET n == NextCount(fold.count) IN
         /\ fold' = [fold EXCEPT !.count = n]
         /\ pending' = Append(pending, [id |-> fold.id, count |-> n])
    /\ heard' = [heard EXCEPT ![fold.id] = @ + 1]
    /\ UNCHANGED <<date, written, logs, history, thread, moving, blurred>>

\* Two attempts, in which the event loop stands still; a commit whose answer is
\* lost leaves a line, too.  Without an id the next call inserts again.
LogInserted ==
    /\ fold.id = 0
    /\ \E n \in 0..2 :
         LET new == {l \in Line : heard[l] = 0 /\ Cardinality({k \in 1..l : heard[k] = 0}) <= n}
             On(f, v) == [l \in Line |-> IF l \in new THEN v ELSE f[l]]
         IN  /\ Cardinality(new) = n
             /\ heard' = On(heard, 1) /\ written' = On(written, date) /\ logs' = On(logs, 1)
             /\ \/ fold' = NoFold
                \/ \E last \in new :
                      (\A l \in new : l <= last) /\ fold' = [id |-> last, count |-> 1]
    /\ UNCHANGED <<date, history, pending, thread, moving, blurred>>

FoldExpires ==
    /\ fold.id # 0 /\ fold' = NoFold
    /\ UNCHANGED <<date, heard, written, logs, history, pending, thread, moving, blurred>>

-----------------------------------------------------------------------------
(* _update_log_message() in the pool *)

Take(t) ==
    /\ thread[t] = NoFold /\ pending # << >>
    /\ thread' = [thread EXCEPT ![t] = Head(pending)] /\ pending' = Tail(pending)
    /\ UNCHANGED <<date, fold, heard, written, logs, history, moving, blurred>>

\* The row is locked while its deletion is not committed.
Locked(l) == moving.stage = "deleted" /\ logs[l] # 0 /\ written[l] < moving.day

\* The update sets the message, whatever it says; it finds no row that has
\* moved, and what it changes of a row already copied does not move.  A failure
\* is swallowed.
UpdateLine(t) ==
    /\ thread[t] # NoFold
    /\ LET u == thread[t]
           ahead == logs[u.id] < u.count /\ moving.copy[u.id] = 0
       IN  \/ /\ logs[u.id] # 0 /\ ~Locked(u.id)
              /\ logs' = [logs EXCEPT ![u.id] = u.count]
              /\ blurred' = IF ahead THEN blurred ELSE blurred \cup {u.id}
           \/ UNCHANGED logs /\ blurred' = blurred \cup {u.id}
    /\ thread' = [thread EXCEPT ![t] = NoFold]
    /\ UNCHANGED <<date, fold, heard, written, history, pending, moving>>

-----------------------------------------------------------------------------
(* migrate_logs_to_history(): one transaction, READ COMMITTED, of one date. *)

Earlier(d) == {l \in Line : logs[l] # 0 /\ written[l] < d}

CopyLines ==
    /\ moving.stage = "none" /\ Earlier(date) # {}
    /\ moving' = [stage |-> "copied", day |-> date,
                  copy |-> [l \in Line |-> IF l \in Earlier(date) THEN logs[l] ELSE 0]]
    /\ UNCHANGED <<date, fold, heard, written, logs, history, pending, thread, blurred>>

DeleteLines ==
    /\ moving.stage = "copied" /\ moving' = [moving EXCEPT !.stage = "deleted"]
    /\ UNCHANGED <<date, fold, heard, written, logs, history, pending, thread, blurred>>

\* Mutant of Gone: the date is read again.
GoneToday == Earlier(date)

\* The lines that go are chosen by the date of the beginning.
Gone == Earlier(moving.day)

CommitMove ==
    /\ moving.stage = "deleted" /\ moving' = NoMove
    /\ logs' = [l \in Line |-> IF l \in Gone THEN 0 ELSE logs[l]]
    /\ history' = [l \in Line |->
                     IF written[l] + Keep <= moving.day THEN 0
                     ELSE IF moving.copy[l] # 0 THEN moving.copy[l] ELSE history[l]]
    /\ UNCHANGED <<date, fold, heard, written, pending, thread, blurred>>

RollBackMove ==
    /\ moving.stage # "none" /\ moving' = NoMove
    /\ UNCHANGED <<date, fold, heard, written, logs, history, pending, thread, blurred>>

-----------------------------------------------------------------------------
(* The process and the clock. *)

\* What the pool has not written is lost with the process.
Unwritten == {thread[t].id : t \in Thread} \cup {pending[i].id : i \in DOMAIN pending}

ProcessEnds ==
    /\ fold' = NoFold /\ pending' = << >> /\ thread' = [t \in Thread |-> NoFold]
    /\ moving' = NoMove /\ blurred' = blurred \cup (Unwritten \ {0})
    /\ UNCHANGED <<date, heard, written, logs, history>>

NextDay ==
    /\ date < LogDays /\ date' = date + 1
    /\ UNCHANGED <<fold, heard, written, logs, history, pending, thread, moving, blurred>>

LogNext ==
    \/ LogFolded \/ LogInserted \/ FoldExpires
    \/ \E t \in Thread : Take(t) \/ UpdateLine(t)
    \/ CopyLines \/ DeleteLines \/ CommitMove \/ RollBackMove
    \/ ProcessEnds \/ NextDay

LogSpec == LogInit /\ [][LogNext]_logVars

-----------------------------------------------------------------------------
(* Properties *)

\* A line never claims more repetitions than there were, and once the pool is
\* done, no fewer: unless its updates overtook each other, failed, died with the
\* process or came while or after the line moved.
CountsSettle ==
    \A l \in Line :
        /\ logs[l] <= heard[l] /\ history[l] <= heard[l]
        /\ l \notin blurred \cup Unwritten =>
              heard[l] \in {logs[l], history[l]} \/ history[l] + logs[l] = 0

\* Midnights, failures and a crash in the middle of the migration lose no line
\* before its time and double none.
LinesMoveOnce ==
    \A l \in Line : heard[l] # 0 =>
        /\ logs[l] = 0 \/ history[l] = 0
        /\ logs[l] = 0 /\ history[l] = 0 => written[l] + Keep <= date
=============================================================================
