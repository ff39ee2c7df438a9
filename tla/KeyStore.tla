------------------------------- MODULE KeyStore -------------------------------
(***************************************************************************)
(* The signing keys: the file data/ecdsa_keys.json that all accounts share *)
(* (app/core/crypto.py), the key each QPetClient holds in memory, and the  *)
(* key the game has registered for the account (app/services/              *)
(* qpet_client.py), with everything that registers a key anew: the start   *)
(* of an engine, the recovery from a 401 answer, the repeated acceptance   *)
(* of a museum trade, the routes, and the temporary clients of routes.     *)
(*                                                                         *)
(* A task is a coroutine between two awaits.  init_ecdsa() copies the file *)
(* before its request and writes the copy back after the answer; a save or *)
(* a deletion is one step, as neither awaits.                              *)
(***************************************************************************)
EXTENDS Naturals, FiniteSets

CONSTANTS
    Account,
    Client,  \* QPetClient objects, each made for one account
    Owner,   \* Owner[c]: its account
    Task,    \* coroutines that may be in flight: a bound
    Key,     \* identities of key pairs; one nobody holds is used again
    None,
    Faults   \* "lost": a registration is done but its answer is lost;
             \* "crash": the process dies and is started again

ASSUME OwnerAssumption == Owner \in [Client -> Account]
ASSUME NoneAssumption == None \notin Key \cup Client \cup Account
ASSUME FaultAssumption == Faults \subseteq {"lost", "crash"}

VARIABLES
    file,   \* file[a]: the entry of a in the key file
    known,  \* known[a]: the key the game has registered for a
    use,    \* use[c]: what the client serves
    mem,    \* mem[c]: private_key
    ready,  \* ready[c]: _ready
    pc,     \* pc[t]: where the coroutine is
    cl,     \* cl[t]: its client
    new,    \* new[t]: the key it registers, or a call was signed with
    store,  \* store[t]: its copy of the file
    reg,    \* reg[k]: the account the game registered k for
    raced   \* accounts for which registrations have overlapped, or whose key
            \* was replaced by a client its running engine does not use

clients == <<use, mem, ready>>
tasks   == <<pc, cl, new, store>>
vars    == <<file, known, clients, tasks, reg, raced>>

MaybeKey == Key \cup {None}
File == [Account -> MaybeKey]

TypeOK ==
    /\ file \in File /\ known \in File
    /\ use \in [Client -> {"free", "starting", "engine", "temp"}]
    /\ mem \in [Client -> MaybeKey]
    /\ ready \in [Client -> BOOLEAN]
    /\ pc \in [Task -> {"idle", "commit", "nap", "sent", "answer", "probe",
                        "call", "callback"}]
    /\ cl \in [Task -> Client \cup {None}]
    /\ new \in [Task -> MaybeKey]
    /\ store \in [Task -> File]
    /\ reg \in [Key -> Account \cup {None}]
    /\ raced \subseteq Account
    /\ \A c \in Client : ready[c] <=> mem[c] # None
    /\ \A t \in Task : pc[t] # "idle" => cl[t] \in Client

NoFile == [a \in Account |-> None]

Init ==
    /\ file = NoFile /\ known = NoFile
    /\ use = [c \in Client |-> "free"]
    /\ mem = [c \in Client |-> None]
    /\ ready = [c \in Client |-> FALSE]
    /\ pc = [t \in Task |-> "idle"]
    /\ cl = [t \in Task |-> None]
    /\ new = [t \in Task |-> None]
    /\ store = [t \in Task |-> NoFile]
    /\ reg = [k \in Key |-> None]
    /\ raced = {}

-----------------------------------------------------------------------------
(***************************************************************************)
(* What the operations are made of                                         *)
(***************************************************************************)

\* A task ends, or one that has nothing of its own begins at p.
Becomes(t, p, c) ==
    /\ pc' = [pc EXCEPT ![t] = p]
    /\ cl' = [cl EXCEPT ![t] = c]
    /\ new' = [new EXCEPT ![t] = None]
    /\ store' = [store EXCEPT ![t] = NoFile]

Ends(t) == Becomes(t, "idle", None)

Without(f, a) == [f EXCEPT ![a] = None]

Held(k) ==
    \/ \E a \in Account : file[a] = k \/ known[a] = k
    \/ \E c \in Client : mem[c] = k
    \/ \E t \in Task : new[t] = k \/ \E a \in Account : store[t][a] = k

\* Task t has generated a key, k; what nobody holds is forgotten.
Generates(t, k) ==
    /\ ~Held(k)
    /\ new' = [new EXCEPT ![t] = k]
    /\ reg' = [j \in Key |-> IF Held(j) THEN reg[j] ELSE None]

\* Tasks between the deletion of a key and the end of its replacement.
Replacing(t) == pc[t] \in {"commit", "nap", "sent", "answer"}

\* Task t begins to replace the key of client c.
Replaces(t, c) ==
    LET a == Owner[c]
        others == {u \in Task \ {t} : Replacing(u)}
        foreign == \E d \in Client \ {c} : /\ Owner[d] = a /\ ready[d]
                                          /\ use[d] \in {"starting", "engine"}
    IN raced' = IF others # {} THEN raced \cup {a} \cup {Owner[cl[u]] : u \in others}
                ELSE IF foreign THEN raced \cup {a} ELSE raced

\* init_ecdsa() of a client without a key, with f in the file: its entry is
\* imported, and the task goes to p, or a new key is sent to the game.
InitEcdsa(t, c, f, p) ==
    LET a == Owner[c] IN
    /\ file' = f
    /\ \/ /\ f[a] # None
          /\ mem' = [mem EXCEPT ![c] = f[a]]
          /\ ready' = [ready EXCEPT ![c] = TRUE]
          /\ Becomes(t, p, IF p = "idle" THEN None ELSE c)
          /\ UNCHANGED <<reg, raced>>
       \/ /\ f[a] = None
          /\ \E k \in Key : Generates(t, k)
          /\ mem' = [mem EXCEPT ![c] = None]
          /\ ready' = [ready EXCEPT ![c] = FALSE]
          /\ pc' = [pc EXCEPT ![t] = "sent"]
          /\ cl' = [cl EXCEPT ![t] = c]
          /\ store' = [store EXCEPT ![t] = f]
          /\ Replaces(t, c)

\* delete_key(); ensure_ecdsa_ready()
Renew(t, c) == InitEcdsa(t, c, Without(file, Owner[c]), "idle")

\* Mutant of DeleteKey: _ready stays as it is.
DeleteKeyKeeps(c) ==
    /\ file' = Without(file, Owner[c])
    /\ mem' = [mem EXCEPT ![c] = None]
    /\ UNCHANGED ready

\* delete_key() alone.
DeleteKey(c) ==
    /\ file' = Without(file, Owner[c])
    /\ mem' = [mem EXCEPT ![c] = None]
    /\ ready' = [ready EXCEPT ![c] = FALSE]

Engine(c) == use[c] = "engine"

-----------------------------------------------------------------------------
(***************************************************************************)
(* AccountManager.start() and stop()                                       *)
(***************************************************************************)

\* start(), with a client of its own; EngineLifecycle says what happens when starts
\* overlap, here they do not.  The login has succeeded: relogin() deletes the key
\* and saves the new token.
UserStarts(t, c) ==
    /\ pc[t] = "idle"
    /\ use[c] = "free" /\ c \notin {cl[u] : u \in Task}
    /\ \A d \in Client : Owner[d] = Owner[c] => use[d] \in {"free", "temp"}
    /\ use' = [use EXCEPT ![c] = "starting"]
    /\ DeleteKey(c)
    /\ Becomes(t, "commit", c)
    /\ Replaces(t, c)
    /\ UNCHANGED <<known, reg>>

\* start() deletes the key again, and sleeps for a second.
TokenSaved(t) ==
    /\ pc[t] = "commit"
    /\ DeleteKey(cl[t])
    /\ pc' = [pc EXCEPT ![t] = "nap"]
    /\ UNCHANGED <<known, use, cl, new, store, reg, raced>>

\* The entry may be there again, from another account's copy of the file.
NapEnds(t) ==
    /\ pc[t] = "nap"
    /\ InitEcdsa(t, cl[t], file, "probe")
    /\ UNCHANGED <<known, use>>

\* get_character() with the key; a 401 raises in start(), as the callback of a
\* starting client takes an argument it is not given.
ProbeOk(t) ==
    /\ pc[t] = "probe"
    /\ mem[cl[t]] = known[Owner[cl[t]]]
    /\ use' = [use EXCEPT ![cl[t]] = "engine"]
    /\ Ends(t)
    /\ UNCHANGED <<file, known, mem, ready, reg, raced>>

\* Any failure of it; the client is dropped.
StartFails(t) ==
    /\ pc[t] = "probe"
    /\ use' = [use EXCEPT ![cl[t]] = "free"]
    /\ Ends(t)
    /\ UNCHANGED <<file, known, mem, ready, reg, raced>>

\* What the client still has in flight goes on.
UserStops(c) ==
    /\ Engine(c)
    /\ use' = [use EXCEPT ![c] = "free"]
    /\ UNCHANGED <<file, known, mem, ready, tasks, reg, raced>>

-----------------------------------------------------------------------------
(***************************************************************************)
(* Registration                                                            *)
(***************************************************************************)

\* The game (external): an account has one key, the last registered.
Registers(t) ==
    /\ pc[t] = "sent"
    /\ known' = [known EXCEPT ![Owner[cl[t]]] = new[t]]
    /\ reg' = [reg EXCEPT ![new[t]] = Owner[cl[t]]]
    /\ pc' = [pc EXCEPT ![t] = "answer"]
    /\ UNCHANGED <<file, clients, cl, new, store, raced>>

\* The copy is written back, over whatever others wrote meanwhile.
RegisterOk(t) ==
    /\ pc[t] = "answer"
    /\ LET c == cl[t] IN
       /\ file' = [store[t] EXCEPT ![Owner[c]] = new[t]]
       /\ mem' = [mem EXCEPT ![c] = new[t]]
       /\ ready' = [ready EXCEPT ![c] = TRUE]
       /\ IF use[c] = "starting" THEN Becomes(t, "probe", c) ELSE Ends(t)
    /\ UNCHANGED <<known, use, reg, raced>>

\* Mutant of RegisterFails: the key is kept although the answer is no success.
RegisterFailsKeeps(t) ==
    /\ pc[t] = "sent" \/ (pc[t] = "answer" /\ "lost" \in Faults)
    /\ use' = IF use[cl[t]] = "starting" THEN [use EXCEPT ![cl[t]] = "free"] ELSE use
    /\ file' = [store[t] EXCEPT ![Owner[cl[t]]] = new[t]]
    /\ Ends(t)
    /\ UNCHANGED <<known, mem, ready, reg, raced>>

\* Refused, or the answer is lost.
RegisterFails(t) ==
    /\ pc[t] = "sent" \/ (pc[t] = "answer" /\ "lost" \in Faults)
    /\ use' = IF use[cl[t]] = "starting" THEN [use EXCEPT ![cl[t]] = "free"] ELSE use
    /\ Ends(t)
    /\ UNCHANGED <<file, known, mem, ready, reg, raced>>

-----------------------------------------------------------------------------
(***************************************************************************)
(* Calls, and what registers keys beside starts                            *)
(***************************************************************************)

\* A signed call in flight, of an engine or a temporary client.
Calls(t, c) ==
    /\ pc[t] = "idle" /\ use[c] \in {"engine", "temp"}
    /\ pc' = [pc EXCEPT ![t] = "call"]
    /\ cl' = [cl EXCEPT ![t] = c]
    /\ new' = [new EXCEPT ![t] = mem[c]]
    /\ UNCHANGED <<file, known, clients, store, reg, raced>>

Signed(t) == new[t] # None /\ new[t] = known[Owner[cl[t]]]

\* Answered, or a network error.
CallEnds(t) ==
    /\ pc[t] = "call"
    /\ Ends(t)
    /\ UNCHANGED <<file, known, clients, reg, raced>>

\* 401: api_call schedules the callback, which a temporary client has not.
Rejected(t) ==
    /\ pc[t] = "call" /\ ~Signed(t)
    /\ IF use[cl[t]] = "temp" THEN Ends(t) ELSE Becomes(t, "callback", cl[t])
    /\ UNCHANGED <<file, known, clients, reg, raced>>

\* _accept_trade re-registers itself when its call is rejected, beside the callback u.
RejectedAccept(t, u) ==
    /\ pc[t] = "call" /\ ~Signed(t) /\ Engine(cl[t])
    /\ pc[u] = "idle"
    /\ \E k \in Key : Generates(t, k)
    /\ LET c == cl[t] IN
          /\ DeleteKey(c)
          /\ store' = [store EXCEPT ![t] = file']
          /\ pc' = [pc EXCEPT ![t] = "sent", ![u] = "callback"]
          /\ cl' = [cl EXCEPT ![u] = c]
          /\ Replaces(t, c)
    /\ UNCHANGED <<known, use>>

\* Mutant of Callback: the old key is not deleted first.
CallbackEnsures(t) ==
    /\ pc[t] = "callback"
    /\ IF ready[cl[t]] THEN Ends(t) /\ UNCHANGED <<file, mem, ready, reg, raced>>
       ELSE InitEcdsa(t, cl[t], file, "idle")
    /\ UNCHANGED <<known, use>>

\* _handle_auth_failure(), even if the engine has stopped and whatever key the
\* client has by now.
Callback(t) ==
    /\ pc[t] = "callback"
    /\ Renew(t, cl[t])
    /\ UNCHANGED <<known, use>>

\* Mutant of Regenerates: the old key is kept until the new one is there.
RegeneratesLate(t, c) ==
    /\ pc[t] = "idle" /\ Engine(c)
    /\ \E k \in Key : Generates(t, k)
    /\ pc' = [pc EXCEPT ![t] = "sent"]
    /\ cl' = [cl EXCEPT ![t] = c]
    /\ store' = [store EXCEPT ![t] = file]
    /\ Replaces(t, c)
    /\ UNCHANGED <<file, known, clients>>

\* POST regenerate-key, PUT credentials, and _accept_trade of a client not ready.
Regenerates(t, c) ==
    /\ pc[t] = "idle" /\ Engine(c)
    /\ Renew(t, c)
    /\ UNCHANGED <<known, use>>

\* ensure_ecdsa_ready() of a route or of the creation of a trade.
Ensures(t, c) ==
    /\ pc[t] = "idle" /\ Engine(c) /\ ~ready[c]
    /\ InitEcdsa(t, c, file, "idle")
    /\ UNCHANGED <<known, use>>

\* The temporary client of a route: synchronisation of an account that does not
\* run, refresh of the auction.
TempOpens(t, c) ==
    /\ pc[t] = "idle"
    /\ use[c] = "free" /\ c \notin {cl[u] : u \in Task}
    /\ use' = [use EXCEPT ![c] = "temp"]
    /\ InitEcdsa(t, c, file, "idle")
    /\ UNCHANGED known

TempCloses(c) ==
    /\ use[c] = "temp" /\ c \notin {cl[u] : u \in Task}
    /\ use' = [use EXCEPT ![c] = "free"]
    /\ mem' = [mem EXCEPT ![c] = None]
    /\ ready' = [ready EXCEPT ![c] = FALSE]
    /\ UNCHANGED <<file, known, tasks, reg, raced>>

Crash ==
    /\ "crash" \in Faults
    /\ use' = [c \in Client |-> "free"]
    /\ mem' = [c \in Client |-> None]
    /\ ready' = [c \in Client |-> FALSE]
    /\ pc' = [t \in Task |-> "idle"]
    /\ cl' = [t \in Task |-> None]
    /\ new' = [t \in Task |-> None]
    /\ store' = [t \in Task |-> NoFile]
    /\ UNCHANGED <<file, known, reg, raced>>

-----------------------------------------------------------------------------
TaskStep(t) ==
    \/ TokenSaved(t) \/ NapEnds(t) \/ ProbeOk(t) \/ StartFails(t)
    \/ Registers(t) \/ RegisterOk(t) \/ RegisterFails(t)
    \/ CallEnds(t) \/ Rejected(t) \/ Callback(t)

Request(t, c) ==
    \/ UserStarts(t, c) \/ Calls(t, c) \/ Regenerates(t, c) \/ Ensures(t, c)
    \/ TempOpens(t, c)

Next ==
    \/ \E t \in Task : TaskStep(t) \/ \E u \in Task \ {t} : RejectedAccept(t, u)
    \/ \E t \in Task, c \in Client : Request(t, c)
    \/ \E c \in Client : UserStops(c) \/ TempCloses(c)
    \/ Crash

Spec == Init /\ [][Next]_vars

(***************************************************************************)
(* Engines go on making calls, tasks run, and the game answers a rejection *)
(* and a registration infinitely often when asked infinitely often.        *)
(* Nothing is assumed of users and routes.                                 *)
(***************************************************************************)
Fairness ==
    /\ \A t \in Task :
          /\ WF_vars(TaskStep(t))
          /\ SF_vars(Registers(t)) /\ SF_vars(RegisterOk(t))
    /\ \A c \in Client :
          /\ SF_vars(\E t \in Task : Calls(t, c) /\ Engine(c))
          /\ SF_vars(\E t \in Task : Rejected(t) /\ cl[t] = c)

FairSpec == Spec /\ Fairness

-----------------------------------------------------------------------------
(***************************************************************************)
(* Properties                                                              *)
(***************************************************************************)

\* qpet_client.py:90, a key is stored and used only if the game has taken it, and
\* for the account it was registered for, however the answers are ordered and
\* however old the copies of the file are.
OnlyRegistered ==
    /\ \A a \in Account : file[a] # None => reg[file[a]] = a
    /\ \A c \in Client : mem[c] # None => reg[mem[c]] = Owner[c]

\* Unless registrations overlap, a key in the file is the one the game knows, and
\* an engine that thinks it is ready signs with it.
Agreement ==
    \A a \in Account \ raced :
        /\ file[a] \in {None, known[a]}
        /\ \A c \in Client : Owner[c] = a /\ Engine(c) /\ ready[c] =>
              mem[c] = known[a] /\ file[a] = known[a]

\* engine.py:749, an engine whose key is not the one the game knows gets another,
\* unless two replacements of keys are in flight at once.
Stale(a) == \E c \in Client : Owner[c] = a /\ Engine(c) /\ mem[c] # known[a]
Racing == \E t, u \in Task : t # u /\ Replacing(t) /\ Replacing(u)
Heals == \A a \in Account : Stale(a) ~> ~Stale(a) \/ Racing

=============================================================================
