---------------------------- MODULE KeyStoreProofs ----------------------------
(***************************************************************************)
(* For any accounts, clients, coroutines and keys, with every overlap,     *)
(* lost answer and crash: the model is well typed, no key is stored or     *)
(* held in memory that the game has not registered for its account, and    *)
(* unless replacements cross, file, memory and game agree on the key.      *)
(*                                                                         *)
(* A key travels from the generator through a request, the memory of a     *)
(* client, the file and old copies of the file.  The invariant follows it  *)
(* on each leg: before the game has taken it, it is nowhere else.          *)
(***************************************************************************)
EXTENDS KeyStore, TLAPS

\* A registration in flight has a key.
Sending == {"sent", "answer"}
SendsKey == \A t \in Task : pc[t] \in Sending => new[t] \in Key

Typed == TypeOK /\ SendsKey

LEMMA InitTyped == Init => Typed
<1> SUFFICES ASSUME Init PROVE Typed
  OBVIOUS
<1>1. NoFile \in File
  BY DEF NoFile, File, MaybeKey
<1>2. mem \in [Client -> MaybeKey] /\ new \in [Task -> MaybeKey]
  BY DEF Init, MaybeKey
<1>3. store \in [Task -> File] /\ file \in File /\ known \in File
  BY <1>1 DEF Init
<1>4. \A c \in Client : ready[c] <=> mem[c] # None
  BY DEF Init
<1> QED
  BY <1>2, <1>3, <1>4 DEF Init, Typed, TypeOK, SendsKey, Sending

LEMMA WithoutType == ASSUME NEW f \in File, NEW a \in Account PROVE Without(f, a) \in File
BY DEF Without, File, MaybeKey

\* Ends and Becomes keep the types of the coroutines.
LEMMA BecomesTyped ==
    ASSUME Typed, NEW t \in Task, NEW p \in {"idle", "probe", "commit", "callback"},
           NEW c \in Client \cup {None}, p # "idle" => c \in Client,
           Becomes(t, p, c)
    PROVE  /\ pc' \in [Task -> {"idle", "commit", "nap", "sent", "answer", "probe",
                               "call", "callback"}]
           /\ cl' \in [Task -> Client \cup {None}]
           /\ new' \in [Task -> MaybeKey]
           /\ store' \in [Task -> File]
           /\ \A u \in Task : pc'[u] # "idle" => cl'[u] \in Client
           /\ SendsKey'
<1> USE DEF Typed, TypeOK, Becomes
<1>1. store' \in [Task -> File]
  BY DEF NoFile, File, MaybeKey
<1>2. new' \in [Task -> MaybeKey]
  BY DEF MaybeKey
<1> QED
  BY <1>1, <1>2 DEF SendsKey, Sending

\* init_ecdsa() keeps the types.
LEMMA InitEcdsaTyped ==
    ASSUME Typed, NEW t \in Task, NEW c \in Client, NEW f \in File,
           NEW p \in {"idle", "probe"}, InitEcdsa(t, c, f, p),
           known' = known, use' \in [Client -> {"free", "starting", "engine", "temp"}]
    PROVE  Typed'
<1> USE OwnerAssumption, NoneAssumption
<1>1. Owner[c] \in Account /\ file' \in File /\ known' \in File
  BY DEF InitEcdsa, Typed, TypeOK
<1>2. CASE /\ f[Owner[c]] # None
           /\ mem' = [mem EXCEPT ![c] = f[Owner[c]]]
           /\ ready' = [ready EXCEPT ![c] = TRUE]
           /\ Becomes(t, p, IF p = "idle" THEN None ELSE c)
           /\ UNCHANGED <<reg, raced>>
  <2>1. /\ mem' \in [Client -> MaybeKey] /\ ready' \in [Client -> BOOLEAN]
        /\ \A d \in Client : ready'[d] <=> mem'[d] # None
    BY <1>1, <1>2 DEF Typed, TypeOK, File
  <2> QED
    BY <1>1, <1>2, <2>1, BecomesTyped DEF Typed, TypeOK
<1>3. CASE /\ f[Owner[c]] = None
           /\ \E k \in Key : Generates(t, k)
           /\ mem' = [mem EXCEPT ![c] = None]
           /\ ready' = [ready EXCEPT ![c] = FALSE]
           /\ pc' = [pc EXCEPT ![t] = "sent"]
           /\ cl' = [cl EXCEPT ![t] = c]
           /\ store' = [store EXCEPT ![t] = f]
           /\ Replaces(t, c)
  <2>1. /\ mem' \in [Client -> MaybeKey] /\ ready' \in [Client -> BOOLEAN]
        /\ \A d \in Client : ready'[d] <=> mem'[d] # None
    BY <1>3 DEF Typed, TypeOK, MaybeKey
  <2>2. new' \in [Task -> MaybeKey] /\ new'[t] \in Key /\ reg' \in [Key -> Account \cup {None}]
    BY <1>3 DEF Generates, Typed, TypeOK, MaybeKey
  <2>3. \A u \in Task \ {t} : new'[u] = new[u]
    BY <1>3 DEF Generates, Typed, TypeOK
  <2>4. raced' \subseteq Account
    BY <1>1, <1>3 DEF Replaces, Replacing, Typed, TypeOK
  <2>5. store' \in [Task -> File]
    BY <1>3 DEF Typed, TypeOK
  <2>6. /\ pc' \in [Task -> {"idle", "commit", "nap", "sent", "answer", "probe",
                             "call", "callback"}]
        /\ cl' \in [Task -> Client \cup {None}]
        /\ \A u \in Task : pc'[u] # "idle" => cl'[u] \in Client
    BY <1>3 DEF Typed, TypeOK
  <2>7. SendsKey'
    BY <1>3, <2>2, <2>3 DEF Typed, TypeOK, SendsKey, Sending
  <2> QED
    BY <1>1, <2>1, <2>2, <2>4, <2>5, <2>6, <2>7 DEF Typed, TypeOK
<1> QED
  BY <1>2, <1>3 DEF InitEcdsa

LEMMA TypedStep == Typed /\ [Next]_vars => Typed'
<1> SUFFICES ASSUME Typed, [Next]_vars PROVE Typed'
  OBVIOUS
<1> USE OwnerAssumption, NoneAssumption
<1>a. \A c \in Client : Without(file, Owner[c]) \in File
  BY WithoutType DEF Typed, TypeOK
<1>b. ASSUME NEW c \in Client, DeleteKey(c)
      PROVE  /\ file' \in File
             /\ mem' \in [Client -> MaybeKey] /\ ready' \in [Client -> BOOLEAN]
             /\ \A d \in Client : ready'[d] <=> mem'[d] # None
  BY <1>a, <1>b DEF DeleteKey, Typed, TypeOK, MaybeKey
<1>c. ASSUME NEW t \in Task, NEW c \in Client, Replaces(t, c) PROVE raced' \subseteq Account
  BY <1>c DEF Replaces, Replacing, Typed, TypeOK
<1>1. ASSUME NEW t \in Task, NEW c \in Client, UserStarts(t, c) PROVE Typed'
  <2>1. Becomes(t, "commit", c) /\ DeleteKey(c) /\ raced' \subseteq Account
    BY <1>1, <1>c DEF UserStarts
  <2> QED
    BY <1>1, <1>b, <2>1, BecomesTyped DEF UserStarts, Typed, TypeOK
<1>2. ASSUME NEW t \in Task, TokenSaved(t) PROVE Typed'
  BY <1>2, <1>b DEF TokenSaved, Typed, TypeOK, SendsKey, Sending
<1>3. ASSUME NEW t \in Task, NapEnds(t) PROVE Typed'
  BY <1>3, InitEcdsaTyped DEF NapEnds, Typed, TypeOK
<1>4. ASSUME NEW t \in Task, ProbeOk(t) \/ StartFails(t) \/ RegisterFails(t) PROVE Typed'
  <2>1. Becomes(t, "idle", None) /\ UNCHANGED <<file, known, reg, raced>>
    BY <1>4 DEF ProbeOk, StartFails, RegisterFails, Ends
  <2>2. /\ use' \in [Client -> {"free", "starting", "engine", "temp"}]
        /\ mem' \in [Client -> MaybeKey] /\ ready' \in [Client -> BOOLEAN]
        /\ \A d \in Client : ready'[d] <=> mem'[d] # None
    BY <1>4 DEF ProbeOk, StartFails, RegisterFails, Typed, TypeOK
  <2> QED
    BY <2>1, <2>2, BecomesTyped DEF Typed, TypeOK
<1>5. ASSUME NEW c \in Client, UserStops(c) PROVE Typed'
  BY <1>5 DEF UserStops, tasks, Typed, TypeOK, SendsKey
<1>6. ASSUME NEW t \in Task, Registers(t) PROVE Typed'
  BY <1>6 DEF Registers, clients, Typed, TypeOK, SendsKey, Sending, File, MaybeKey
<1>7. ASSUME NEW t \in Task, RegisterOk(t) PROVE Typed'
  <2> DEFINE c == cl[t]
  <2>1. c \in Client /\ new[t] \in Key /\ Owner[c] \in Account
    BY <1>7 DEF RegisterOk, Typed, TypeOK, SendsKey, Sending
  <2>2. Becomes(t, "probe", c) \/ Becomes(t, "idle", None)
    BY <1>7 DEF RegisterOk, Ends
  <2>3. file' \in File
    BY <1>7, <2>1 DEF RegisterOk, Typed, TypeOK, File, MaybeKey
  <2>4. /\ mem' \in [Client -> MaybeKey] /\ ready' \in [Client -> BOOLEAN]
        /\ \A d \in Client : ready'[d] <=> mem'[d] # None
    BY <1>7, <2>1 DEF RegisterOk, Typed, TypeOK, MaybeKey
  <2> QED
    BY <1>7, <2>1, <2>2, <2>3, <2>4, BecomesTyped DEF RegisterOk, Typed, TypeOK
<1>8. ASSUME NEW t \in Task, NEW c \in Client, Calls(t, c) PROVE Typed'
  BY <1>8 DEF Calls, clients, Typed, TypeOK, SendsKey, Sending
<1>9. ASSUME NEW t \in Task, CallEnds(t) \/ Rejected(t) PROVE Typed'
  <2>1. UNCHANGED <<file, known, clients, reg, raced>> /\ pc[t] = "call"
    BY <1>9 DEF CallEnds, Rejected
  <2>2. Becomes(t, "idle", None) \/ Becomes(t, "callback", cl[t])
    BY <1>9 DEF CallEnds, Rejected, Ends
  <2> QED
    BY <2>1, <2>2, BecomesTyped DEF clients, Typed, TypeOK
<1>10. ASSUME NEW t \in Task, NEW u \in Task \ {t}, RejectedAccept(t, u) PROVE Typed'
  <2>1. cl[t] \in Client /\ file' \in File
    BY <1>10, <1>b DEF RejectedAccept, Typed, TypeOK
  <2>2. /\ new' \in [Task -> MaybeKey] /\ new'[t] \in Key
        /\ \A v \in Task \ {t} : new'[v] = new[v]
        /\ reg' \in [Key -> Account \cup {None}]
    BY <1>10 DEF RejectedAccept, Generates, Typed, TypeOK, MaybeKey
  <2>3. store' \in [Task -> File]
    BY <1>10, <2>1 DEF RejectedAccept, Typed, TypeOK
  <2>4. /\ pc' \in [Task -> {"idle", "commit", "nap", "sent", "answer", "probe",
                             "call", "callback"}]
        /\ cl' \in [Task -> Client \cup {None}]
        /\ \A v \in Task : pc'[v] # "idle" => cl'[v] \in Client
    BY <1>10, <2>1 DEF RejectedAccept, Typed, TypeOK
  <2>5. SendsKey'
    BY <1>10, <2>2 DEF RejectedAccept, Typed, TypeOK, SendsKey, Sending
  <2> QED
    BY <1>10, <1>b, <1>c, <2>1, <2>2, <2>3, <2>4, <2>5 DEF RejectedAccept, Typed, TypeOK
<1>11. ASSUME NEW t \in Task, Callback(t) PROVE Typed'
  BY <1>11, <1>a, InitEcdsaTyped DEF Callback, Renew, Typed, TypeOK
<1>12. ASSUME NEW t \in Task, NEW c \in Client, Regenerates(t, c) PROVE Typed'
  BY <1>12, <1>a, InitEcdsaTyped DEF Regenerates, Renew, Typed, TypeOK
<1>13. ASSUME NEW t \in Task, NEW c \in Client, Ensures(t, c) \/ TempOpens(t, c) PROVE Typed'
  BY <1>13, InitEcdsaTyped DEF Ensures, TempOpens, Typed, TypeOK
<1>14. ASSUME NEW c \in Client, TempCloses(c) PROVE Typed'
  BY <1>14 DEF TempCloses, tasks, Typed, TypeOK, SendsKey, MaybeKey
<1>15. CASE Crash
  <2>1. NoFile \in File
    BY DEF NoFile, File, MaybeKey
  <2>2. store' \in [Task -> File]
    BY <1>15, <2>1 DEF Crash
  <2>3. mem' \in [Client -> MaybeKey] /\ new' \in [Task -> MaybeKey]
    BY <1>15 DEF Crash, MaybeKey
  <2>4. \A c \in Client : ready'[c] <=> mem'[c] # None
    BY <1>15 DEF Crash
  <2>5. SendsKey' /\ \A t \in Task : pc'[t] = "idle"
    BY <1>15 DEF Crash, SendsKey, Sending
  <2> QED
    BY <1>15, <2>2, <2>3, <2>4, <2>5 DEF Crash, Typed, TypeOK
<1>16. CASE UNCHANGED vars
  BY <1>16 DEF vars, clients, tasks, Typed, TypeOK, SendsKey
<1> QED
  BY <1>1, <1>2, <1>3, <1>4, <1>5, <1>6, <1>7, <1>8, <1>9, <1>10, <1>11, <1>12,
     <1>13, <1>14, <1>15, <1>16
  DEF Next, TaskStep, Request

\* The model is well typed; among its facts, a client is ready just when it has a
\* key, and nothing is in flight without a client.
THEOREM TypeCorrect == Spec => []TypeOK
<1>1. Typed => TypeOK
  BY DEF Typed
<1> QED
  BY InitTyped, TypedStep, <1>1, PTL DEF Spec

-----------------------------------------------------------------------------
(* Keys and the game                                                       *)

\* A copy of the file holds what the file held, an answered registration has a
\* key the game has taken, and one on its way a key of its own that it has not.
CopiesRegistered ==
    \A t \in Task : \A a \in Account : store[t][a] # None => reg[store[t][a]] = a
AnswersRegistered == \A t \in Task : pc[t] = "answer" => reg[new[t]] = Owner[cl[t]]
SentFresh ==
    \A t \in Task : pc[t] = "sent" =>
        /\ reg[new[t]] = None
        /\ \A u \in Task : pc[u] = "sent" /\ new[u] = new[t] => u = t

Sound == OnlyRegistered /\ CopiesRegistered /\ AnswersRegistered /\ SentFresh

LEMMA InitSound == Init => Sound
BY DEF Init, Sound, OnlyRegistered, CopiesRegistered, AnswersRegistered, SentFresh, NoFile

\* Generating a key takes nothing from the keys that are held.
LEMMA GeneratesKeeps ==
    ASSUME Typed, NEW t \in Task, NEW k \in Key, Generates(t, k)
    PROVE  /\ new'[t] = k /\ reg'[k] = None
           /\ \A u \in Task \ {t} : new'[u] = new[u]
           /\ \A u \in Task : new[u] \in Key => new[u] # k /\ reg'[new[u]] = reg[new[u]]
           /\ \A a \in Account : file[a] \in Key => reg'[file[a]] = reg[file[a]]
           /\ \A c \in Client : mem[c] \in Key => reg'[mem[c]] = reg[mem[c]]
           /\ \A u \in Task : \A a \in Account :
                  store[u][a] \in Key => reg'[store[u][a]] = reg[store[u][a]]
BY DEF Generates, Held, Typed, TypeOK

\* init_ecdsa() with what is left of the file.
LEMMA InitEcdsaSound ==
    ASSUME Typed, Sound, NEW t \in Task, NEW c \in Client, NEW f \in File,
           \A a \in Account : f[a] \in {None, file[a]},
           NEW p \in {"idle", "probe"}, InitEcdsa(t, c, f, p)
    PROVE  Sound'
<1> USE OwnerAssumption, NoneAssumption
<1>1. CASE /\ f[Owner[c]] # None
           /\ mem' = [mem EXCEPT ![c] = f[Owner[c]]]
           /\ Becomes(t, p, IF p = "idle" THEN None ELSE c)
           /\ UNCHANGED reg
  <2>1. OnlyRegistered'
    BY <1>1 DEF InitEcdsa, Typed, TypeOK, Sound, OnlyRegistered
  <2>2. CopiesRegistered'
    BY <1>1 DEF Becomes, NoFile, Typed, TypeOK, Sound, CopiesRegistered
  <2>3. AnswersRegistered' /\ SentFresh'
    BY <1>1 DEF Becomes, Typed, TypeOK, Sound, AnswersRegistered, SentFresh
  <2> QED
    BY <2>1, <2>2, <2>3 DEF Sound
<1>2. ASSUME NEW k \in Key, Generates(t, k), file' = f,
             mem' = [mem EXCEPT ![c] = None],
             pc' = [pc EXCEPT ![t] = "sent"],
             cl' = [cl EXCEPT ![t] = c],
             store' = [store EXCEPT ![t] = f]
      PROVE  Sound'
  <2>1. OnlyRegistered'
    BY <1>2, GeneratesKeeps DEF Typed, TypeOK, Sound, OnlyRegistered, File, MaybeKey
  <2>2. CopiesRegistered'
    BY <1>2, GeneratesKeeps
    DEF Typed, TypeOK, Sound, OnlyRegistered, CopiesRegistered, File, MaybeKey
  <2>3. AnswersRegistered' /\ SentFresh'
    BY <1>2, GeneratesKeeps
    DEF Typed, TypeOK, SendsKey, Sending, Sound, AnswersRegistered, SentFresh
  <2> QED
    BY <2>1, <2>2, <2>3 DEF Sound
<1> QED
  BY <1>1, <1>2 DEF InitEcdsa

LEMMA SoundStep == Typed /\ Sound /\ [Next]_vars => Sound'
<1> SUFFICES ASSUME Typed, Sound, [Next]_vars PROVE Sound'
  OBVIOUS
<1> USE OwnerAssumption, NoneAssumption
<1>a. /\ \A c \in Client : Without(file, Owner[c]) \in File
      /\ \A c \in Client : \A a \in Account : Without(file, Owner[c])[a] \in {None, file[a]}
  BY WithoutType DEF Without, Typed, TypeOK, File
\* A task that ends or waits, after keys were at most deleted.
<1>b. ASSUME NEW t \in Task, NEW p \in {"idle", "probe", "commit", "callback"},
             NEW c \in Client \cup {None}, Becomes(t, p, c), UNCHANGED reg,
             \A a \in Account : file'[a] \in {None, file[a]},
             \A d \in Client : mem'[d] \in {None, mem[d]}
      PROVE  Sound'
  <2>1. OnlyRegistered'
    BY <1>b DEF Typed, TypeOK, Sound, OnlyRegistered
  <2>2. CopiesRegistered'
    BY <1>b DEF Becomes, NoFile, Typed, TypeOK, Sound, CopiesRegistered
  <2>3. AnswersRegistered' /\ SentFresh'
    BY <1>b DEF Becomes, Typed, TypeOK, Sound, AnswersRegistered, SentFresh
  <2> QED
    BY <2>1, <2>2, <2>3 DEF Sound
<1>c. ASSUME NEW c \in Client, DeleteKey(c)
      PROVE  /\ \A a \in Account : file'[a] \in {None, file[a]}
             /\ \A d \in Client : mem'[d] \in {None, mem[d]}
  BY <1>a, <1>c DEF DeleteKey, Typed, TypeOK
<1>1. ASSUME NEW t \in Task, NEW c \in Client, UserStarts(t, c) PROVE Sound'
  BY <1>1, <1>b, <1>c DEF UserStarts
<1>2. ASSUME NEW t \in Task, TokenSaved(t) PROVE Sound'
  <2>1. OnlyRegistered'
    BY <1>2, <1>c DEF TokenSaved, Typed, TypeOK, Sound, OnlyRegistered
  <2> QED
    BY <1>2, <2>1 DEF TokenSaved, Typed, TypeOK, Sound, CopiesRegistered,
                      AnswersRegistered, SentFresh
<1>3. ASSUME NEW t \in Task, NapEnds(t) PROVE Sound'
  BY <1>3, InitEcdsaSound DEF NapEnds, Typed, TypeOK
<1>4. ASSUME NEW t \in Task, ProbeOk(t) \/ StartFails(t) \/ RegisterFails(t) PROVE Sound'
  <2>1. /\ Becomes(t, "idle", None) /\ UNCHANGED <<file, reg>>
        /\ \A d \in Client : mem'[d] \in {None, mem[d]}
    BY <1>4 DEF ProbeOk, StartFails, RegisterFails, Ends, Typed, TypeOK
  <2> QED
    BY <1>b, <2>1
<1>5. ASSUME NEW c \in Client, UserStops(c) PROVE Sound'
  BY <1>5 DEF UserStops, tasks, Typed, TypeOK, Sound, OnlyRegistered, CopiesRegistered,
              AnswersRegistered, SentFresh
<1>6. ASSUME NEW t \in Task, Registers(t) PROVE Sound'
  <2> DEFINE k == new[t]
             a == Owner[cl[t]]
  <2>1. k \in Key /\ reg[k] = None /\ a \in Account /\ reg' = [reg EXCEPT ![k] = a]
    BY <1>6 DEF Registers, Typed, TypeOK, SendsKey, Sending, Sound, SentFresh
  <2>3. OnlyRegistered'
    BY <1>6, <2>1 DEF Registers, clients, Typed, TypeOK, Sound, OnlyRegistered
  <2>4. CopiesRegistered'
    BY <1>6, <2>1 DEF Registers, Typed, TypeOK, Sound, CopiesRegistered
  <2>5. AnswersRegistered' /\ SentFresh'
    BY <1>6, <2>1 DEF Registers, Typed, TypeOK, SendsKey, Sending, Sound,
                      AnswersRegistered, SentFresh
  <2> QED
    BY <2>3, <2>4, <2>5 DEF Sound
<1>7. ASSUME NEW t \in Task, RegisterOk(t) PROVE Sound'
  <2> DEFINE c == cl[t]
  <2>1. /\ c \in Client /\ Owner[c] \in Account /\ new[t] \in Key
        /\ reg[new[t]] = Owner[c] /\ reg' = reg
    BY <1>7 DEF RegisterOk, Typed, TypeOK, SendsKey, Sending, Sound, AnswersRegistered
  <2>2. file' = [store[t] EXCEPT ![Owner[c]] = new[t]] /\ mem' = [mem EXCEPT ![c] = new[t]]
    BY <1>7 DEF RegisterOk
  <2>3. Becomes(t, "probe", c) \/ Becomes(t, "idle", None)
    BY <1>7 DEF RegisterOk, Ends
  <2>4. OnlyRegistered'
    BY <2>1, <2>2 DEF Typed, TypeOK, File, Sound, OnlyRegistered, CopiesRegistered
  <2>5. CopiesRegistered'
    <3>1. store' = [store EXCEPT ![t] = NoFile]
      BY <2>3 DEF Becomes
    <3> QED
      BY <2>1, <3>1 DEF NoFile, Typed, TypeOK, Sound, CopiesRegistered
  <2>6. AnswersRegistered' /\ SentFresh'
    BY <2>1, <2>3 DEF Becomes, Typed, TypeOK, Sound, AnswersRegistered, SentFresh
  <2> QED
    BY <2>4, <2>5, <2>6 DEF Sound
<1>8. ASSUME NEW t \in Task, NEW c \in Client, Calls(t, c) PROVE Sound'
  BY <1>8 DEF Calls, clients, Typed, TypeOK, Sound, OnlyRegistered, CopiesRegistered,
              AnswersRegistered, SentFresh
<1>9. ASSUME NEW t \in Task, CallEnds(t) \/ Rejected(t) PROVE Sound'
  <2>1. UNCHANGED <<file, mem, reg>> /\ (pc[t] # "idle" => cl[t] \in Client) /\ pc[t] = "call"
    BY <1>9 DEF CallEnds, Rejected, clients, Typed, TypeOK
  <2>2. Becomes(t, "idle", None) \/ Becomes(t, "callback", cl[t])
    BY <1>9 DEF CallEnds, Rejected, Ends
  <2> QED
    BY <1>b, <2>1, <2>2
<1>10. ASSUME NEW t \in Task, NEW u \in Task \ {t}, RejectedAccept(t, u) PROVE Sound'
  <2> DEFINE c == cl[t]
  <2>1. c \in Client /\ pc[t] = "call" /\ pc[u] = "idle"
    BY <1>10 DEF RejectedAccept, Typed, TypeOK
  <2>2. PICK k \in Key : Generates(t, k)
    BY <1>10 DEF RejectedAccept
  <2>3. /\ \A a \in Account : file'[a] \in {None, file[a]}
        /\ \A d \in Client : mem'[d] \in {None, mem[d]}
    BY <1>10, <1>c, <2>1 DEF RejectedAccept
  <2>4. file \in File /\ mem \in [Client -> MaybeKey] /\ store \in [Task -> File]
    BY DEF Typed, TypeOK
  <2>5. OnlyRegistered'
    BY <2>2, <2>3, <2>4, GeneratesKeeps DEF Sound, OnlyRegistered, File, MaybeKey
  <2>6. CopiesRegistered'
    <3>1. store' = [store EXCEPT ![t] = file']
      BY <1>10 DEF RejectedAccept
    <3> QED
      BY <2>2, <2>3, <2>4, <3>1, GeneratesKeeps
      DEF Sound, OnlyRegistered, CopiesRegistered, File, MaybeKey
  <2>7. AnswersRegistered' /\ SentFresh'
    <3>1. /\ pc' = [pc EXCEPT ![t] = "sent", ![u] = "callback"]
          /\ cl' = [cl EXCEPT ![u] = c]
      BY <1>10 DEF RejectedAccept
    <3> QED
      BY <2>1, <2>2, <3>1, GeneratesKeeps, SMTT(30)
      DEF Typed, TypeOK, SendsKey, Sending, Sound, AnswersRegistered, SentFresh
  <2> QED
    BY <2>5, <2>6, <2>7 DEF Sound
<1>11. ASSUME NEW t \in Task, Callback(t) PROVE Sound'
  <2>1. cl[t] \in Client
    BY <1>11 DEF Callback, Typed, TypeOK
  <2> QED
    BY <1>11, <1>a, <2>1, InitEcdsaSound DEF Callback, Renew
<1>12. ASSUME NEW t \in Task, NEW c \in Client, Regenerates(t, c) PROVE Sound'
  BY <1>12, <1>a, InitEcdsaSound DEF Regenerates, Renew
<1>13. ASSUME NEW t \in Task, NEW c \in Client, Ensures(t, c) \/ TempOpens(t, c) PROVE Sound'
  BY <1>13, InitEcdsaSound DEF Ensures, TempOpens, Typed, TypeOK
<1>14. ASSUME NEW c \in Client, TempCloses(c) PROVE Sound'
  BY <1>14 DEF TempCloses, tasks, Typed, TypeOK, Sound, OnlyRegistered, CopiesRegistered,
               AnswersRegistered, SentFresh
<1>15. CASE Crash
  BY <1>15 DEF Crash, NoFile, Sound, OnlyRegistered, CopiesRegistered,
               AnswersRegistered, SentFresh
<1>16. CASE UNCHANGED vars
  BY <1>16 DEF vars, clients, tasks, Sound, OnlyRegistered, CopiesRegistered,
               AnswersRegistered, SentFresh
<1> QED
  BY <1>1, <1>2, <1>3, <1>4, <1>5, <1>6, <1>7, <1>8, <1>9, <1>10, <1>11, <1>12,
     <1>13, <1>14, <1>15, <1>16
  DEF Next, TaskStep, Request

\* No key is stored or used that the game has not taken for that account, for any
\* number of accounts, clients and coroutines, with every overlap and fault.
THEOREM RegisteredCorrect == Spec => []OnlyRegistered
<1>1. Init => Typed /\ Sound
  BY InitTyped, InitSound
<1>2. Typed /\ Sound /\ [Next]_vars => Typed' /\ Sound'
  BY TypedStep, SoundStep
<1>3. Sound => OnlyRegistered
  BY DEF Sound
<1> QED
  BY <1>1, <1>2, <1>3, PTL DEF Spec

-----------------------------------------------------------------------------
(* Agreement.  A replacement that nothing overlaps finds the key deleted    *)
(* everywhere; its copy of the file is still what the file holds when the   *)
(* answer comes; and the key it brings is the one the game knows.           *)

Active == {"starting", "engine"}
Moving == {"commit", "nap", "sent", "answer"}
For(t) == Owner[cl[t]]

\* Of two replacements in flight, both accounts are marked.
Lone ==
    \A t, u \in Task : t # u /\ pc[t] \in Moving /\ pc[u] \in Moving => For(t) \in raced

\* While a key is replaced, the old one is gone from the file and from memory.
Emptied ==
    \A t \in Task : pc[t] \in Moving /\ For(t) \notin raced =>
        /\ file[For(t)] = None
        /\ \A c \in Client : Owner[c] = For(t) /\ use[c] \in Active => ~ready[c]

\* A copy of the file that is going to be written back is up to date.
CopiesAreCurrent ==
    \A t \in Task : pc[t] \in Sending => \A a \in Account \ raced : store[t][a] = file[a]

AnswersAreCurrent ==
    \A t \in Task : pc[t] = "answer" /\ For(t) \notin raced => known[For(t)] = new[t]

\* Agreement, of starting clients too.
Agreed ==
    \A a \in Account \ raced :
        /\ file[a] \in {None, known[a]}
        /\ \A c \in Client : Owner[c] = a /\ use[c] \in Active /\ ready[c] =>
              mem[c] = known[a] /\ file[a] = known[a]

\* Only the task of its start works for a starting client.
StartsAlone ==
    \A t \in Task :
        /\ pc[t] \in {"commit", "nap", "probe"} => use[cl[t]] = "starting"
        /\ pc[t] # "idle" /\ use[cl[t]] = "starting" => \A u \in Task \ {t} : cl[u] # cl[t]

Aligned == Lone /\ Emptied /\ CopiesAreCurrent /\ AnswersAreCurrent /\ Agreed

LEMMA InitAligned == Init => Aligned /\ StartsAlone
BY DEF Init, Aligned, Lone, Emptied, CopiesAreCurrent, AnswersAreCurrent, Agreed, StartsAlone,
       Moving, Sending, Active, NoFile

\* Whatever begins to replace a key.
SameTask(u) == pc'[u] = pc[u] /\ cl'[u] = cl[u] /\ new'[u] = new[u] /\ store'[u] = store[u]

Begins(t, c) ==
    /\ known' = known /\ Replaces(t, c)
    /\ file'[Owner[c]] = None /\ \A a \in Account : a # Owner[c] => file'[a] = file[a]
    /\ ~ready'[c]
    /\ \A d \in Client \ {c} :
          mem'[d] = mem[d] /\ ready'[d] = ready[d] /\ (use'[d] \in Active => use[d] \in Active)
    /\ pc'[t] \in {"commit", "sent"} /\ cl'[t] = c /\ (pc'[t] = "sent" => store'[t] = file')
    /\ \A u \in Task \ {t} : SameTask(u) \/ pc'[u] \notin Moving

LEMMA ReplacesMarks ==
    ASSUME NEW t \in Task, NEW c \in Client, Replaces(t, c)
    PROVE  /\ raced \subseteq raced'
           /\ \A u \in Task \ {t} : pc[u] \in Moving => For(u) \in raced' /\ Owner[c] \in raced'
           /\ \A d \in Client \ {c} :
                 Owner[d] = Owner[c] /\ use[d] \in Active /\ ready[d] => Owner[c] \in raced'
BY DEF Replaces, Replacing, Moving, For, Active

LEMMA BeginsAligned ==
    ASSUME Typed, Aligned, NEW t \in Task, NEW c \in Client, Begins(t, c)
    PROVE  Aligned'
<1> USE OwnerAssumption
<1>1. /\ raced \subseteq raced'
      /\ \A u \in Task \ {t} : pc[u] \in Moving => For(u) \in raced' /\ Owner[c] \in raced'
      /\ \A d \in Client \ {c} :
            Owner[d] = Owner[c] /\ use[d] \in Active /\ ready[d] => Owner[c] \in raced'
  BY ReplacesMarks DEF Begins
<1>2. ASSUME NEW u \in Task \ {t}, pc'[u] \in Moving
      PROVE  SameTask(u) /\ pc[u] \in Moving /\ For(u)' = For(u)
             /\ For(u) \in raced' /\ Owner[c] \in raced'
  BY <1>1, <1>2 DEF Begins, SameTask, For
<1>3. For(t)' = Owner[c]
  BY DEF Begins, For
<1>4. Lone'
  BY <1>2, <1>3 DEF Lone
<1>5. Emptied'
  <2>1. ASSUME NEW u \in Task, pc'[u] \in Moving, For(u)' \notin raced'
        PROVE  u = t
    BY <1>2, <2>1
  <2>2. ASSUME NEW d \in Client, Owner[d] = Owner[c], use'[d] \in Active, ready'[d],
               Owner[c] \notin raced'
        PROVE  FALSE
    BY <1>1, <2>2 DEF Begins
  <2> QED
    BY <1>3, <2>1, <2>2 DEF Emptied, Begins
<1>6. CopiesAreCurrent'
  <2>1. ASSUME NEW u \in Task, pc'[u] \in Sending, NEW a \in Account \ raced'
        PROVE  store'[u][a] = file'[a]
    <3>1. CASE u = t
      BY <2>1, <3>1 DEF Begins, Sending
    <3>2. CASE u # t
      <4>1. SameTask(u) /\ a # Owner[c] /\ a \notin raced
        BY <1>1, <1>2, <2>1, <3>2 DEF Sending, Moving
      <4>2. store[u][a] = file[a]
        BY <2>1, <4>1 DEF SameTask, Aligned, CopiesAreCurrent
      <4> QED
        BY <4>1, <4>2 DEF SameTask, Begins
    <3> QED
      BY <3>1, <3>2
  <2> QED
    BY <2>1 DEF CopiesAreCurrent
<1>7. AnswersAreCurrent'
  BY <1>2 DEF Begins, AnswersAreCurrent, Moving
<1>8. Agreed'
  <2>1. ASSUME NEW a \in Account \ raced'
        PROVE  file'[a] \in {None, known'[a]}
    BY <1>1 DEF Begins, Aligned, Agreed
  <2>2. ASSUME NEW a \in Account \ raced', NEW d \in Client,
               Owner[d] = a, use'[d] \in Active, ready'[d]
        PROVE  mem'[d] = known'[a] /\ file'[a] = known'[a]
    <3>1. d # c /\ use[d] \in Active /\ ready[d] /\ mem'[d] = mem[d]
      BY <2>2 DEF Begins
    <3>2. a # Owner[c] /\ a \notin raced
      BY <1>1, <2>2, <3>1
    <3> QED
      BY <2>2, <3>1, <3>2 DEF Begins, Aligned, Agreed
  <2> QED
    BY <2>1, <2>2 DEF Agreed
<1> QED
  BY <1>4, <1>5, <1>6, <1>7, <1>8 DEF Aligned

\* What neither replaces a key nor touches the file: every coroutine goes on as it
\* was or has no replacement in flight, and clients get what is in the file.
Rests ==
    /\ UNCHANGED <<file, known, raced>>
    /\ \A u \in Task : SameTask(u) \/ pc'[u] \notin Moving
    /\ \A d \in Client :
          \/ mem'[d] = mem[d] /\ ready'[d] = ready[d] /\ (use'[d] \in Active => use[d] \in Active)
          \/ mem'[d] = file[Owner[d]]
          \/ ~ready'[d]

LEMMA RestsAligned ==
    ASSUME Typed, Aligned, Typed', Rests
    PROVE  Aligned'
<1> USE OwnerAssumption
<1>1. \A u \in Task : pc'[u] \in Moving => SameTask(u) /\ pc[u] \in Moving /\ For(u)' = For(u)
  BY DEF Rests, SameTask, For
<1>2. Lone'
  BY <1>1 DEF Rests, Aligned, Lone
<1>3. \A d \in Client : ready'[d] <=> mem'[d] # None
  BY DEF Typed, TypeOK
<1>4. ASSUME NEW a \in Account \ raced, NEW d \in Client,
             Owner[d] = a, use'[d] \in Active, ready'[d]
      PROVE  mem'[d] = known[a] /\ file[a] = known[a]
  <2>1. mem'[d] # None /\ file[a] \in {None, known[a]}
    BY <1>3, <1>4 DEF Aligned, Agreed
  <2>2. CASE mem'[d] = file[a]
    BY <2>1, <2>2
  <2>3. CASE mem'[d] = mem[d] /\ ready[d] /\ use[d] \in Active
    BY <1>4, <2>3 DEF Aligned, Agreed
  <2> QED
    BY <1>4, <2>2, <2>3 DEF Rests
<1>5. Emptied'
  <2>1. ASSUME NEW u \in Task, pc'[u] \in Moving, For(u)' \notin raced
        PROVE  /\ file[For(u)'] = None
               /\ \A d \in Client : Owner[d] = For(u)' /\ use'[d] \in Active => ~ready'[d]
    <3>1. For(u)' = For(u) /\ file[For(u)] = None
      BY <1>1, <2>1 DEF Aligned, Emptied
    <3>2. For(u) \in Account
      BY <1>1, <2>1 DEF For, Typed, TypeOK, Moving
    <3>3. ASSUME NEW d \in Client, Owner[d] = For(u), use'[d] \in Active, ready'[d]
          PROVE  FALSE
      <4>1. mem'[d] = known[For(u)] /\ file[For(u)] = known[For(u)]
        BY <1>4, <2>1, <3>1, <3>2, <3>3
      <4> QED
        BY <1>3, <3>1, <3>3, <4>1
    <3> QED
      BY <3>1, <3>3
  <2> QED
    BY <2>1 DEF Emptied, Rests
<1>6. CopiesAreCurrent' /\ AnswersAreCurrent'
  BY <1>1 DEF Rests, SameTask, Aligned, CopiesAreCurrent, AnswersAreCurrent, Sending, Moving
<1>7. Agreed'
  BY <1>4 DEF Rests, Aligned, Agreed
<1> QED
  BY <1>2, <1>5, <1>6, <1>7 DEF Aligned

LEMMA InitEcdsaAligned ==
    ASSUME Typed, Aligned, Typed', NEW t \in Task, NEW c \in Client,
           NEW f \in {file, Without(file, Owner[c])}, NEW p \in {"idle", "probe"},
           InitEcdsa(t, c, f, p), known' = known,
           \A d \in Client : use'[d] \in Active => use[d] \in Active
    PROVE  Aligned'
<1> USE OwnerAssumption, NoneAssumption
<1>1. file \in File /\ Owner[c] \in Account
  BY DEF Typed, TypeOK
<1>2. f[Owner[c]] # None => f = file
  BY <1>1 DEF Without, File
<1>3. \A a \in Account : a # Owner[c] => f[a] = file[a]
  BY <1>1 DEF Without, File
<1>4. CASE /\ f[Owner[c]] # None /\ file' = f
           /\ mem' = [mem EXCEPT ![c] = f[Owner[c]]]
           /\ ready' = [ready EXCEPT ![c] = TRUE]
           /\ Becomes(t, p, IF p = "idle" THEN None ELSE c)
           /\ UNCHANGED <<reg, raced>>
  <2>1. \A u \in Task : SameTask(u) \/ pc'[u] \notin Moving
    BY <1>4 DEF Becomes, SameTask, Moving, Typed, TypeOK
  <2>2. \A d \in Client :
           (mem'[d] = mem[d] /\ ready'[d] = ready[d]) \/ mem'[d] = file[Owner[d]]
    <3>1. mem'[c] = f[Owner[c]] /\ f[Owner[c]] = file[Owner[c]]
      BY <1>2, <1>4 DEF Typed, TypeOK
    <3>2. \A d \in Client \ {c} : mem'[d] = mem[d] /\ ready'[d] = ready[d]
      BY <1>4 DEF Typed, TypeOK
    <3> QED
      BY <3>1, <3>2
  <2>3. Rests
    BY <1>2, <1>4, <2>1, <2>2 DEF Rests
  <2> QED
    BY <2>3, RestsAligned
<1>5. CASE /\ f[Owner[c]] = None /\ file' = f
           /\ \E k \in Key : Generates(t, k)
           /\ mem' = [mem EXCEPT ![c] = None]
           /\ ready' = [ready EXCEPT ![c] = FALSE]
           /\ pc' = [pc EXCEPT ![t] = "sent"]
           /\ cl' = [cl EXCEPT ![t] = c]
           /\ store' = [store EXCEPT ![t] = f]
           /\ Replaces(t, c)
  <2>1. \A u \in Task \ {t} : SameTask(u)
    BY <1>5 DEF SameTask, Generates, Typed, TypeOK
  <2>2. /\ ~ready'[c] /\ pc'[t] = "sent" /\ cl'[t] = c /\ store'[t] = file'
        /\ \A d \in Client \ {c} : mem'[d] = mem[d] /\ ready'[d] = ready[d]
    BY <1>5 DEF Typed, TypeOK
  <2>3. Begins(t, c)
    BY <1>3, <1>5, <2>1, <2>2 DEF Begins
  <2> QED
    BY <2>3, BeginsAligned
<1> QED
  BY <1>4, <1>5 DEF InitEcdsa

LEMMA TokenSavedAligned ==
    ASSUME Typed, Aligned, NEW t \in Task, TokenSaved(t)
    PROVE  Aligned'
<1> USE OwnerAssumption, NoneAssumption
<1> DEFINE c == cl[t]
           a == For(t)
<1>1. /\ c \in Client /\ a = Owner[c] /\ a \in Account /\ pc[t] = "commit"
      /\ pc'[t] = "nap" /\ \A u \in Task \ {t} : pc'[u] = pc[u]
      /\ UNCHANGED <<known, use, cl, new, store, reg, raced>>
  BY DEF TokenSaved, For, Typed, TypeOK
<1>2. /\ file'[a] = None /\ \A b \in Account : b # a => file'[b] = file[b]
      /\ ~ready'[c]
      /\ \A d \in Client \ {c} : mem'[d] = mem[d] /\ ready'[d] = ready[d]
  BY <1>1 DEF TokenSaved, DeleteKey, Without, Typed, TypeOK, File
<1>3. \A u \in Task : For(u)' = For(u)
  BY <1>1 DEF For
<1>4. a \notin raced => file[a] = None
  BY <1>1 DEF Aligned, Emptied, Moving
<1>5. \A b \in Account \ raced : file'[b] = file[b]
  BY <1>2, <1>4
<1> HIDE DEF c, a
<1>6. \A u \in Task : pc'[u] \in Moving => pc[u] \in Moving
  BY <1>1 DEF Moving
<1>7. Lone'
  BY <1>1, <1>3, <1>6 DEF Aligned, Lone
<1>8. Emptied'
  <2>1. ASSUME NEW u \in Task, pc'[u] \in Moving, For(u) \notin raced
        PROVE  /\ file'[For(u)] = None
               /\ \A d \in Client : Owner[d] = For(u) /\ use'[d] \in Active => ~ready'[d]
    <3>1. /\ file[For(u)] = None
          /\ \A d \in Client : Owner[d] = For(u) /\ use[d] \in Active => ~ready[d]
      BY <1>6, <2>1 DEF Aligned, Emptied
    <3>2. For(u) \in Account
      BY <1>6, <2>1 DEF For, Typed, TypeOK, Moving
    <3> QED
      BY <1>1, <1>2, <1>5, <2>1, <3>1, <3>2
  <2> QED
    BY <1>1, <1>3, <2>1 DEF Emptied
<1>9. \A u \in Task : pc'[u] \in Sending => pc[u] \in Sending
  BY <1>1 DEF Sending
<1>10. CopiesAreCurrent'
  BY <1>1, <1>5, <1>9 DEF Aligned, CopiesAreCurrent
<1>11. AnswersAreCurrent'
  BY <1>1, <1>3 DEF Aligned, AnswersAreCurrent
<1>12. Agreed'
  BY <1>1, <1>2, <1>5 DEF Aligned, Agreed
<1> QED
  BY <1>7, <1>8, <1>10, <1>11, <1>12 DEF Aligned

LEMMA RegistersAligned ==
    ASSUME Typed, Aligned, NEW t \in Task, Registers(t)
    PROVE  Aligned'
<1> USE OwnerAssumption, NoneAssumption
<1> DEFINE a == For(t)
<1>1. /\ a \in Account /\ pc[t] = "sent" /\ pc'[t] = "answer"
      /\ \A u \in Task \ {t} : pc'[u] = pc[u]
      /\ known'[a] = new[t] /\ \A b \in Account : b # a => known'[b] = known[b]
      /\ UNCHANGED <<file, use, mem, ready, cl, new, store, raced>>
  BY DEF Registers, For, clients, Typed, TypeOK, File
<1>2. \A u \in Task : For(u)' = For(u)
  BY <1>1 DEF For
<1>3. /\ \A u \in Task : pc'[u] \in Moving => pc[u] \in Moving
      /\ \A u \in Task : pc'[u] \in Sending => pc[u] \in Sending
  BY <1>1 DEF Moving, Sending
<1>4. a \notin raced =>
        /\ file[a] = None
        /\ \A d \in Client : Owner[d] = a /\ use[d] \in Active => ~ready[d]
        /\ \A u \in Task \ {t} : pc[u] \notin Moving
  <2>1. pc[t] \in Moving
    BY <1>1 DEF Moving
  <2> QED
    BY <2>1 DEF Aligned, Emptied, Lone
<1> HIDE DEF a
<1>5. Lone' /\ Emptied' /\ CopiesAreCurrent'
  BY <1>1, <1>2, <1>3 DEF Aligned, Lone, Emptied, CopiesAreCurrent
<1>6. AnswersAreCurrent'
  <2>1. ASSUME NEW u \in Task, pc'[u] = "answer", For(u) \notin raced
        PROVE  known'[For(u)] = new[u]
    <3>1. CASE u = t
      BY <1>1, <3>1 DEF a
    <3>2. CASE u # t
      <4>1. pc[u] = "answer" /\ pc[u] \in Moving
        BY <1>1, <2>1, <3>2 DEF Moving
      <4>2. For(u) # a /\ For(u) \in Account
        BY <1>4, <2>1, <3>2, <4>1 DEF For, Typed, TypeOK
      <4> QED
        BY <1>1, <2>1, <4>1, <4>2 DEF Aligned, AnswersAreCurrent
    <3> QED
      BY <3>1, <3>2
  <2> QED
    BY <1>1, <1>2, <2>1 DEF AnswersAreCurrent
<1>7. Agreed'
  BY <1>1, <1>4 DEF Aligned, Agreed
<1> QED
  BY <1>5, <1>6, <1>7 DEF Aligned

LEMMA RegisterOkAligned ==
    ASSUME Typed, Aligned, NEW t \in Task, RegisterOk(t)
    PROVE  Aligned'
<1> USE OwnerAssumption, NoneAssumption
<1> DEFINE c == cl[t]
           a == For(t)
<1>1. /\ c \in Client /\ a = Owner[c] /\ a \in Account /\ pc[t] = "answer"
      /\ pc'[t] \in {"probe", "idle"} /\ \A u \in Task \ {t} : SameTask(u)
      /\ UNCHANGED <<known, use, raced>>
  BY DEF RegisterOk, Ends, Becomes, SameTask, For, Typed, TypeOK
<1>2. /\ file'[a] = new[t] /\ \A b \in Account : b # a => file'[b] = store[t][b]
      /\ mem'[c] = new[t]
      /\ \A d \in Client \ {c} : mem'[d] = mem[d] /\ ready'[d] = ready[d]
  BY <1>1 DEF RegisterOk, Typed, TypeOK, File
<1>3. pc[t] \in Moving /\ pc[t] \in Sending
  BY <1>1 DEF Moving, Sending
<1>4. \A b \in Account \ raced : b # a => file'[b] = file[b]
  BY <1>2, <1>3 DEF Aligned, CopiesAreCurrent
<1>5. a \notin raced =>
        /\ known[a] = new[t]
        /\ \A d \in Client : Owner[d] = a /\ use[d] \in Active => ~ready[d]
  BY <1>1, <1>3 DEF Aligned, AnswersAreCurrent, Emptied
<1>6. \A u \in Task : pc'[u] \in Moving =>
        u # t /\ SameTask(u) /\ pc[u] \in Moving /\ For(u)' = For(u) /\ For(u) \in raced
        /\ a \in raced
  BY <1>1, <1>3 DEF Moving, SameTask, For, Aligned, Lone
<1> HIDE DEF c, a
<1>7. Lone' /\ Emptied'
  BY <1>1, <1>6 DEF Lone, Emptied
<1>8. CopiesAreCurrent'
  <2>1. ASSUME NEW u \in Task, pc'[u] \in Sending, NEW b \in Account \ raced
        PROVE  store'[u][b] = file'[b]
    <3>1. pc'[u] \in Moving
      BY <2>1 DEF Sending, Moving
    <3>2. b # a /\ SameTask(u)
      BY <1>6, <2>1, <3>1
    <3>3. store[u][b] = file[b]
      BY <2>1, <3>2 DEF SameTask, Aligned, CopiesAreCurrent
    <3> QED
      BY <1>4, <2>1, <3>2, <3>3 DEF SameTask
  <2> QED
    BY <1>1, <2>1 DEF CopiesAreCurrent
<1>9. AnswersAreCurrent'
  BY <1>1, <1>6 DEF AnswersAreCurrent, Moving
<1>10. Agreed'
  <2>1. ASSUME NEW b \in Account \ raced, b # a
        PROVE  /\ file'[b] \in {None, known[b]}
               /\ \A d \in Client : Owner[d] = b /\ use'[d] \in Active /\ ready'[d] =>
                     mem'[d] = known[b] /\ file'[b] = known[b]
    BY <1>1, <1>2, <1>4, <2>1 DEF Aligned, Agreed
  <2>2. a \notin raced =>
           /\ file'[a] = known[a]
           /\ \A d \in Client : Owner[d] = a /\ use'[d] \in Active /\ ready'[d] =>
                 mem'[d] = known[a]
    BY <1>1, <1>2, <1>5
  <2> QED
    BY <1>1, <2>1, <2>2 DEF Agreed
<1> QED
  BY <1>7, <1>8, <1>9, <1>10 DEF Aligned

LEMMA StartsAloneStays ==
    ASSUME Typed, StartsAlone, [Next]_vars
    PROVE  StartsAlone'
<1> USE OwnerAssumption, NoneAssumption
<1>a. \A t \in Task : pc[t] # "idle" => cl[t] \in Client
  BY DEF Typed, TypeOK
\* One task works for a client that does not start or for which it worked before;
\* clients that start have started before.
<1>b. ASSUME NEW t \in Task,
             \A u \in Task \ {t} : pc'[u] = pc[u] /\ cl'[u] = cl[u],
             \A d \in Client : use'[d] = "starting" <=> use[d] = "starting",
             \/ pc'[t] = "idle" /\ cl'[t] = None
             \/ /\ pc'[t] # "idle" /\ cl'[t] = cl[t] /\ pc[t] # "idle"
                /\ pc'[t] \in {"commit", "nap", "probe"} => use[cl[t]] = "starting"
             \/ /\ cl'[t] \in Client /\ use[cl'[t]] # "starting"
                /\ pc'[t] \notin {"commit", "nap", "probe"}
      PROVE  StartsAlone'
  <2>1. ASSUME NEW u \in Task
        PROVE  pc'[u] \in {"commit", "nap", "probe"} => use'[cl'[u]] = "starting"
    <3>1. CASE u = t
      BY <1>a, <1>b, <3>1
    <3>2. CASE u # t
      BY <1>a, <1>b, <3>2 DEF StartsAlone
    <3> QED
      BY <3>1, <3>2
  <2>2. ASSUME NEW u \in Task, NEW v \in Task \ {u},
               pc'[u] # "idle", use'[cl'[u]] = "starting", cl'[v] = cl'[u]
        PROVE  FALSE
    <3>1. CASE u = t
      BY <1>a, <1>b, <2>2, <3>1 DEF StartsAlone
    <3>2. CASE u # t
      BY <1>a, <1>b, <2>2, <3>2 DEF StartsAlone
    <3> QED
      BY <3>1, <3>2
  <2> QED
    BY <2>1, <2>2 DEF StartsAlone
<1>1. ASSUME NEW t \in Task, NEW c \in Client, UserStarts(t, c) PROVE StartsAlone'
  <2>1. /\ pc'[t] = "commit" /\ cl'[t] = c /\ use'[c] = "starting"
        /\ \A u \in Task \ {t} : pc'[u] = pc[u] /\ cl'[u] = cl[u] /\ cl[u] # c
        /\ \A d \in Client \ {c} : use'[d] = use[d]
    BY <1>1 DEF UserStarts, Becomes, Typed, TypeOK
  <2> QED
    BY <1>a, <2>1 DEF StartsAlone
<1>2. ASSUME NEW t \in Task, TokenSaved(t) PROVE StartsAlone'
  BY <1>2, <1>a, <1>b DEF TokenSaved, StartsAlone, Typed, TypeOK
<1>c. ASSUME NEW t \in Task, NEW c \in Client, NEW p \in {"idle", "probe"}, NEW f,
             InitEcdsa(t, c, f, p)
      PROVE  /\ \A u \in Task \ {t} : pc'[u] = pc[u] /\ cl'[u] = cl[u]
             /\ \/ pc'[t] = "idle" /\ cl'[t] = None
                \/ pc'[t] = "probe" /\ cl'[t] = c /\ p = "probe"
                \/ pc'[t] = "sent" /\ cl'[t] = c
  BY <1>c DEF InitEcdsa, Becomes, Typed, TypeOK
<1>3. ASSUME NEW t \in Task, NapEnds(t) PROVE StartsAlone'
  BY <1>3, <1>a, <1>b, <1>c DEF NapEnds, StartsAlone
<1>4. ASSUME NEW t \in Task, ProbeOk(t) \/ StartFails(t) PROVE StartsAlone'
  <2> DEFINE c == cl[t]
  <2>1. /\ c \in Client /\ use[c] = "starting" /\ pc'[t] = "idle" /\ cl'[t] = None
        /\ use'[c] # "starting" /\ \A d \in Client \ {c} : use'[d] = use[d]
        /\ \A u \in Task \ {t} : pc'[u] = pc[u] /\ cl'[u] = cl[u] /\ cl[u] # c
    BY <1>4, <1>a DEF ProbeOk, StartFails, Ends, Becomes, StartsAlone, Typed, TypeOK
  <2> HIDE DEF c
  <2> QED
    BY <1>a, <2>1 DEF StartsAlone
<1>5. ASSUME NEW t \in Task, RegisterFails(t) PROVE StartsAlone'
  <2> DEFINE c == cl[t]
  <2>1. /\ c \in Client /\ pc[t] # "idle" /\ pc'[t] = "idle" /\ cl'[t] = None
        /\ \A d \in Client \ {c} : use'[d] = use[d]
        /\ \A u \in Task \ {t} : pc'[u] = pc[u] /\ cl'[u] = cl[u]
    BY <1>5, <1>a DEF RegisterFails, Ends, Becomes, Typed, TypeOK
  <2>2. use[c] = "starting" => use'[c] = "free" /\ \A u \in Task \ {t} : cl[u] # c
    BY <1>5, <2>1 DEF RegisterFails, StartsAlone, Typed, TypeOK
  <2>3. use[c] # "starting" => use' = use
    BY <1>5 DEF RegisterFails
  <2> HIDE DEF c
  <2>4. CASE use[c] = "starting"
    BY <1>a, <2>1, <2>2, <2>4 DEF StartsAlone
  <2>5. CASE use[c] # "starting"
    BY <1>b, <2>1, <2>3, <2>5
  <2> QED
    BY <2>4, <2>5
<1>6. ASSUME NEW c \in Client, UserStops(c) \/ TempCloses(c) PROVE StartsAlone'
  <2>1. /\ use[c] # "starting" /\ use'[c] = "free" /\ \A d \in Client \ {c} : use'[d] = use[d]
        /\ UNCHANGED <<pc, cl>>
    BY <1>6 DEF UserStops, TempCloses, Engine, tasks, Typed, TypeOK
  <2> QED
    BY <1>a, <2>1 DEF StartsAlone
<1>7. ASSUME NEW t \in Task, Registers(t) PROVE StartsAlone'
  BY <1>7, <1>a, <1>b DEF Registers, clients, Typed, TypeOK
<1>8. ASSUME NEW t \in Task, RegisterOk(t) PROVE StartsAlone'
  <2>1. /\ use' = use /\ pc[t] # "idle"
        /\ \A u \in Task \ {t} : pc'[u] = pc[u] /\ cl'[u] = cl[u]
        /\ \/ pc'[t] = "idle" /\ cl'[t] = None
           \/ pc'[t] = "probe" /\ cl'[t] = cl[t] /\ use[cl[t]] = "starting"
    BY <1>8 DEF RegisterOk, Ends, Becomes, Typed, TypeOK
  <2> QED
    BY <1>b, <2>1
<1>9. ASSUME NEW t \in Task, NEW c \in Client, Calls(t, c) PROVE StartsAlone'
  BY <1>9, <1>b DEF Calls, clients, Typed, TypeOK
<1>10. ASSUME NEW t \in Task, CallEnds(t) \/ Rejected(t) PROVE StartsAlone'
  <2>1. /\ use' = use /\ pc[t] # "idle"
        /\ \A u \in Task \ {t} : pc'[u] = pc[u] /\ cl'[u] = cl[u]
        /\ \/ pc'[t] = "idle" /\ cl'[t] = None
           \/ pc'[t] = "callback" /\ cl'[t] = cl[t]
    BY <1>10 DEF CallEnds, Rejected, clients, Ends, Becomes, Typed, TypeOK
  <2> QED
    BY <1>b, <2>1
<1>11. ASSUME NEW t \in Task, NEW u \in Task \ {t}, RejectedAccept(t, u) PROVE StartsAlone'
  <2>1. /\ use' = use /\ cl[t] \in Client /\ use[cl[t]] = "engine"
        /\ pc'[t] = "sent" /\ cl'[t] = cl[t] /\ pc'[u] = "callback" /\ cl'[u] = cl[t]
        /\ \A v \in Task \ {t, u} : pc'[v] = pc[v] /\ cl'[v] = cl[v]
    BY <1>11, <1>a DEF RejectedAccept, Engine, Typed, TypeOK
  <2> QED
    BY <1>a, <2>1 DEF StartsAlone
<1>12. ASSUME NEW t \in Task, Callback(t) PROVE StartsAlone'
  BY <1>12, <1>a, <1>b, <1>c DEF Callback, Renew
<1>13. ASSUME NEW t \in Task, NEW c \in Client, Regenerates(t, c) \/ Ensures(t, c)
       PROVE  StartsAlone'
  <2>1. use' = use /\ use[c] = "engine" /\ \E f : InitEcdsa(t, c, f, "idle")
    BY <1>13 DEF Regenerates, Ensures, Renew, Engine
  <2> QED
    BY <1>b, <1>c, <2>1
<1>14. ASSUME NEW t \in Task, NEW c \in Client, TempOpens(t, c) PROVE StartsAlone'
  <2>1. \A d \in Client : use'[d] = "starting" <=> use[d] = "starting"
    BY <1>14 DEF TempOpens, Typed, TypeOK
  <2> QED
    BY <1>14, <1>b, <1>c, <2>1 DEF TempOpens
<1>15. CASE Crash
  BY <1>15 DEF Crash, StartsAlone
<1>16. CASE UNCHANGED vars
  BY <1>16 DEF vars, clients, tasks, StartsAlone
<1> QED
  BY <1>1, <1>2, <1>3, <1>4, <1>5, <1>6, <1>7, <1>8, <1>9, <1>10, <1>11, <1>12,
     <1>13, <1>14, <1>15, <1>16
  DEF Next, TaskStep, Request

LEMMA AlignedSteps ==
    ASSUME Typed, Aligned, StartsAlone, [Next]_vars
    PROVE  Aligned'
<1> USE OwnerAssumption, NoneAssumption
<1>0. Typed'
  BY TypedStep
<1>a. \A t \in Task : pc[t] # "idle" => cl[t] \in Client
  BY DEF Typed, TypeOK
\* A task that ends or waits, and clients that get no key.
<1>b. ASSUME NEW t \in Task, UNCHANGED <<file, known, raced>>,
             \A u \in Task \ {t} : SameTask(u), pc'[t] \notin Moving,
             UNCHANGED <<mem, ready>>,
             \A d \in Client : use'[d] \in Active => use[d] \in Active
      PROVE  Aligned'
  BY <1>0, <1>b, RestsAligned DEF Rests
<1>c. ASSUME NEW c \in Client, DeleteKey(c)
      PROVE  /\ file'[Owner[c]] = None
             /\ \A a \in Account : a # Owner[c] => file'[a] = file[a]
             /\ ~ready'[c]
             /\ \A d \in Client \ {c} : mem'[d] = mem[d] /\ ready'[d] = ready[d]
  BY <1>c DEF DeleteKey, Without, Typed, TypeOK, File
<1>1. ASSUME NEW t \in Task, NEW c \in Client, UserStarts(t, c) PROVE Aligned'
  <2>1. /\ DeleteKey(c) /\ Replaces(t, c) /\ known' = known
        /\ pc'[t] = "commit" /\ cl'[t] = c /\ \A u \in Task \ {t} : SameTask(u)
        /\ \A d \in Client \ {c} : use'[d] = use[d]
    BY <1>1 DEF UserStarts, Becomes, SameTask, Typed, TypeOK
  <2>2. Begins(t, c)
    BY <1>c, <2>1 DEF Begins
  <2> QED
    BY <2>2, BeginsAligned
<1>2. ASSUME NEW t \in Task, TokenSaved(t) PROVE Aligned'
  BY <1>2, TokenSavedAligned
<1>3. ASSUME NEW t \in Task, NapEnds(t) PROVE Aligned'
  BY <1>0, <1>3, <1>a, InitEcdsaAligned DEF NapEnds
<1>4. ASSUME NEW t \in Task, ProbeOk(t) \/ StartFails(t) \/ RegisterFails(t) PROVE Aligned'
  <2>1. /\ UNCHANGED <<file, known, raced, mem, ready>>
        /\ \A u \in Task \ {t} : SameTask(u)
        /\ pc'[t] = "idle"
    BY <1>4 DEF ProbeOk, StartFails, RegisterFails, Ends, Becomes, SameTask, Typed, TypeOK
  <2>2. \A d \in Client : use'[d] \in Active => use[d] \in Active
    BY <1>4 DEF ProbeOk, StartFails, RegisterFails, Active, StartsAlone, Typed, TypeOK
  <2>3. pc'[t] \notin Moving
    BY <2>1 DEF Moving
  <2> QED
    BY <1>b, <2>1, <2>2, <2>3
<1>5. ASSUME NEW c \in Client, UserStops(c) \/ TempCloses(c) PROVE Aligned'
  <2>1. /\ UNCHANGED <<file, known, raced>> /\ \A u \in Task : SameTask(u)
        /\ use'[c] = "free" /\ \A d \in Client \ {c} : use'[d] = use[d]
        /\ \A d \in Client \ {c} : mem'[d] = mem[d] /\ ready'[d] = ready[d]
        /\ (mem'[c] = mem[c] /\ ready'[c] = ready[c]) \/ ~ready'[c]
    BY <1>5 DEF UserStops, TempCloses, tasks, SameTask, Typed, TypeOK
  <2>2. Rests
    BY <2>1 DEF Rests, Active
  <2> QED
    BY <1>0, <2>2, RestsAligned
<1>6. ASSUME NEW t \in Task, Registers(t) PROVE Aligned'
  BY <1>6, RegistersAligned
<1>7. ASSUME NEW t \in Task, RegisterOk(t) PROVE Aligned'
  BY <1>7, RegisterOkAligned
<1>8. ASSUME NEW t \in Task, NEW c \in Client, Calls(t, c) PROVE Aligned'
  BY <1>8, <1>b DEF Calls, clients, SameTask, Moving, Typed, TypeOK
<1>9. ASSUME NEW t \in Task, CallEnds(t) \/ Rejected(t) PROVE Aligned'
  <2>1. UNCHANGED <<file, known, raced, mem, ready, use>> /\ pc'[t] \in {"idle", "callback"}
        /\ \A u \in Task \ {t} : SameTask(u)
    BY <1>9 DEF CallEnds, Rejected, clients, Ends, Becomes, SameTask, Typed, TypeOK
  <2> QED
    BY <1>b, <2>1 DEF Moving
<1>10. ASSUME NEW t \in Task, NEW u \in Task \ {t}, RejectedAccept(t, u) PROVE Aligned'
  <2> DEFINE c == cl[t]
  <2>1. /\ c \in Client /\ DeleteKey(c) /\ Replaces(t, c) /\ UNCHANGED <<known, use>>
        /\ pc'[t] = "sent" /\ cl'[t] = c /\ store'[t] = file' /\ pc'[u] = "callback"
    BY <1>10, <1>a DEF RejectedAccept, Typed, TypeOK
  <2>2. \A v \in Task \ {t, u} : SameTask(v)
    BY <1>10 DEF RejectedAccept, Generates, SameTask, Typed, TypeOK
  <2> HIDE DEF c
  <2>3. Begins(t, c)
    BY <1>c, <2>1, <2>2 DEF Begins, Moving
  <2> QED
    BY <2>1, <2>3, BeginsAligned
<1>11. ASSUME NEW t \in Task, Callback(t) PROVE Aligned'
  BY <1>0, <1>11, <1>a, InitEcdsaAligned DEF Callback, Renew
<1>12. ASSUME NEW t \in Task, NEW c \in Client, Regenerates(t, c) \/ Ensures(t, c)
       PROVE  Aligned'
  BY <1>0, <1>12, InitEcdsaAligned DEF Regenerates, Ensures, Renew
<1>13. ASSUME NEW t \in Task, NEW c \in Client, TempOpens(t, c) PROVE Aligned'
  <2>1. \A d \in Client : use'[d] \in Active => use[d] \in Active
    BY <1>13 DEF TempOpens, Active, Typed, TypeOK
  <2> QED
    BY <1>0, <1>13, <2>1, InitEcdsaAligned DEF TempOpens
<1>14. CASE Crash
  <2>1. Rests
    BY <1>14 DEF Crash, Rests, Moving
  <2> QED
    BY <1>0, <2>1, RestsAligned
<1>15. CASE UNCHANGED vars
  <2>1. Rests
    BY <1>15 DEF vars, clients, tasks, Rests, SameTask
  <2> QED
    BY <1>0, <2>1, RestsAligned
<1> QED
  BY <1>1, <1>2, <1>3, <1>4, <1>5, <1>6, <1>7, <1>8, <1>9, <1>10, <1>11, <1>12,
     <1>13, <1>14, <1>15
  DEF Next, TaskStep, Request

\* An account whose replacements of keys have met no other: its entry of the file
\* is the key the game knows or none, and a ready engine signs with that key; for
\* any number of accounts and clients, and whatever fails or crashes.
THEOREM AgreementCorrect == Spec => []Agreement
<1>1. Init => Typed /\ Aligned /\ StartsAlone
  BY InitTyped, InitAligned
<1>2. Typed /\ Aligned /\ StartsAlone /\ [Next]_vars => (Typed /\ Aligned /\ StartsAlone)'
  BY TypedStep, AlignedSteps, StartsAloneStays
<1>3. Aligned => Agreement
  BY DEF Aligned, Agreed, Agreement, Active, Engine
<1> QED
  BY <1>1, <1>2, <1>3, PTL DEF Spec
=============================================================================
