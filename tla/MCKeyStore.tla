----------------------------- MODULE MCKeyStore -----------------------------
(* A small instance of KeyStore for TLC. *)
EXTENDS KeyStore, TLC

CONSTANTS a1, b1, c1, c2, d1

\* Two clients of one account, so that an old one meets its successor.
Owners == [c \in Client |-> IF c = d1 THEN b1 ELSE a1]

\* Keys and coroutines are identities and nothing else.
Alike == Permutations(Key) \cup Permutations(Task)
=============================================================================
