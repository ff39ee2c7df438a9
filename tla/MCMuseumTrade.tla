---------------------------- MODULE MCMuseumTrade ----------------------------
(* Small instances of MuseumTrade for TLC. *)
EXTENDS MuseumTrade, TLC

CONSTANTS a1, a2, outsider

GameTrade(i, p, q, o) == [id |-> i, from |-> p, to |-> q, own |-> o]

\* The program's alone, for runs where synchronisations overlap.
Single == {GameTrade(1, a1, a2, TRUE)}

\* One of the program's, one that a player proposes by hand.
Opposite == {GameTrade(1, a1, a2, TRUE), GameTrade(2, a2, a1, FALSE)}

\* One a stranger proposes.
Foreign == {GameTrade(1, outsider, a1, FALSE)}

Identical == Permutations(Row)
=============================================================================
