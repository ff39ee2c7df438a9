-------------------------- MODULE MCEngineLifecycle --------------------------
(* Small instances of EngineLifecycle for TLC. *)
EXTENDS EngineLifecycle, TLC

Identical == Permutations(Engine) \cup Permutations(Stopper)
=============================================================================
