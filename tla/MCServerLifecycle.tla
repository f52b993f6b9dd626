-------------------------- MODULE MCServerLifecycle --------------------------
(* Small instances of ServerLifecycle: see the configurations. *)
EXTENDS ServerLifecycle, TLC

SessionSymmetry == Permutations(Sessions)
=============================================================================
