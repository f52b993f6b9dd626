--------------------------- MODULE MCBatchCommand ---------------------------
(* Small instances of BatchCommand: see the configurations. *)
EXTENDS BatchCommand, TLC

ServerSymmetry == Permutations(Servers)
=============================================================================
