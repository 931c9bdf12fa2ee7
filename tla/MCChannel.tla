----------------------------- MODULE MCChannel -----------------------------
(* Small instances of the channel pool for TLC. *)
EXTENDS Channel, TLC

ThreadSymmetry == Permutations(Threads)
=============================================================================
