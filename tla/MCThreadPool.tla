---------------------------- MODULE MCThreadPool ----------------------------
(* Small instances of a thread pool for TLC. *)
EXTENDS ThreadPool, TLC

ClientSymmetry == Permutations(Clients)
=============================================================================
