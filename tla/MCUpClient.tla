----------------------------- MODULE MCUpClient -----------------------------
(***************************************************************************)
(* Model checking of UpClient: the threads are interchangeable.            *)
(***************************************************************************)
EXTENDS UpClient, TLC

Symmetry == Permutations(Threads)
=============================================================================
