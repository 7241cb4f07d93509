---------------------------- MODULE MCPublishers ----------------------------
(***************************************************************************)
(* Model checking of Publishers: threads are interchangeable.              *)
(***************************************************************************)
EXTENDS Publishers, TLC

Symmetry == Permutations(Threads)
=============================================================================
