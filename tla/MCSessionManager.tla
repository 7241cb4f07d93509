-------------------------- MODULE MCSessionManager --------------------------
(***************************************************************************)
(* Model checking of SessionManager: callers are interchangeable.          *)
(***************************************************************************)
EXTENDS SessionManager, TLC

Symmetry == Permutations(Callers)
=============================================================================
