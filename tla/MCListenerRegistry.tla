------------------------- MODULE MCListenerRegistry -------------------------
(***************************************************************************)
(* Model checking of ListenerRegistry: threads and listeners are           *)
(* interchangeable.                                                        *)
(***************************************************************************)
EXTENDS ListenerRegistry, TLC

Symmetry == Permutations(Threads) \cup Permutations(Listeners)
=============================================================================
