------------------------------ MODULE MCQueries ------------------------------
(***************************************************************************)
(* Model checking of Queries: requests, ids, listeners and responders are  *)
(* interchangeable.                                                        *)
(***************************************************************************)
EXTENDS Queries, TLC

Symmetry ==
  Permutations(Requests) \cup Permutations(Ids) \cup Permutations(Queryables) \cup Permutations(Responders)
==============================================================================
