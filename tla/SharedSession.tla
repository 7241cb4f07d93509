--------------------------- MODULE SharedSession ---------------------------
(***************************************************************************)
(* What ZenohSessionManager promises its callers: one session, opened      *)
(* before the first of them is told OK, the same session for all of them,  *)
(* and closed only when the last has let go.                               *)
(***************************************************************************)
EXTENDS Naturals

CONSTANT Callers

VARIABLES
  holders,  (* the callers that hold the session                           *)
  current,  (* the open session, 0 when there is none                      *)
  last      (* the latest session ever opened                              *)

vars == <<holders, current, last>>

Init == holders = {} /\ current = 0 /\ last = 0

Open ==
  /\ holders = {}
  /\ current = 0
  /\ last' = last + 1
  /\ current' = last'
  /\ UNCHANGED holders

Acquire(x) ==
  /\ current # 0
  /\ holders' = holders \cup {x}
  /\ UNCHANGED <<current, last>>

Release(x) ==
  /\ x \in holders
  /\ holders' = holders \ {x}
  /\ UNCHANGED <<current, last>>

Close ==
  /\ holders = {}
  /\ current' = 0
  /\ UNCHANGED <<holders, last>>

Next ==
  \/ Open \/ Close
  \/ \E x \in Callers : Acquire(x) \/ Release(x)

Spec == Init /\ [][Next]_vars
=============================================================================
