----------------------------- MODULE Publishers -----------------------------
(***************************************************************************)
(* send() of ZenohUTransport for a topic: sendPublish() keeps one zenoh    *)
(* publisher per URI in pubHandleMap_, looks for it without a mutex, and   *)
(* declares it under pubInitMutex_ when it did not find it.  The second    *)
(* look, under the mutex, compares the iterator of the first with end():   *)
(* both are local or constant, so it always agrees with the first.         *)
(***************************************************************************)
EXTENDS Integers, FiniteSets

CONSTANTS
  Threads,      (* the threads that publish                                *)
  NoOne,        (* the owner of a free pubInitMutex_                       *)
  Uris,         (* the topics they publish on                              *)
  MaxDeclares   (* bounds the declarations tried in a behaviour            *)

ASSUME NoOneApart     == NoOne \notin Threads
ASSUME ThreadsFinite  == IsFiniteSet(Threads)
ASSUME SomeUri        == Uris # {}
ASSUME MaxDeclaresNat == MaxDeclares \in Nat

NoHandle == 0
Handles  == 1..MaxDeclares

VARIABLES
  pubHandleMap,  (* the publisher of each URI, NoHandle when it has none   *)
  lock,          (* who holds pubInitMutex_                                *)
  at,            (* where each thread is                                   *)
  uri,           (* the URI of its call                                    *)
  pub,           (* the publisher its call will use                        *)
  status,        (* what its last call returned                            *)
  declared,      (* external: the publishers zenoh has, with their URIs    *)
  declares,      (* external: how many declarations were tried             *)
  destroyed,     (* the destructor has run                                 *)
  bothMissed,    (* history: two calls had missed the same URI at once     *)
  torn           (* history: a find() ran while a key was being inserted   *)

calls   == <<lock, at, uri, pub, status>>
zenoh   == <<declared, declares>>
vars    == <<pubHandleMap, calls, zenoh, destroyed, bothMissed, torn>>

Pcs == {"idle", "find", "lock", "store", "put"}

TypeOK ==
  /\ pubHandleMap \in [Uris -> Handles \cup {NoHandle}]
  /\ lock \in Threads \cup {NoOne}
  /\ at \in [Threads -> Pcs]
  /\ uri \in [Threads -> Uris]
  /\ pub \in [Threads -> Handles \cup {NoHandle}]
  /\ status \in [Threads -> {"none", "OK", "UNAVAILABLE", "INVALID_ARGUMENT", "INTERNAL"}]
  /\ declared \subseteq Handles \X Uris
  /\ declares \in 0..MaxDeclares
  /\ destroyed \in BOOLEAN /\ bothMissed \in BOOLEAN /\ torn \in BOOLEAN
  /\ \A t \in Threads : lock = t <=> at[t] = "store"

Init ==
  /\ pubHandleMap = [u \in Uris |-> NoHandle]
  /\ lock = NoOne
  /\ at = [t \in Threads |-> "idle"]
  /\ uri \in [Threads -> {CHOOSE u \in Uris : TRUE}]
  /\ pub = [t \in Threads |-> NoHandle]
  /\ status = [t \in Threads |-> "none"]
  /\ declared = {}
  /\ declares = 0
  /\ destroyed = FALSE
  /\ bothMissed = FALSE
  /\ torn = FALSE

Goto(t, l) == at' = [at EXCEPT ![t] = l]

Return(t, code) ==
  /\ Goto(t, "idle")
  /\ status' = [status EXCEPT ![t] = code]
  /\ pub' = [pub EXCEPT ![t] = NoHandle]

(* send(): an empty payload, or a message that is no publication, goes no  *)
(* further.                                                                *)
Send(t, u) ==
  /\ at[t] = "idle" /\ ~destroyed
  /\ \/ /\ uri' = [uri EXCEPT ![t] = u]
        /\ status' = [status EXCEPT ![t] = "none"]
        /\ Goto(t, "find")
     \/ /\ \E code \in {"UNAVAILABLE", "INVALID_ARGUMENT"} : status' = [status EXCEPT ![t] = code]
        /\ UNCHANGED <<uri, at>>
  /\ UNCHANGED <<pubHandleMap, lock, pub, zenoh, destroyed>>

(* A find() that runs during an insertion may miss a key that is there.    *)
Inserting == \E t \in Threads : at[t] = "store" /\ pubHandleMap[uri[t]] = NoHandle

Find(t) ==
  LET known == pubHandleMap[uri[t]] IN
  /\ at[t] = "find"
  /\ \/ /\ known # NoHandle
        /\ pub' = [pub EXCEPT ![t] = known]
        /\ Goto(t, "put")
     \/ /\ known = NoHandle \/ Inserting
        /\ Goto(t, "lock")
        /\ UNCHANGED pub
  /\ UNCHANGED <<pubHandleMap, lock, uri, status, zenoh, destroyed>>

(* Mutant: pubInitMutex_ is released before the publisher is stored. *)
Releases(t) == UNCHANGED lock

Holds(t) == lock' = t

(* Mutant: the handle is not checked. *)
Unchecked(t) ==
  /\ pub' = [pub EXCEPT ![t] = declares'] /\ lock' = t
  /\ Goto(t, "store")
  /\ UNCHANGED status

Refused(t) == Return(t, "UNAVAILABLE") /\ UNCHANGED lock

(* Under pubInitMutex_, whatever another thread has stored meanwhile.      *)
Declare(t) ==
  /\ at[t] = "lock" /\ lock = NoOne
  /\ declares' = declares + 1
  /\ \/ /\ declared' = declared \cup {<<declares', uri[t]>>}
        /\ pub' = [pub EXCEPT ![t] = declares']
        /\ Holds(t)
        /\ Goto(t, "store")
        /\ UNCHANGED status
     \/ Refused(t) /\ UNCHANGED declared
  /\ UNCHANGED <<pubHandleMap, uri, destroyed>>

(* Mutant: the publisher is not remembered. *)
MapAsIs(t) == pubHandleMap

MapWith(t) == [pubHandleMap EXCEPT ![uri[t]] = pub[t]]

Store(t) ==
  /\ at[t] = "store"
  /\ pubHandleMap' = MapWith(t)
  /\ lock' = NoOne
  /\ Goto(t, "put")
  /\ UNCHANGED <<uri, pub, status, zenoh, destroyed>>

(* The header is built and the message put; an empty header is INTERNAL,   *)
(* an unknown serialization hint, or zenoh refusing it, UNAVAILABLE.       *)
Put(t) ==
  /\ at[t] = "put"
  /\ \E code \in {"OK", "UNAVAILABLE", "INTERNAL"} : Return(t, code)
  /\ UNCHANGED <<pubHandleMap, lock, uri, zenoh, destroyed>>

(* Mutant: the map is cleared before it is walked. *)
NoneInMap == {}

InMap == {pubHandleMap[u] : u \in Uris}

(* The destructor undeclares the publishers of the map. *)
Destroy ==
  /\ ~destroyed
  /\ \A t \in Threads : at[t] = "idle"
  /\ destroyed' = TRUE
  /\ declared' = {d \in declared : d[1] \notin InMap}
  /\ pubHandleMap' = [u \in Uris |-> NoHandle]
  /\ UNCHANGED <<calls, declares>>

(* The bound leaves a handle for every call that may still declare one. *)
Undecided  == {t \in Threads : at[t] \in {"find", "lock"}}
MayDeclare == declares + Cardinality(Undecided) < MaxDeclares

Step(t) ==
  \/ \E u \in Uris : MayDeclare /\ Send(t, u)
  \/ Find(t) \/ Declare(t) \/ Store(t) \/ Put(t)

Resting == (\A t \in Threads : at[t] = "idle") /\ UNCHANGED <<pubHandleMap, calls, zenoh, destroyed>>

BothMissing ==
  \E t, u \in Threads : t # u /\ uri[t] = uri[u] /\ at[t] = "lock" /\ at[u] \in {"lock", "store"}

Next ==
  /\ (\E t \in Threads : Step(t)) \/ Destroy \/ Resting
  /\ bothMissed' = (bothMissed \/ BothMissing')
  /\ torn' = (torn \/ (Inserting /\ \E t \in Threads : at[t] = "find" /\ at'[t] # "find"))

Spec == Init /\ [][Next]_vars

-----------------------------------------------------------------------------
(* Properties *)

Of(u) == {d \in declared : d[2] = u}

(* The publisher a call is about to use is one zenoh has, though another   *)
(* call may have replaced it in the map since.                             *)
PutDeclared ==
  \A t \in Threads : at[t] \in {"store", "put"} => <<pub[t], uri[t]>> \in declared

(* Losing the race for a new URI costs a publisher, but no thread loses it *)
(* twice for the same URI: a URI has at most one publisher per thread.     *)
LeakBounded == ~torn => \A u \in Uris : Cardinality(Of(u)) <= Cardinality(Threads)

(* Unless two calls missed a URI at once, the map has every publisher that *)
(* zenoh has, and the destructor leaves none.                              *)
NoPublisherLost ==
  ~bothMissed /\ ~torn => \A d \in declared :
    pubHandleMap[d[2]] = d[1] \/ \E t \in Threads : at[t] = "store" /\ pub[t] = d[1]
=============================================================================
