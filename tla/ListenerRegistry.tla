-------------------------- MODULE ListenerRegistry --------------------------
(***************************************************************************)
(* The listeners of ZenohUTransport: registerListener(), which runs under  *)
(* subInitMutex_, unregisterListener(), which takes no mutex, the callbacks *)
(* SubHandler and QueryHandler, and the destructor.                        *)
(*                                                                         *)
(* A ListenerContainer holds the listeners of a URI and, index by index,   *)
(* the zenoh handles declared for them: subscribers for a topic, queryables *)
(* for a method.  The steps of a call are its accesses to the container    *)
(* and its calls into zenoh.  A handle is the number of its declaration.   *)
(***************************************************************************)
EXTENDS Integers, FiniteSets, Sequences, SequencesExt

CONSTANTS
  Threads,       (* the threads that use the transport                     *)
  NoOne,         (* the owner of a free subInitMutex_                      *)
  Topics,        (* URIs of topics                                         *)
  Methods,       (* URIs for which isRPCMethod() is true                   *)
  Listeners,
  Messages,      (* the samples and queries that arrive                    *)
  RacesAllowed,  (* may unregisterListener() run beside a call on its data *)
  MaxDeclares    (* bounds the declarations tried in a behaviour           *)

ASSUME NoOneApart     == NoOne \notin Threads
ASSUME ThreadsFinite  == IsFiniteSet(Threads)
ASSUME KindsApart     == Topics \cap Methods = {}
ASSUME RacesBoolean   == RacesAllowed \in BOOLEAN
ASSUME MaxDeclaresNat == MaxDeclares \in Nat

VARIABLES
  inMap,       (* the keys of listenerMap_                                 *)
  listenersOf, (* listenerVector_ of the container of each URI             *)
  handlesOf,   (* its subVector_, or queryVector_ for a method             *)
  lock,        (* who holds subInitMutex_                                  *)
  at,          (* where each thread is                                     *)
  op,          (* the arguments of its call, and the handle or index found *)
  status,      (* what its last call returned                              *)
  declared,    (* external: the subscribers and queryables zenoh serves    *)
  declares,    (* external: how many declarations were tried               *)
  arrived,     (* external: the messages that have arrived                 *)
  owed,        (* external: the callbacks zenoh has still to finish        *)
  heard,       (* history: the calls of onReceive                          *)
  destroyed    (* the destructor has run                                   *)

registry  == <<inMap, listenersOf, handlesOf>>
calls     == <<lock, at, op, status>>
traffic   == <<arrived, owed, heard>>
vars      == <<registry, calls, declared, declares, traffic, destroyed>>

Uris          == Topics \cup Methods
RegisterPcs   == {"regLock", "regDeclare", "regStore"}
UnregisterPcs == {"unregFind", "unregErase", "unregUndeclare", "unregForget"}
Handles       == 1..MaxDeclares
Entities      == [handle : Handles, uri : Uris, listener : Listeners]
NoCall        == <<>>

TypeOK ==
  /\ inMap \subseteq Uris
  /\ listenersOf \in [Uris -> Seq(Listeners)]
  /\ handlesOf \in [Uris -> Seq(Handles)]
  /\ \A t \in Threads : lock = t <=> at[t] \in {"regDeclare", "regStore"}
  /\ at \in [Threads -> {"idle"} \cup RegisterPcs \cup UnregisterPcs]
  /\ op \in [Threads -> {NoCall} \cup [uri : Uris, listener : Listeners, num : Nat]]
  /\ status \in [Threads -> {"none", "OK", "INVALID_ARGUMENT", "INTERNAL"}]
  /\ declared \subseteq Entities /\ declares \in 0..MaxDeclares
  /\ arrived \subseteq Messages
  /\ owed \subseteq Messages \X Entities /\ heard \subseteq Messages \X Uris \X Listeners
  /\ destroyed \in BOOLEAN

Init ==
  /\ inMap = {}
  /\ listenersOf = [u \in Uris |-> <<>>]
  /\ handlesOf = [u \in Uris |-> <<>>]
  /\ lock = NoOne
  /\ at = [t \in Threads |-> "idle"]
  /\ op = [t \in Threads |-> NoCall]
  /\ status = [t \in Threads |-> "none"]
  /\ declared = {} /\ declares = 0
  /\ arrived = {} /\ owed = {} /\ heard = {}
  /\ destroyed = FALSE

Goto(t, l) == at' = [at EXCEPT ![t] = l]

(* Two calls race when one is an unregisterListener() and both work on one *)
(* container, or the other is about to insert a key into listenerMap_.     *)
Races(t, u, label) ==
  \E x \in Threads \ {t} :
    /\ at[x] # "idle" /\ ~(label = "regLock" /\ at[x] \in RegisterPcs)
    /\ \/ op[x].uri = u
       \/ label = "regLock" /\ u \notin inMap
       \/ at[x] \in RegisterPcs /\ op[x].uri \notin inMap

Start(t, u, l, label) ==
  /\ at[t] = "idle" /\ ~destroyed
  /\ RacesAllowed \/ ~Races(t, u, label)
  /\ op' = [op EXCEPT ![t] = [uri |-> u, listener |-> l, num |-> 0]]
  /\ status' = [status EXCEPT ![t] = "none"]
  /\ Goto(t, label)
  /\ UNCHANGED <<registry, lock, declared, declares, traffic, destroyed>>

Return(t, code) ==
  /\ status' = [status EXCEPT ![t] = code]
  /\ op' = [op EXCEPT ![t] = NoCall]
  /\ Goto(t, "idle")

(* Is the listener at some index of the container of the URI, and where? *)
IsSet(u, l)   == u \in inMap /\ l \in ToSet(listenersOf[u])
IndexOf(u, l) == CHOOSE i \in DOMAIN listenersOf[u] :
                   listenersOf[u][i] = l /\ \A j \in 1..(i - 1) : listenersOf[u][j] # l

-----------------------------------------------------------------------------
(* registerListener() *)

RegLock(t) ==
  /\ at[t] = "regLock" /\ lock = NoOne
  /\ \/ IsSet(op[t].uri, op[t].listener) /\ Return(t, "INVALID_ARGUMENT") /\ UNCHANGED lock
     \/ /\ ~IsSet(op[t].uri, op[t].listener)
        /\ lock' = t
        /\ Goto(t, "regDeclare")
        /\ UNCHANGED <<op, status>>
  /\ UNCHANGED <<registry, declared, declares, traffic, destroyed>>

(* Mutant: subInitMutex_ is not released. *)
KeepLock == UNCHANGED lock

Unlock == lock' = NoOne

(* zenoh serves a declaration before the container knows its handle.       *)
RegDeclare(t) ==
  /\ at[t] = "regDeclare"
  /\ declares' = declares + 1
  /\ \/ /\ declared' = declared \cup
             {[handle |-> declares', uri |-> op[t].uri, listener |-> op[t].listener]}
        /\ op' = [op EXCEPT ![t].num = declares']
        /\ Goto(t, "regStore")
        /\ UNCHANGED <<lock, status>>
     \/ Return(t, "INTERNAL") /\ Unlock /\ UNCHANGED declared
  /\ UNCHANGED <<registry, traffic, destroyed>>

(* Both push_backs, and the container is (again) the one in listenerMap_.  *)
RegStore(t) ==
  LET u == op[t].uri IN
  /\ at[t] = "regStore"
  /\ handlesOf' = [handlesOf EXCEPT ![u] = Append(@, op[t].num)]
  /\ listenersOf' = [listenersOf EXCEPT ![u] = Append(@, op[t].listener)]
  /\ inMap' = inMap \cup {u}
  /\ Return(t, "OK") /\ Unlock
  /\ UNCHANGED <<declared, declares, traffic, destroyed>>

-----------------------------------------------------------------------------
(* unregisterListener() *)

(* An unknown listener on a known URI leaves the loop and returns OK. *)
UnregFind(t) ==
  LET u == op[t].uri  l == op[t].listener IN
  /\ at[t] = "unregFind"
  /\ \/ /\ IsSet(u, l)
        /\ op' = [op EXCEPT ![t].num = IndexOf(u, l)]
        /\ Goto(t, "unregErase")
        /\ UNCHANGED status
     \/ ~IsSet(u, l) /\ Return(t, IF u \in inMap THEN "OK" ELSE "INVALID_ARGUMENT")
  /\ UNCHANGED <<registry, lock, declared, declares, traffic, destroyed>>

(* Mutant: begin() is erased, not begin() + index. *)
ErasedFirst(s, i) == {Tail(s) : x \in DOMAIN s \cap {1}}

(* What erasing at an index may leave: past the end, which is undefined    *)
(* behaviour, the last element goes or none.                               *)
ErasedAt(s, i) == IF i \in DOMAIN s THEN {RemoveAt(s, i)} ELSE {s, Front(s)}

UnregErase(t) ==
  LET u == op[t].uri IN
  /\ at[t] = "unregErase"
  /\ \E s \in ErasedAt(listenersOf[u], op[t].num) : listenersOf' = [listenersOf EXCEPT ![u] = s]
  /\ Goto(t, "unregUndeclare")
  /\ UNCHANGED <<inMap, handlesOf, lock, op, status, declared, declares, traffic, destroyed>>

Served(u) == {e \in declared : e.uri = u}

(* Mutant: the first handle, whatever the index. *)
HandleFirst(t) == {handlesOf[op[t].uri][i] : i \in DOMAIN handlesOf[op[t].uri] \cap {1}}

(* The handle found at the index: past the end, which is undefined         *)
(* behaviour, what an earlier erase() left there, or none.                 *)
HandleAt(t) ==
  LET u == op[t].uri IN
  IF op[t].num \in DOMAIN handlesOf[u]
  THEN {handlesOf[u][op[t].num]} ELSE {0} \cup {e.handle : e \in Served(u)}

Undeclare(handles) == declared' = {e \in declared : e.handle \notin handles}

UnregUndeclare(t) ==
  /\ at[t] = "unregUndeclare"
  /\ \E h \in HandleAt(t) : Undeclare({h})
  /\ Goto(t, "unregForget")
  /\ UNCHANGED <<registry, lock, op, status, declares, traffic, destroyed>>

UnregForget(t) ==
  LET u == op[t].uri IN
  /\ at[t] = "unregForget"
  /\ \E s \in ErasedAt(handlesOf[u], op[t].num) : handlesOf' = [handlesOf EXCEPT ![u] = s]
  /\ Return(t, "OK")
  /\ UNCHANGED <<inMap, listenersOf, lock, declared, declares, traffic, destroyed>>

-----------------------------------------------------------------------------
(* Messages, and the destructor *)

(* External: zenoh owes a callback to every declaration for the URI. *)
Arrive(m, u) ==
  /\ m \notin arrived
  /\ arrived' = arrived \cup {m}
  /\ owed' = owed \cup {<<m, e>> : e \in {d \in declared : d.uri = u}}
  /\ UNCHANGED <<registry, calls, declared, declares, heard, destroyed>>

(* SubHandler() or QueryHandler(): a message whose header is missing or    *)
(* does not parse is passed over.  What else QueryHandler() does is in     *)
(* module Queries.                                                         *)
Handle(m, e) ==
  /\ <<m, e>> \in owed
  /\ owed' = owed \ {<<m, e>>}
  /\ heard' \in {heard, heard \cup {<<m, e.uri, e.listener>>}}
  /\ UNCHANGED <<registry, calls, declared, declares, arrived, destroyed>>

(* Mutant: only the first subscriber of a container. *)
FirstSubscribers == {handlesOf[u][1] : u \in {v \in Topics : handlesOf[v] # <<>>}}

Subscribers == UNION {ToSet(handlesOf[u]) : u \in Topics \cap inMap}

(* The destructor undeclares every subscriber in a container; queryables   *)
(* stay declared.  No thread is in a call of a transport being destroyed.  *)
Destroy ==
  /\ ~destroyed
  /\ \A t \in Threads : at[t] = "idle"
  /\ destroyed' = TRUE
  /\ Undeclare(Subscribers)
  /\ inMap' = {}
  /\ listenersOf' = [u \in Uris |-> <<>>]
  /\ handlesOf' = [u \in Uris |-> <<>>]
  /\ UNCHANGED <<calls, declares, traffic>>

-----------------------------------------------------------------------------
(* The bound leaves a handle for every call that may still declare one. *)
MayRegister == declares + Cardinality({t \in Threads : at[t] \in RegisterPcs}) < MaxDeclares

Step(t) ==
  \/ \E u \in Uris, l \in Listeners :
       \/ MayRegister /\ Start(t, u, l, "regLock")
       \/ Start(t, u, l, "unregFind")
  \/ RegLock(t) \/ RegDeclare(t) \/ RegStore(t)
  \/ UnregFind(t) \/ UnregErase(t) \/ UnregUndeclare(t) \/ UnregForget(t)

External ==
  \/ \E m \in Messages, u \in Uris : Arrive(m, u)
  \/ \E o \in owed : Handle(o[1], o[2])

(* The process may go on without the transport, or keep it idle. *)
Resting == (\A t \in Threads : at[t] = "idle") /\ UNCHANGED vars

Next == (\E t \in Threads : Step(t)) \/ External \/ Destroy \/ Resting

Spec == Init /\ [][Next]_vars

-----------------------------------------------------------------------------
(* Properties: the first three for calls that do not race *)

Quiet(u) == \A t \in Threads : op[t] = NoCall \/ op[t].uri # u

(* When no call works on a URI, zenoh serves exactly the listeners of its  *)
(* container, each under the handle at its own index, so that              *)
(* unregisterListener() finds it.                                          *)
RegistryMatchesZenoh ==
  ~destroyed => \A u \in Uris : Quiet(u) =>
    /\ Len(handlesOf[u]) = Len(listenersOf[u])
    /\ Served(u) = {[handle |-> handlesOf[u][i], uri |-> u, listener |-> listenersOf[u][i]] :
                      i \in DOMAIN listenersOf[u]}

(* The destructor leaves no subscriber behind that would call a listener.  *)
NoSubscriberOutlives == destroyed => \A u \in Topics : Served(u) = {}

Atomic == INSTANCE AtomicRegistry WITH
  served <- {<<e.uri, e.listener>> : e \in declared},
  known  <- inMap \cup {op[t].uri : t \in {x \in Threads : at[x] = "regStore"}},
  asked  <- [t \in Threads |->
               IF at[t] \in {"regLock", "regDeclare"} THEN <<"register", op[t].uri, op[t].listener>>
               ELSE IF at[t] \in UnregisterPcs \ {"unregForget"}
               THEN <<"unregister", op[t].uri, op[t].listener>> ELSE NoCall],
  answer <- [t \in Threads |-> IF at[t] \in {"regStore", "unregForget"} THEN "OK" ELSE status[t]],
  owed   <- {<<o[1], o[2].uri, o[2].listener>> : o \in owed},
  gone   <- destroyed

(* The calls are linearizable, registerListener() where it declares and    *)
(* unregisterListener() where it undeclares: the registry implements       *)
(* AtomicRegistry, in which a listener hears a message only if it was      *)
(* served when the message arrived, however late the callback.             *)
Linearizable == Atomic!Spec

(* "Messages arriving on this topic will no longer be processed by this    *)
(* listener" (zenohUTransport.h:75): when no call works on a topic, zenoh  *)
(* serves no listener that the container has given up.                     *)
UnregisteredNotServed ==
  ~destroyed => \A u \in Topics : Quiet(u) => \A e \in Served(u) : IsSet(u, e.listener)

=============================================================================
