------------------------------ MODULE UpClient ------------------------------
(***************************************************************************)
(* upZenohClient: the process-wide client, handed out by instance() as a   *)
(* shared_ptr and remembered in a weak_ptr.  Its two bases, ZenohUTransport *)
(* and ZenohRpcClient, each count themselves in at the ZenohSessionManager  *)
(* when they are built and out when they are destroyed.                    *)
(*                                                                         *)
(* A thread is in instance(), in the destructor of the client whose last   *)
(* shared_ptr it dropped, or outside, where it may send requests.  The     *)
(* steps of the session manager are those of SessionManager, its callers   *)
(* the bases of the clients.  What becomes of a request is in RpcClient;   *)
(* here it is in flight until its thread of the pool is done.              *)
(***************************************************************************)
EXTENDS Integers, FiniteSets

CONSTANTS
  Threads,       (* the threads of the process                             *)
  NoOne,         (* the owner of a free mutex                              *)
  OpenOutcomes,  (* what opening a session may do here                     *)
  MaxClients     (* bounds the clients built in a behaviour                *)

ASSUME NoOneApart     == NoOne \notin Threads
ASSUME ThreadsFinite  == IsFiniteSet(Threads)
ASSUME MaxClientsNat  == MaxClients \in Nat

Clients == 1..MaxClients
Bases   == Clients \X {"transport", "rpc"}
Nobody  == 0    (* a null shared_ptr, or a weak_ptr never assigned *)

ASSUME NoOneNoBase == NoOne \notin Bases

VARIABLES
  refCount, mutex, session, open, opens, pc, holds, result, copy,
            (* of the ZenohSessionManager                                  *)
  wHandle,  (* w_handle: the client it refers to                           *)
  guard,    (* who holds construction_mtx                                  *)
  at,       (* where each thread is                                        *)
  seen,     (* the client whose control block an unlocked lock() loaded    *)
  client,   (* the client the thread builds or destroys                    *)
  handle,   (* the shared_ptr the thread got from instance()               *)
  isOK,     (* uSuccess_ and rpcSuccess_ are UCode::OK                     *)
  made,     (* how many clients have been built                            *)
  busy,     (* the clients whose pools have requests in flight             *)
  ended,    (* how the process ended, if it did                            *)
  overlap   (* history: an init() has overlapped a term()                  *)

SM == INSTANCE SessionManager WITH
  Callers        <- Bases,
  NoCaller       <- NoOne,
  OverlapAllowed <- TRUE,
  MaxOpens       <- 2 * MaxClients

managed == <<refCount, mutex, session, open, opens, pc, holds, result, copy>>
control == <<wHandle, guard, at, seen, client, handle, isOK, made, ended>>
vars    == <<managed, control, busy, overlap>>

BuildPcs   == {"transportInit", "transportValue", "rpcStart", "rpcInit", "rpcValue", "publish"}
DestroyPcs == {"rpcTerm", "transportTerm"}

TypeOK ==
  /\ SM!TypeOK
  /\ wHandle \in {Nobody} \cup Clients
  /\ guard \in Threads \cup {NoOne}
  /\ at \in [Threads -> {"idle", "look", "lock", "enter"} \cup BuildPcs \cup DestroyPcs]
  /\ seen \in [Threads -> {Nobody} \cup Clients]
  /\ client \in [Threads -> {Nobody} \cup Clients]
  /\ handle \in [Threads -> {Nobody} \cup Clients]
  /\ isOK \in [Bases -> BOOLEAN]
  /\ made \in 0..MaxClients
  /\ busy \subseteq Clients
  /\ ended \in {"no", "terminate", "freedBlock"}
  /\ overlap \in BOOLEAN
  /\ \A t \in Threads :
       /\ guard = t <=> at[t] \in BuildPcs
       /\ client[t] # Nobody <=> at[t] \in BuildPcs \cup DestroyPcs
       /\ handle[t] # Nobody => at[t] = "idle"

Init ==
  /\ SM!Init
  /\ wHandle = Nobody
  /\ guard = NoOne
  /\ at = [t \in Threads |-> "idle"]
  /\ seen = [t \in Threads |-> Nobody]
  /\ client = [t \in Threads |-> Nobody]
  /\ handle = [t \in Threads |-> Nobody]
  /\ isOK = [b \in Bases |-> TRUE]
  /\ made = 0
  /\ busy = {}
  /\ ended = "no"
  /\ overlap = FALSE

Goto(t, l) == at' = [at EXCEPT ![t] = l]
Give(t, c) == handle' = [handle EXCEPT ![t] = c]
Set(b, ok) == isOK' = [isOK EXCEPT ![b] = ok]

Transport(t) == <<client[t], "transport">>
Rpc(t)       == <<client[t], "rpc">>

(* The strong count of a client is above zero. *)
Alive(c) == c # Nobody /\ \E t \in Threads : handle[t] = c

-----------------------------------------------------------------------------
(* instance() *)

InInstance(t) == at[t] \in {"look", "lock", "enter"} \cup BuildPcs

(* The bound leaves a number for every client that a call may build. *)
Call(t) ==
  /\ at[t] = "idle" /\ handle[t] = Nobody
  /\ made + Cardinality({u \in Threads : InInstance(u)}) < MaxClients
  /\ Goto(t, "look")
  /\ UNCHANGED <<managed, wHandle, guard, seen, client, handle, isOK, made, ended>>

(* The first w_handle.lock() runs without construction_mtx: it loads the   *)
(* pointer to the control block here and reads the block in Lock.          *)
Look(t) ==
  /\ at[t] = "look"
  /\ seen' = [seen EXCEPT ![t] = wHandle]
  /\ Goto(t, "lock")
  /\ UNCHANGED <<managed, wHandle, guard, client, handle, isOK, made, ended>>

(* The control block of a destroyed client that w_handle has left. *)
Freed(c) == c \notin {Nobody, wHandle} /\ ~Alive(c) /\ \A t \in Threads : client[t] # c

(* Reading a freed block may pass for an expired client, or end in one     *)
(* that is gone.                                                           *)
Lock(t) ==
  /\ at[t] = "lock"
  /\ \/ Alive(seen[t]) /\ Give(t, seen[t]) /\ Goto(t, "idle") /\ UNCHANGED ended
     \/ ~Alive(seen[t]) /\ Goto(t, "enter") /\ UNCHANGED <<handle, ended>>
     \/ /\ Freed(seen[t])
        /\ ended' = "freedBlock"
        /\ UNCHANGED <<handle, at>>
  /\ UNCHANGED <<managed, wHandle, guard, seen, client, isOK, made>>

Build(t) ==
  /\ guard' = t
  /\ made' = made + 1
  /\ client' = [client EXCEPT ![t] = made']
  /\ Goto(t, "transportInit")
  /\ SM!CallInit(<<made', "transport">>)

(* Mutant: no second w_handle.lock() under construction_mtx. *)
NotAsked == FALSE

(* What the second w_handle.lock(), under construction_mtx, finds. *)
BuiltMeanwhile == Alive(wHandle)

Enter(t) ==
  /\ at[t] = "enter"
  /\ guard = NoOne
  /\ \/ /\ BuiltMeanwhile
        /\ Give(t, wHandle)
        /\ Goto(t, "idle")
        /\ UNCHANGED <<managed, guard, client, made>>
     \/ ~BuiltMeanwhile /\ Build(t) /\ UNCHANGED handle
  /\ UNCHANGED <<wHandle, seen, isOK, ended>>

-----------------------------------------------------------------------------
(* The constructors, ZenohUTransport's before ZenohRpcClient's *)

Base(t) == IF at[t] \in {"transportInit", "transportTerm"} THEN Transport(t) ELSE Rpc(t)

(* A step inside the call of init() or term() the thread has made. *)
InManager(t) ==
  /\ at[t] \in {"transportInit", "rpcInit", "rpcTerm", "transportTerm"}
  /\ SM!Step(Base(t))
  /\ UNCHANGED control

Returned(b) == pc[b] = "idle"

(* getSession().has_value(), whatever init() returned. *)
TransportHas(t) ==
  /\ at[t] = "transportInit" /\ Returned(Transport(t))
  /\ SM!GetSession(Transport(t))
  /\ Goto(t, IF copy'[Transport(t)] # SM!Nullopt THEN "transportValue" ELSE "rpcStart")
  /\ UNCHANGED <<wHandle, guard, seen, client, handle, isOK, made, ended>>

(* The second getSession(), and its value(): on nullopt it throws, in a    *)
(* constructor that is noexcept.                                           *)
ValueOrTerminate(t, b, next) ==
  /\ SM!GetSession(b)
  /\ \/ copy'[b] # SM!Nullopt /\ Goto(t, next) /\ UNCHANGED ended
     \/ copy'[b] = SM!Nullopt /\ ended' = "terminate" /\ UNCHANGED at

TransportValue(t) ==
  /\ at[t] = "transportValue"
  /\ ValueOrTerminate(t, Transport(t), "rpcStart")
  /\ UNCHANGED <<wHandle, guard, seen, client, handle, isOK, made>>

(* The last statement of the constructor sets OK, whatever came before. *)
RpcStart(t) ==
  /\ at[t] = "rpcStart"
  /\ Set(Transport(t), TRUE)
  /\ Goto(t, "rpcInit")
  /\ SM!CallInit(Rpc(t))
  /\ UNCHANGED <<wHandle, guard, seen, client, handle, made, ended>>

RpcHas(t) ==
  /\ at[t] = "rpcInit" /\ Returned(Rpc(t))
  /\ \/ /\ result[Rpc(t)] = "INTERNAL"
        /\ Set(Rpc(t), FALSE)
        /\ Goto(t, "publish")
        /\ UNCHANGED managed
     \/ /\ result[Rpc(t)] = "OK"
        /\ SM!GetSession(Rpc(t))
        /\ \/ copy'[Rpc(t)] # SM!Nullopt /\ Goto(t, "rpcValue") /\ UNCHANGED isOK
           \/ copy'[Rpc(t)] = SM!Nullopt /\ Set(Rpc(t), FALSE) /\ Goto(t, "publish")
  /\ UNCHANGED <<wHandle, guard, seen, client, handle, made, ended>>

RpcValue(t) ==
  /\ at[t] = "rpcValue"
  /\ ValueOrTerminate(t, Rpc(t), "publish")
  /\ UNCHANGED <<wHandle, guard, seen, client, handle, isOK, made>>

Succeeded(t) == isOK[Rpc(t)] /\ isOK[Transport(t)]

(* Mutant: a client that failed keeps construction_mtx. *)
UnguardIfMade(t) == guard' = IF Succeeded(t) THEN NoOne ELSE t

Unguard(t) == guard' = NoOne

(* A client that failed is destroyed after construction_mtx is released.   *)
Publish(t) ==
  /\ at[t] = "publish"
  /\ Unguard(t)
  /\ \/ /\ Succeeded(t)
        /\ wHandle' = client[t]
        /\ Give(t, client[t])
        /\ client' = [client EXCEPT ![t] = Nobody]
        /\ Goto(t, "idle")
        /\ UNCHANGED managed
     \/ /\ ~Succeeded(t)
        /\ Goto(t, "rpcTerm")
        /\ SM!CallTerm(Rpc(t))
        /\ UNCHANGED <<wHandle, client, handle>>
  /\ UNCHANGED <<seen, isOK, made, ended>>

-----------------------------------------------------------------------------
(* The destructors, ZenohRpcClient's before ZenohUTransport's: each calls  *)
(* term() whether or not its init() counted.                               *)

(* Mutant: the client is destroyed though another thread still has it. *)
IsAlone(t) == TRUE

(* The shared_ptr of the thread is the last one to its client. *)
IsLast(t) == \A u \in Threads \ {t} : handle[u] # handle[t]

Drop(t) ==
  /\ at[t] = "idle" /\ handle[t] # Nobody
  /\ Give(t, Nobody)
  /\ \/ ~IsLast(t) /\ UNCHANGED <<managed, client, at>>
     \/ /\ IsLast(t)
        /\ client' = [client EXCEPT ![t] = handle[t]]
        /\ Goto(t, "rpcTerm")
        /\ SM!CallTerm(<<handle[t], "rpc">>)
  /\ UNCHANGED <<wHandle, guard, seen, isOK, made, ended>>

(* Mutant: requests in flight keep the pool, as a second shared_ptr would. *)
PoolKept(c) == TRUE

(* External: the destructor of the pool waits for its threads. *)
PoolJoined(c) == c \notin busy

(* Mutant: the base ZenohUTransport never calls term(). *)
NoTerm(t) == UNCHANGED managed

TransportTerms(t) == SM!CallTerm(Transport(t))

(* Behind the body of ~ZenohRpcClient() come its members, threadPool_      *)
(* first, and then the base ZenohUTransport.                                 *)
RpcTermed(t) ==
  /\ at[t] = "rpcTerm" /\ Returned(Rpc(t)) /\ PoolJoined(client[t])
  /\ Goto(t, "transportTerm")
  /\ TransportTerms(t)
  /\ UNCHANGED <<wHandle, guard, seen, client, handle, isOK, made, ended>>

TransportTermed(t) ==
  /\ at[t] = "transportTerm" /\ Returned(Transport(t))
  /\ Goto(t, "idle")
  /\ client' = [client EXCEPT ![t] = Nobody]
  /\ UNCHANGED <<managed, wHandle, guard, seen, handle, isOK, made, ended>>

-----------------------------------------------------------------------------
(* invokeMethod() of a client in hand, and the pool being done with it. *)

Invoke(t) ==
  /\ handle[t] # Nobody
  /\ busy' = busy \cup {handle[t]}
  /\ UNCHANGED <<managed, control>>

Completed(c) ==
  /\ busy' = busy \ {c}
  /\ UNCHANGED <<managed, control>>

-----------------------------------------------------------------------------
Work(t) ==
  \/ Look(t) \/ Lock(t) \/ Enter(t) \/ InManager(t)
  \/ TransportHas(t) \/ TransportValue(t) \/ RpcStart(t) \/ RpcHas(t) \/ RpcValue(t)
  \/ Publish(t) \/ RpcTermed(t) \/ TransportTermed(t)

Track == overlap' = (overlap \/ (SM!InitInProgress /\ SM!TermInProgress)')

Working(t) == ended = "no" /\ Work(t) /\ Track /\ UNCHANGED busy

(* The process is over, or every thread is outside with nothing to do. *)
Resting ==
  /\ ended # "no" \/ \A t \in Threads : at[t] = "idle" /\ handle[t] = Nobody
  /\ UNCHANGED vars

Next ==
  \/ \E t \in Threads :
       \/ ended = "no" /\ (Call(t) \/ Drop(t)) /\ Track /\ UNCHANGED busy
       \/ ended = "no" /\ Invoke(t) /\ Track
       \/ Working(t)
  \/ \E c \in busy : ended = "no" /\ Completed(c) /\ Track
  \/ Resting

(* A thread inside a call keeps running; no thread need start one. *)
Fairness == \A t \in Threads : WF_vars(Working(t))

Spec == Init /\ [][Next]_vars /\ Fairness

-----------------------------------------------------------------------------
(* Properties *)

OpenFailed == \E b \in Bases : result[b] = "INTERNAL"

(* "The API provides an instance" (upZenohClient.h:41): the shared_ptrs in *)
(* the hands of the threads all refer to one client, also while threads    *)
(* build, drop and destroy clients, and while opening fails.               *)
OneClient ==
  \A t, u \in Threads : handle[t] # Nobody /\ handle[u] # Nobody => handle[t] = handle[u]

(* A client is destroyed only when no thread has it any more, and by one   *)
(* thread: no destructor runs under a handle, and none runs twice.         *)
DestroyedAlone ==
  \A t \in Threads : at[t] \in DestroyPcs =>
    \A u \in Threads : handle[u] # client[t] /\ (u # t => client[u] # client[t])

(* When every thread is out with nothing in hand, the process has no       *)
(* session open and no count left, whatever failed on the way.             *)
NothingLeft ==
  (\A t \in Threads : at[t] = "idle" /\ handle[t] = Nobody) => open = {} /\ refCount = 0

(* As long as no session failed to open, no constructor ends the process   *)
(* in value() of a getSession() that has turned to nullopt since           *)
(* has_value().                                                            *)
ValueStays == ~OpenFailed => ended # "terminate"

(* As long as no init() has overlapped a term() and no session failed to   *)
(* open, both bases of a client in use have the session that is open.      *)
BothBasesServed ==
  ~overlap /\ ~OpenFailed /\ ended = "no" =>
    \A t \in Threads : handle[t] # Nobody =>
      copy[<<handle[t], "transport">>] \in open /\ copy[<<handle[t], "rpc">>] \in open

(* As long as that is so, a request in flight has its session to the end,  *)
(* also when its client is destroyed meanwhile: ~ZenohRpcClient() counts   *)
(* itself out before its pool has finished, but ZenohUTransport is still   *)
(* counted in, for as a base built first it is destroyed last.             *)
RequestHasSession ==
  ~overlap /\ ~OpenFailed /\ ended = "no" => \A c \in busy : copy[<<c, "rpc">>] \in open

(* construction_mtx is given back by whoever takes it: neither the calls   *)
(* into the session manager nor a failed client keep it for good.          *)
ConstructionEnds ==
  \A t \in Threads : guard = t ~> (guard # t \/ ended # "no")

(* What upZenohClient.h:41 says of a handle, without the provisos.         *)
HandleServed ==
  \A t \in Threads : handle[t] # Nobody /\ ended = "no" => copy[<<handle[t], "transport">>] \in open

(* ZenohUTransport() and ZenohRpcClient() are declared noexcept.           *)
NeverThrows == ended # "terminate"

=============================================================================
