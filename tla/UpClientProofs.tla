--------------------------- MODULE UpClientProofs ---------------------------
(***************************************************************************)
(* Proofs about UpClient, for every finite set of threads, every bound on  *)
(* clients and whatever opening a session does.                            *)
(***************************************************************************)
EXTENDS UpClient, FiniteSetTheorems, TLAPS

(* The types of what the threads and instance() keep. *)
ControlOK ==
  /\ wHandle \in {Nobody} \cup Clients
  /\ guard \in Threads \cup {NoOne}
  /\ at \in [Threads -> {"idle", "look", "lock", "enter"} \cup BuildPcs \cup DestroyPcs]
  /\ seen \in [Threads -> {Nobody} \cup Clients]
  /\ client \in [Threads -> {Nobody} \cup Clients]
  /\ handle \in [Threads -> {Nobody} \cup Clients]
  /\ isOK \in [Bases -> BOOLEAN]
  /\ made \in 0..MaxClients
  /\ busy \subseteq Clients
  /\ ended \in {"no", "terminate", "freedBlock"}
  /\ overlap \in BOOLEAN
  /\ \A t \in Threads :
       /\ guard = t <=> at[t] \in BuildPcs
       /\ client[t] # Nobody <=> at[t] \in BuildPcs \cup DestroyPcs
       /\ handle[t] # Nobody => at[t] = "idle"

(* Every call of instance() that may still build has a number left. *)
Undecided == {t \in Threads : at[t] \in {"look", "lock", "enter"}}
RoomInv   == made + Cardinality(Undecided) <= MaxClients

(* No thread has a client that is not yet made. *)
FreshInv ==
  wHandle <= made /\ \A t \in Threads : client[t] <= made /\ handle[t] <= made

(* A client in hand is the one w_handle refers to, and none is in hand     *)
(* while another is built.                                                 *)
CurrentInv ==
  \A t \in Threads :
    /\ handle[t] # Nobody => handle[t] = wHandle
    /\ at[t] \in BuildPcs => \A u \in Threads : handle[u] = Nobody

(* Who builds or destroys a client is alone with it. *)
OwnInv ==
  \A t \in Threads : client[t] # Nobody =>
    \A u \in Threads : handle[u] # client[t] /\ (u # t => client[u] # client[t])

ControlInv == ControlOK /\ RoomInv /\ FreshInv /\ CurrentInv /\ OwnInv

-----------------------------------------------------------------------------
(* What a step does to the control of the threads: nothing, or that of one *)
(* of the actions outside the session manager.                             *)
LEMMA NextCases ==
  ASSUME [Next]_vars
  PROVE  \/ \E t \in Threads :
              /\ UNCHANGED busy
              /\ \/ Call(t) \/ Drop(t) \/ Look(t) \/ Lock(t) \/ Enter(t)
                 \/ TransportHas(t) \/ TransportValue(t) \/ RpcStart(t) \/ RpcHas(t) \/ RpcValue(t)
                 \/ Publish(t) \/ RpcTermed(t) \/ TransportTermed(t)
                 \/ InManager(t)
         \/ \E t \in Threads : Invoke(t)
         \/ \E c \in busy : Completed(c)
         \/ UNCHANGED vars
  BY DEF Next, Working, Work, Resting

LEMMA OverlapStep ==
  ASSUME ControlOK, [Next]_vars
  PROVE  overlap' \in BOOLEAN /\ (overlap => overlap')
  BY DEF ControlOK, Next, Working, Track, Resting, vars

LEMMA FiniteThreads ==
  ASSUME NEW S \in SUBSET Threads
  PROVE  IsFiniteSet(S) /\ Cardinality(S) \in Nat
  BY ThreadsFinite, FS_Subset, FS_CardinalityType

(* A call of instance() claims a number, and building a client uses it. *)
LEMMA RoomStep ==
  ASSUME ControlOK, RoomInv, [Next]_vars
  PROVE  RoomInv' /\ made' \in 0..MaxClients
<1> DEFINE Goal == RoomInv' /\ made' \in 0..MaxClients
<1>0. /\ Undecided \in SUBSET Threads /\ Undecided' \in SUBSET Threads
      /\ at \in [Threads -> {"idle", "look", "lock", "enter"} \cup BuildPcs \cup DestroyPcs]
      /\ made \in 0..MaxClients /\ made + Cardinality(Undecided) <= MaxClients
      /\ Cardinality(Undecided) \in Nat /\ IsFiniteSet(Undecided) /\ MaxClients \in Nat
  BY FiniteThreads, MaxClientsNat DEF Undecided, ControlOK, RoomInv
<1> USE DEF Goto
<1>1. ASSUME NEW t \in Threads, Call(t) PROVE Goal
  <2> DEFINE Inside == {u \in Threads : InInstance(u)}
  <2>1. Undecided \subseteq Inside /\ Inside \in SUBSET Threads /\ t \notin Undecided
    BY <1>1 DEF Undecided, InInstance, Call
  <2>2. Cardinality(Undecided) <= Cardinality(Inside) /\ Cardinality(Inside) \in Nat
    BY <2>1, FiniteThreads, FS_Subset
  <2>3. Undecided' = Undecided \cup {t}
    BY <1>0, <1>1 DEF Undecided, Call
  <2>4. Cardinality(Undecided \cup {t}) = Cardinality(Undecided) + 1
    BY <1>0, <2>1, FS_AddElement
  <2>5. made + Cardinality(Inside) < MaxClients /\ made' = made
    BY <1>1 DEF Call
  <2>6. QED
    BY <1>0, <2>2, <2>3, <2>4, <2>5 DEF RoomInv
<1>2. ASSUME NEW t \in Threads, Build(t), at[t] = "enter" PROVE Goal
  <2>1. t \in Undecided /\ Undecided' = Undecided \ {t} /\ made' = made + 1
    BY <1>0, <1>2 DEF Undecided, Build, BuildPcs, DestroyPcs
  <2>2. Cardinality(Undecided \ {t}) = Cardinality(Undecided) - 1
    BY <1>0, <2>1, FS_RemoveElement
  <2>3. Cardinality(Undecided) - 1 \in Nat
    BY <1>0, <2>1, <2>2, FiniteThreads
  <2>4. QED
    BY <1>0, <2>1, <2>2, <2>3 DEF RoomInv
<1>3. ASSUME UNCHANGED made, Undecided' \subseteq Undecided PROVE Goal
  <2>1. Cardinality(Undecided') <= Cardinality(Undecided) /\ Cardinality(Undecided') \in Nat
    BY <1>0, <1>3, FS_Subset, FS_CardinalityType
  <2>2. QED
    BY <1>0, <1>3, <2>1 DEF RoomInv
<1>4. ASSUME NEW t \in Threads, at'[t] \notin {"look", "lock", "enter"} \/ at[t] \in {"look", "lock", "enter"},
             \A u \in Threads \ {t} : at'[u] = at[u], UNCHANGED made
      PROVE  Goal
  BY <1>3, <1>4 DEF Undecided
<1>5. ASSUME NEW t \in Threads, Drop(t) \/ Look(t) \/ Lock(t) PROVE Goal
  BY <1>0, <1>4, <1>5 DEF Drop, Look, Lock
<1>6. ASSUME NEW t \in Threads, Enter(t) PROVE Goal
  BY <1>0, <1>2, <1>4, <1>6 DEF Enter
<1>7. ASSUME NEW t \in Threads, TransportHas(t) \/ TransportValue(t) \/ RpcStart(t) \/ RpcHas(t) \/ RpcValue(t)
      PROVE  Goal
  BY <1>0, <1>4, <1>7 DEF TransportHas, TransportValue, RpcStart, RpcHas, RpcValue, ValueOrTerminate
<1>8. ASSUME NEW t \in Threads, Publish(t) \/ RpcTermed(t) \/ TransportTermed(t) PROVE Goal
  BY <1>0, <1>4, <1>8 DEF Publish, RpcTermed, TransportTermed
<1>9. ASSUME UNCHANGED control PROVE Goal
  BY <1>3, <1>9 DEF control, Undecided
<1>10. QED
  BY <1>1, <1>5, <1>6, <1>7, <1>8, <1>9, NextCases DEF InManager, Invoke, Completed, vars

LEMMA ControlOKStep ==
  ASSUME ControlOK, RoomInv, [Next]_vars
  PROVE  ControlOK'
<1>0. made' \in 0..MaxClients /\ overlap' \in BOOLEAN
  BY RoomStep, OverlapStep
<1> USE DEF ControlOK, Clients, Nobody, Bases, BuildPcs, DestroyPcs, Goto, Give, Set, Transport, Rpc
<1>1. ASSUME NEW t \in Threads, Call(t), UNCHANGED busy PROVE ControlOK'
  BY <1>0, <1>1 DEF Call
<1>2. ASSUME NEW t \in Threads, Drop(t), UNCHANGED busy PROVE ControlOK'
  BY <1>0, <1>2 DEF Drop
<1>3. ASSUME NEW t \in Threads, Look(t) \/ Lock(t), UNCHANGED busy PROVE ControlOK'
  BY <1>0, <1>3 DEF Look, Lock
<1>4. ASSUME NEW t \in Threads, Enter(t), UNCHANGED busy PROVE ControlOK'
  BY <1>0, <1>4, NoOneApart, MaxClientsNat DEF Enter, Build
<1>5. ASSUME NEW t \in Threads, TransportHas(t) \/ TransportValue(t) \/ RpcValue(t), UNCHANGED busy PROVE ControlOK'
  BY <1>0, <1>5 DEF TransportHas, TransportValue, RpcValue, ValueOrTerminate
<1>6. ASSUME NEW t \in Threads, RpcStart(t) \/ RpcHas(t), UNCHANGED busy PROVE ControlOK'
  BY <1>0, <1>6 DEF RpcStart, RpcHas
<1>7. ASSUME NEW t \in Threads, Publish(t), UNCHANGED busy PROVE ControlOK'
  BY <1>0, <1>7, NoOneApart DEF Publish, Unguard
<1>8. ASSUME NEW t \in Threads, RpcTermed(t) \/ TransportTermed(t), UNCHANGED busy PROVE ControlOK'
  BY <1>0, <1>8 DEF RpcTermed, TransportTermed
<1>9. ASSUME UNCHANGED control, busy' \subseteq Clients PROVE ControlOK'
  BY <1>0, <1>9 DEF control
<1>10. ASSUME NEW t \in Threads, Invoke(t) PROVE ControlOK'
  BY <1>9, <1>10 DEF Invoke
<1>11. QED
  BY <1>1, <1>2, <1>3, <1>4, <1>5, <1>6, <1>7, <1>8, <1>9, <1>10, NextCases DEF InManager, Completed, vars

(* A client that is built is new to every thread; one that is in hand is   *)
(* the one w_handle refers to, until its last handle is dropped.           *)
LEMMA OwnStep ==
  ASSUME ControlOK, ControlOK', FreshInv, CurrentInv, OwnInv, [Next]_vars
  PROVE  FreshInv' /\ CurrentInv' /\ OwnInv'
<1> DEFINE Goal == FreshInv' /\ CurrentInv' /\ OwnInv'
<1>0. /\ made \in Nat /\ wHandle \in Nat
      /\ client \in [Threads -> Nat] /\ handle \in [Threads -> Nat] /\ seen \in [Threads -> Nat]
      /\ at \in [Threads -> {"idle", "look", "lock", "enter"} \cup BuildPcs \cup DestroyPcs]
      /\ \A t \in Threads :
           /\ guard = t <=> at[t] \in BuildPcs
           /\ client[t] # Nobody <=> at[t] \in BuildPcs \cup DestroyPcs
           /\ handle[t] # Nobody => at[t] = "idle"
  BY MaxClientsNat DEF ControlOK, Clients, Nobody
<1> USE DEF FreshInv, CurrentInv, OwnInv, Nobody, Goto, Give, Alive
<1>1. ASSUME NEW t \in Threads, UNCHANGED <<wHandle, client, handle, made>>,
             \A u \in Threads : at'[u] \in BuildPcs => at[u] \in BuildPcs
      PROVE  Goal
  BY <1>0, <1>1
<1>2. ASSUME NEW t \in Threads, Call(t) \/ Look(t) PROVE Goal
  BY <1>0, <1>1, <1>2 DEF Call, Look, BuildPcs
<1>3. ASSUME NEW t \in Threads, Drop(t) PROVE Goal
  <2>1. CASE ~IsLast(t) /\ UNCHANGED <<managed, client, at>>
    BY <1>0, <1>3, <2>1 DEF Drop
  <2>2. CASE IsLast(t) /\ client' = [client EXCEPT ![t] = handle[t]] /\ Goto(t, "rpcTerm")
    BY <1>0, <1>3, <2>2 DEF Drop, IsLast, BuildPcs
  <2>3. QED
    BY <1>3, <2>1, <2>2 DEF Drop
<1>4. ASSUME NEW t \in Threads, Lock(t) PROVE Goal
  <2>1. CASE Alive(seen[t]) /\ Give(t, seen[t]) /\ Goto(t, "idle")
    BY <1>0, <1>4, <2>1 DEF Lock, BuildPcs
  <2>2. CASE UNCHANGED handle /\ (Goto(t, "enter") \/ UNCHANGED at)
    BY <1>0, <1>1, <1>4, <2>2 DEF Lock, BuildPcs
  <2>3. QED
    BY <1>4, <2>1, <2>2 DEF Lock
<1>5. ASSUME NEW t \in Threads, Enter(t) PROVE Goal
  <2>1. CASE BuiltMeanwhile /\ Give(t, wHandle) /\ Goto(t, "idle") /\ UNCHANGED <<guard, client, made>>
    BY <1>0, <1>5, <2>1 DEF Enter, BuiltMeanwhile, BuildPcs
  <2>2. CASE ~BuiltMeanwhile /\ Build(t) /\ UNCHANGED handle
    BY <1>0, <1>5, <2>2 DEF Enter, BuiltMeanwhile, Build, BuildPcs
  <2>3. QED
    BY <1>5, <2>1, <2>2 DEF Enter
<1>6. ASSUME NEW t \in Threads, TransportHas(t) \/ TransportValue(t) \/ RpcStart(t) \/ RpcHas(t) \/ RpcValue(t)
      PROVE  Goal
  BY <1>0, <1>1, <1>6 DEF TransportHas, TransportValue, RpcStart, RpcHas, RpcValue, ValueOrTerminate, BuildPcs
<1>7. ASSUME NEW t \in Threads, Publish(t) PROVE Goal
  <2>0. at[t] = "publish" /\ \A u \in Threads \ {t} : at[u] \notin BuildPcs
    BY <1>0, <1>7 DEF Publish, BuildPcs
  <2>1. CASE Succeeded(t)
    BY <1>0, <1>7, <2>0, <2>1 DEF Publish, BuildPcs
  <2>2. CASE ~Succeeded(t)
    BY <1>0, <1>1, <1>7, <2>0, <2>2 DEF Publish, BuildPcs
  <2>3. QED
    BY <2>1, <2>2
<1>8. ASSUME NEW t \in Threads, RpcTermed(t) PROVE Goal
  BY <1>0, <1>1, <1>8 DEF RpcTermed, BuildPcs
<1>9. ASSUME NEW t \in Threads, TransportTermed(t) PROVE Goal
  BY <1>0, <1>9 DEF TransportTermed, BuildPcs
<1>10. ASSUME UNCHANGED control PROVE Goal
  BY <1>10 DEF control
<1>11. QED
  BY <1>2, <1>3, <1>4, <1>5, <1>6, <1>7, <1>8, <1>9, <1>10, NextCases DEF InManager, Invoke, Completed, vars

-----------------------------------------------------------------------------
(* The session manager, called by bases that do not keep to its header:    *)
(* term() is called by those whose init() failed, too.                     *)

(* Who is about to count out under mutex_ still finds a count to take.     *)
SubInv == \A b \in Bases : pc[b] = "termSub" => refCount > 0

ManagerInv ==
  SM!TypeOK /\ SM!MutexInv /\ SubInv /\ SM!NoSessionLeak /\ SM!UsedInv /\ SM!OpeningInv

ManagerStep(b) ==
  SM!CallInit(b) \/ SM!CallTerm(b) \/ SM!GetSession(b) \/ SM!Step(b)

(* Every step of the client calls the session manager for one of its       *)
(* bases, or runs on inside such a call, or leaves the manager alone.      *)
LEMMA ManagerCases ==
  ASSUME ControlOK, ControlOK', [Next]_vars
  PROVE  (\E b \in Bases : ManagerStep(b)) \/ UNCHANGED managed
<1> DEFINE Goal == (\E b \in Bases : ManagerStep(b)) \/ UNCHANGED managed
<1>0. \A t \in Threads : at[t] \in BuildPcs \cup DestroyPcs => Transport(t) \in Bases /\ Rpc(t) \in Bases
  BY DEF ControlOK, Transport, Rpc, Bases, Nobody
<1>1. ASSUME NEW b \in Bases, ManagerStep(b) PROVE Goal
  BY <1>1
<1> USE DEF ManagerStep
<1>2. ASSUME NEW t \in Threads, Call(t) \/ Look(t) \/ Lock(t) \/ TransportTermed(t) PROVE Goal
  BY <1>2 DEF Call, Look, Lock, TransportTermed
<1>3. ASSUME NEW t \in Threads, Drop(t) PROVE Goal
  <2>1. <<handle[t], "rpc">> \in Bases
    BY <1>3 DEF Drop, ControlOK, Bases, Nobody
  <2>2. QED
    BY <1>3, <2>1 DEF Drop
<1>4. ASSUME NEW t \in Threads, Enter(t) PROVE Goal
  <2>1. CASE Build(t)
    <3>1. made' \in Clients
      BY <2>1, MaxClientsNat DEF Build, ControlOK, Clients
    <3>2. QED
      BY <2>1, <3>1 DEF Build, Bases
  <2>2. QED
    BY <1>4, <2>1 DEF Enter
<1>5. ASSUME NEW t \in Threads, TransportHas(t) \/ TransportValue(t) \/ RpcStart(t) \/ RpcHas(t) \/ RpcValue(t)
      PROVE  Goal
  BY <1>0, <1>5 DEF TransportHas, TransportValue, RpcStart, RpcHas, RpcValue, ValueOrTerminate, BuildPcs
<1>6. ASSUME NEW t \in Threads, Publish(t) \/ RpcTermed(t) PROVE Goal
  BY <1>0, <1>6 DEF Publish, RpcTermed, TransportTerms, BuildPcs, DestroyPcs
<1>7. ASSUME NEW t \in Threads, InManager(t) PROVE Goal
  BY <1>0, <1>7 DEF InManager, Base, BuildPcs, DestroyPcs
<1>8. QED
  BY <1>2, <1>3, <1>4, <1>5, <1>6, <1>7, NextCases DEF Invoke, Completed, vars

LEMMA ManagerTypeStep ==
  ASSUME SM!TypeOK, SubInv, NEW b \in Bases, ManagerStep(b)
  PROVE  SM!TypeOK'
<1> USE DEF SM!TypeOK, SM!Goto, SM!Return, SM!InitPcs, SM!TermPcs, SM!NullSession, SM!Nullopt
<1>1. ASSUME SM!CallInit(b) PROVE SM!TypeOK'
  BY <1>1 DEF SM!CallInit
<1>2. ASSUME SM!InitLoad(b) PROVE SM!TypeOK'
  BY <1>2 DEF SM!InitLoad
<1>3. ASSUME SM!InitFastAdd(b) PROVE SM!TypeOK'
  BY <1>3 DEF SM!InitFastAdd, SM!CountIn
<1>4. ASSUME SM!InitRecheck(b) PROVE SM!TypeOK'
  BY <1>4 DEF SM!InitRecheck
<1>5. ASSUME SM!InitOpen(b) PROVE SM!TypeOK'
  <2>1. CASE opens' = opens + 1 /\ session' = opens' /\ open' = open \cup {opens'}
    <3>1. opens' \in Nat /\ session' \in 0..opens' /\ open' \in SUBSET (1..opens')
      BY <2>1
    <3>2. copy' \in [Bases -> {SM!Nullopt} \cup 0..opens']
      BY <1>5, <2>1 DEF SM!InitOpen
    <3>3. /\ pc' \in [Bases -> {"idle"} \cup SM!InitPcs \cup SM!TermPcs]
          /\ result' \in [Bases -> {"none", "OK", "INTERNAL"}]
          /\ mutex' \in Bases \cup {NoOne} /\ UNCHANGED <<refCount, holds>>
      BY <1>5 DEF SM!InitOpen
    <3>4. QED
      BY <3>1, <3>2, <3>3
  <2>2. CASE opens' = opens /\ session' \in {session, SM!NullSession} /\ open' = open
    BY <1>5, <2>2 DEF SM!InitOpen
  <2>3. QED
    BY <1>5, <2>1, <2>2 DEF SM!InitOpen
<1>6. ASSUME SM!InitCount(b) PROVE SM!TypeOK'
  BY <1>6 DEF SM!InitCount, SM!CountIn
<1>7. ASSUME SM!CallTerm(b) PROVE SM!TypeOK'
  BY <1>7 DEF SM!CallTerm
<1>8. ASSUME SM!TermCheck(b) PROVE SM!TypeOK'
  BY <1>8 DEF SM!TermCheck
<1>9. ASSUME SM!TermSub(b) PROVE SM!TypeOK'
  BY <1>9 DEF SM!TermSub, SubInv
<1>10. ASSUME SM!TermZero(b) PROVE SM!TypeOK'
  BY <1>10 DEF SM!TermZero
<1>11. ASSUME SM!TermClose(b) PROVE SM!TypeOK'
  BY <1>11 DEF SM!TermClose
<1>12. ASSUME SM!GetSession(b) PROVE SM!TypeOK'
  BY <1>12 DEF SM!GetSession
<1>13. QED
  BY <1>1, <1>2, <1>3, <1>4, <1>5, <1>6, <1>7, <1>8, <1>9, <1>10, <1>11, <1>12 DEF ManagerStep, SM!Step

(* Only the owner of mutex_ counts out, so a count it has found stays. *)
LEMMA ManagerMutexStep ==
  ASSUME SM!TypeOK, SM!MutexInv, SubInv, NEW b \in Bases, ManagerStep(b)
  PROVE  SM!MutexInv' /\ SubInv'
<1> DEFINE Goal == SM!MutexInv' /\ SubInv'
<1> USE NoOneNoBase
    DEF SM!TypeOK, SM!MutexInv, SubInv, SM!LockedPcs, SM!InitPcs, SM!TermPcs, SM!Goto, SM!Return
<1>1. ASSUME SM!CallInit(b) PROVE Goal
  BY <1>1 DEF SM!CallInit
<1>2. ASSUME SM!InitLoad(b) PROVE Goal
  BY <1>2 DEF SM!InitLoad
<1>3. ASSUME SM!InitFastAdd(b) PROVE Goal
  BY <1>3 DEF SM!InitFastAdd, SM!CountIn
<1>4. ASSUME SM!InitRecheck(b) PROVE Goal
  BY <1>4 DEF SM!InitRecheck
<1>5. ASSUME SM!InitOpen(b) PROVE Goal
  BY <1>5 DEF SM!InitOpen
<1>6. ASSUME SM!InitCount(b) PROVE Goal
  BY <1>6 DEF SM!InitCount, SM!CountIn
<1>7. ASSUME SM!CallTerm(b) PROVE Goal
  BY <1>7 DEF SM!CallTerm
<1>8. ASSUME SM!TermCheck(b) PROVE Goal
  BY <1>8 DEF SM!TermCheck
<1>9. ASSUME SM!TermSub(b) PROVE Goal
  BY <1>9 DEF SM!TermSub
<1>10. ASSUME SM!TermZero(b) PROVE Goal
  BY <1>10 DEF SM!TermZero
<1>11. ASSUME SM!TermClose(b) PROVE Goal
  BY <1>11 DEF SM!TermClose
<1>12. ASSUME SM!GetSession(b) PROVE Goal
  BY <1>12 DEF SM!GetSession
<1>13. QED
  BY <1>1, <1>2, <1>3, <1>4, <1>5, <1>6, <1>7, <1>8, <1>9, <1>10, <1>11, <1>12 DEF ManagerStep, SM!Step

(* The owner of mutex_ opens only when no session is open, and the last    *)
(* count to go closes the session, whoever had taken it.                   *)
LEMMA ManagerSessionStep ==
  ASSUME SM!TypeOK, SM!MutexInv, SM!NoSessionLeak, SM!UsedInv, SM!OpeningInv, NEW b \in Bases, ManagerStep(b)
  PROVE  SM!NoSessionLeak' /\ SM!UsedInv' /\ SM!OpeningInv'
<1> DEFINE Goal == SM!NoSessionLeak' /\ SM!UsedInv' /\ SM!OpeningInv'
<1> USE DEF SM!TypeOK, SM!NoSessionLeak, SM!UsedInv, SM!OpeningInv, SM!Goto, SM!Return, SM!NullSession
<1>1. ASSUME SM!CallInit(b) PROVE Goal
  BY <1>1 DEF SM!CallInit
<1>2. ASSUME SM!InitLoad(b) PROVE Goal
  BY <1>2 DEF SM!InitLoad
<1>3. ASSUME SM!InitFastAdd(b) PROVE Goal
  BY <1>3 DEF SM!InitFastAdd, SM!CountIn
<1>4. ASSUME SM!InitRecheck(b) PROVE Goal
  <2>1. \A c \in Bases : pc[c] \notin SM!LockedPcs
    BY <1>4, NoOneNoBase DEF SM!InitRecheck, SM!MutexInv
  <2>2. open = {} \/ refCount > 0
    BY <2>1 DEF SM!LockedPcs
  <2>3. QED
    BY <1>4, <2>2 DEF SM!InitRecheck
<1>5. ASSUME SM!InitOpen(b) PROVE Goal
  <2>1. open = {} /\ \A c \in Bases : pc[c] = "initOpen" => c = b
    BY <1>5 DEF SM!InitOpen, SM!MutexInv, SM!LockedPcs
  <2>2. pc'[b] # "initOpen" /\ \A c \in Bases : c # b => pc'[c] = pc[c]
    BY <1>5 DEF SM!InitOpen
  <2>3. SM!OpeningInv'
    BY <2>1, <2>2
  <2>4. CASE session' = opens' /\ open' = open \cup {opens'} /\ pc'[b] = "initCount"
    BY <2>1, <2>3, <2>4
  <2>5. CASE open' = open
    BY <2>1, <2>3, <2>5
  <2>6. QED
    BY <1>5, <2>4, <2>5 DEF SM!InitOpen
<1>6. ASSUME SM!InitCount(b) PROVE Goal
  BY <1>6 DEF SM!InitCount, SM!CountIn
<1>7. ASSUME SM!CallTerm(b) PROVE Goal
  BY <1>7 DEF SM!CallTerm
<1>8. ASSUME SM!TermCheck(b) PROVE Goal
  BY <1>8 DEF SM!TermCheck
<1>9. ASSUME SM!TermSub(b) PROVE Goal
  BY <1>9 DEF SM!TermSub
<1>10. ASSUME SM!TermZero(b) PROVE Goal
  BY <1>10 DEF SM!TermZero
<1>11. ASSUME SM!TermClose(b) PROVE Goal
  BY <1>11 DEF SM!TermClose
<1>12. ASSUME SM!GetSession(b) PROVE Goal
  BY <1>12 DEF SM!GetSession
<1>13. QED
  BY <1>1, <1>2, <1>3, <1>4, <1>5, <1>6, <1>7, <1>8, <1>9, <1>10, <1>11, <1>12 DEF ManagerStep, SM!Step

-----------------------------------------------------------------------------
(* Where the calls into the session manager stand. *)

Initing(t) == at[t] \in {"transportInit", "rpcInit"}
Terming(t) == at[t] \in {"rpcTerm", "transportTerm"}

(* A base that is inside init() or term() has a thread there. *)
PcInv ==
  \A b \in Bases : pc[b] # "idle" =>
    \E t \in Threads :
      /\ Base(t) = b /\ (Initing(t) \/ Terming(t))
      /\ Initing(t) => pc[b] \in SM!InitPcs
      /\ Terming(t) => pc[b] \in SM!TermPcs

(* A step inside a call moves its base on, or ends the call. *)
LEMMA StepMoves ==
  ASSUME SM!TypeOK, NEW b \in Bases, SM!Step(b)
  PROVE  /\ pc[b] # "idle"
         /\ pc[b] \in SM!InitPcs => pc'[b] \in SM!InitPcs \cup {"idle"}
         /\ pc[b] \in SM!TermPcs => pc'[b] \in SM!TermPcs \cup {"idle"}
         /\ \A c \in Bases \ {b} : pc'[c] = pc[c] /\ holds'[c] = holds[c] /\ result'[c] = result[c] /\ copy'[c] = copy[c]
  BY DEF SM!TypeOK, SM!Step, SM!InitLoad, SM!InitFastAdd, SM!InitRecheck, SM!InitOpen, SM!InitCount, SM!CountIn,
         SM!TermCheck, SM!TermSub, SM!TermZero, SM!TermClose, SM!Goto, SM!Return, SM!InitPcs, SM!TermPcs

LEMMA BaseOf ==
  ASSUME ControlOK, NEW t \in Threads, at[t] \in BuildPcs \cup DestroyPcs
  PROVE  Transport(t) \in Bases /\ Rpc(t) \in Bases /\ Base(t) \in Bases /\ Transport(t) # Rpc(t)
  BY DEF ControlOK, Base, Transport, Rpc, Bases, Nobody

(* Calling init() or term() puts a base that is idle inside the call, and  *)
(* the calling thread with it.                                             *)
LEMMA PcStep ==
  ASSUME SM!TypeOK, ControlOK, ControlOK', PcInv, [Next]_vars
  PROVE  PcInv'
<1> SUFFICES ASSUME NEW b \in Bases, pc'[b] # "idle"
             PROVE  \E t \in Threads :
                      /\ Base(t)' = b /\ (Initing(t)' \/ Terming(t)')
                      /\ Initing(t)' => pc'[b] \in SM!InitPcs
                      /\ Terming(t)' => pc'[b] \in SM!TermPcs
  BY DEF PcInv
<1> DEFINE In(t)  == /\ Base(t) = b /\ (Initing(t) \/ Terming(t))
                     /\ Initing(t) => pc[b] \in SM!InitPcs
                     /\ Terming(t) => pc[b] \in SM!TermPcs
           Goal   == \E t \in Threads : In(t)'
<1>0. /\ pc[b] # "idle" => \E t \in Threads : In(t)
      /\ at \in [Threads -> {"idle", "look", "lock", "enter"} \cup BuildPcs \cup DestroyPcs]
      /\ client \in [Threads -> {Nobody} \cup Clients]
      /\ pc \in [Bases -> {"idle"} \cup SM!InitPcs \cup SM!TermPcs]
  BY DEF PcInv, ControlOK, SM!TypeOK
<1> USE DEF Goto, Base, Transport, Rpc, Initing, Terming
(* A step that leaves the base alone, by a thread that is not in its call. *)
<1>1. ASSUME NEW t \in Threads, pc'[b] = pc[b],
             \A u \in Threads \ {t} : at'[u] = at[u] /\ client'[u] = client[u],
             ~(Initing(t) \/ Terming(t)) \/ Base(t) # b
      PROVE  Goal
  BY <1>0, <1>1
(* A step by which a thread enters a call for the base.                    *)
<1>2. ASSUME NEW t \in Threads, In(t)' PROVE Goal
  BY <1>2
<1>3. ASSUME NEW t \in Threads, Call(t) \/ Look(t) \/ Lock(t) PROVE Goal
  BY <1>0, <1>1, <1>3 DEF Call, Look, Lock, managed
<1>4. ASSUME NEW t \in Threads, Drop(t) PROVE Goal
  <2>1. CASE pc'[b] = pc[b]
    BY <1>0, <1>1, <1>4, <2>1 DEF Drop
  <2>2. CASE pc'[b] # pc[b]
    BY <1>0, <1>2, <1>4, <2>2 DEF Drop, managed, SM!CallTerm, SM!Goto, SM!TermPcs
  <2>3. QED
    BY <2>1, <2>2
<1>5. ASSUME NEW t \in Threads, Enter(t) PROVE Goal
  <2>1. CASE pc'[b] = pc[b]
    BY <1>0, <1>1, <1>5, <2>1 DEF Enter, Build
  <2>2. CASE pc'[b] # pc[b]
    BY <1>0, <1>2, <1>5, <2>2 DEF Enter, Build, managed, SM!CallInit, SM!Goto, SM!InitPcs
  <2>3. QED
    BY <2>1, <2>2
<1>6. ASSUME NEW t \in Threads, TransportHas(t) \/ TransportValue(t) \/ RpcHas(t) \/ RpcValue(t) PROVE Goal
  <2>1. pc' = pc
    BY <1>6 DEF TransportHas, TransportValue, RpcHas, RpcValue, ValueOrTerminate, SM!GetSession, managed
  <2>2. Initing(t) => pc[Base(t)] = "idle"
    BY <1>6 DEF TransportHas, TransportValue, RpcHas, RpcValue, Returned
  <2>3. ~Terming(t) /\ \A u \in Threads \ {t} : at'[u] = at[u] /\ client'[u] = client[u]
    BY <1>0, <1>6 DEF TransportHas, TransportValue, RpcHas, RpcValue, ValueOrTerminate
  <2>4. QED
    BY <1>1, <2>1, <2>2, <2>3
<1>7. ASSUME NEW t \in Threads, RpcStart(t) PROVE Goal
  <2>1. CASE pc'[b] = pc[b]
    BY <1>0, <1>1, <1>7, <2>1 DEF RpcStart
  <2>2. CASE pc'[b] # pc[b]
    BY <1>0, <1>2, <1>7, <2>2 DEF RpcStart, SM!CallInit, SM!Goto, SM!InitPcs
  <2>3. QED
    BY <2>1, <2>2
<1>8. ASSUME NEW t \in Threads, Publish(t) PROVE Goal
  <2>1. CASE pc'[b] = pc[b]
    BY <1>0, <1>1, <1>8, <2>1 DEF Publish
  <2>2. CASE pc'[b] # pc[b]
    BY <1>0, <1>2, <1>8, <2>2 DEF Publish, managed, SM!CallTerm, SM!Goto, SM!TermPcs
  <2>3. QED
    BY <2>1, <2>2
<1>9. ASSUME NEW t \in Threads, RpcTermed(t) PROVE Goal
  <2>1. CASE pc'[b] = pc[b]
    BY <1>0, <1>1, <1>9, <2>1 DEF RpcTermed, Returned
  <2>2. CASE pc'[b] # pc[b]
    BY <1>0, <1>2, <1>9, <2>2 DEF RpcTermed, TransportTerms, SM!CallTerm, SM!Goto, SM!TermPcs
  <2>3. QED
    BY <2>1, <2>2
<1>10. ASSUME NEW t \in Threads, TransportTermed(t) PROVE Goal
  BY <1>0, <1>1, <1>10 DEF TransportTermed, Returned, managed
<1>11. ASSUME NEW t \in Threads, InManager(t) PROVE Goal
  <2>1. SM!Step(Base(t)) /\ Base(t) \in Bases /\ UNCHANGED control
    BY <1>11, BaseOf DEF InManager, BuildPcs, DestroyPcs
  <2>2. /\ pc[b] # "idle"
        /\ pc[b] \in SM!InitPcs => pc'[b] \in SM!InitPcs
        /\ pc[b] \in SM!TermPcs => pc'[b] \in SM!TermPcs
    BY <2>1, StepMoves
  <2>3. QED
    BY <1>0, <2>1, <2>2 DEF control
<1>12. ASSUME UNCHANGED <<managed, control>> PROVE Goal
  BY <1>0, <1>12 DEF managed, control
<1>13. QED
  BY <1>3, <1>4, <1>5, <1>6, <1>7, <1>8, <1>9, <1>10, <1>11, <1>12, NextCases DEF Invoke, Completed, vars

-----------------------------------------------------------------------------
(* What counts, and who will count out. *)

Unused(b) == ~holds[b] /\ result[b] = "none"

(* A base counts in once, in the init() of its constructor.                *)
LifeInv ==
  /\ \A b \in Bases : b[1] > made => Unused(b)
  /\ \A t \in Threads : at[t] \in {"transportInit", "transportValue", "rpcStart"} => Unused(Rpc(t))
  /\ \A b \in Bases : pc[b] \in SM!InitPcs => Unused(b)
  /\ \A b \in Bases : pc[b] \in {"termZero", "termClose"} => ~holds[b]

(* The thread has the client of the base, and will yet call its term() or  *)
(* is in it.                                                               *)
InHand(t, b)   == handle[t] = b[1]
Building(t, b) == client[t] = b[1] /\ at[t] \in BuildPcs
Ending(t, b) ==
  /\ client[t] = b[1]
  /\ \/ at[t] = "rpcTerm" /\ (b[2] = "transport" \/ pc[b] # "idle")
     \/ at[t] = "transportTerm" /\ b[2] = "transport" /\ pc[b] # "idle"
Has(t, b) == InHand(t, b) \/ Building(t, b) \/ Ending(t, b)

(* The bases counted in whose term() is still to come: no count is kept    *)
(* for any other, though a term() that was not due may have taken theirs.  *)
Due      == {b \in Bases : holds[b] /\ \E t \in Threads : Has(t, b)}
CountInv == refCount <= Cardinality(Due)

LEMMA LifeStep ==
  ASSUME SM!TypeOK, ControlOK, ControlOK', FreshInv, OwnInv, PcInv, LifeInv, [Next]_vars
  PROVE  LifeInv'
<1>0. /\ at \in [Threads -> {"idle", "look", "lock", "enter"} \cup BuildPcs \cup DestroyPcs]
      /\ client \in [Threads -> Nat] /\ handle \in [Threads -> Nat] /\ made \in Nat /\ made' \in Nat
      /\ \A t \in Threads : client[t] <= made /\ handle[t] <= made
      /\ \A t \in Threads : handle[t] # Nobody => at[t] = "idle"
      /\ \A t \in Threads : client[t] # Nobody <=> at[t] \in BuildPcs \cup DestroyPcs
      /\ \A t, u \in Threads : client[t] # Nobody /\ u # t => client[u] # client[t]
      /\ pc \in [Bases -> {"idle"} \cup SM!InitPcs \cup SM!TermPcs]
      /\ holds \in [Bases -> BOOLEAN] /\ result \in [Bases -> {"none", "OK", "INTERNAL"}]
      /\ \A b \in Bases : b[1] \in Nat
  <2>1. \A b \in Bases : b[1] \in Nat
    BY DEF Bases, Clients
  <2>2. made' \in Nat
    BY MaxClientsNat DEF ControlOK
  <2>3. QED
    BY <2>1, <2>2, MaxClientsNat DEF SM!TypeOK, ControlOK, FreshInv, OwnInv, Clients, Nobody
<1>1. \A t \in Threads : at[t] \in BuildPcs \cup DestroyPcs => Transport(t) \in Bases /\ Rpc(t) \in Bases
  BY BaseOf
<1> USE DEF LifeInv, Unused
(* A step that leaves the counts alone. *)
<1>2. ASSUME UNCHANGED <<holds, result>>, made' >= made,
             \A t \in Threads : at'[t] \in {"transportInit", "transportValue", "rpcStart"} => Unused(<<client'[t], "rpc">>),
             \A b \in Bases : pc'[b] \in SM!InitPcs => Unused(b),
             \A b \in Bases : pc'[b] \in {"termZero", "termClose"} => pc[b] = pc'[b]
      PROVE  LifeInv'
  BY <1>0, <1>2 DEF Rpc
<1> USE DEF Goto
<1>3. ASSUME NEW t \in Threads, Call(t) \/ Look(t) \/ Lock(t) \/ TransportTermed(t) PROVE LifeInv'
  BY <1>0, <1>2, <1>3 DEF Call, Look, Lock, TransportTermed, managed, Rpc, DestroyPcs
<1>4. ASSUME NEW t \in Threads, Drop(t) PROVE LifeInv'
  <2>1. CASE UNCHANGED <<managed, client, at>>
    BY <1>0, <1>2, <1>4, <2>1 DEF Drop, managed, Rpc
  <2>2. CASE SM!CallTerm(<<handle[t], "rpc">>) /\ client' = [client EXCEPT ![t] = handle[t]] /\ Goto(t, "rpcTerm")
    BY <1>0, <1>2, <1>4, <2>2 DEF Drop, Rpc, SM!CallTerm, SM!Goto, SM!InitPcs
  <2>3. QED
    BY <1>4, <2>1, <2>2 DEF Drop
<1>5. ASSUME NEW t \in Threads, Enter(t) PROVE LifeInv'
  <2>1. CASE Build(t)
    <3>1. client'[t] = made + 1 /\ made' = made + 1 /\ <<made', "rpc">> \in Bases /\ <<made', "transport">> \in Bases
      BY <1>0, <2>1, MaxClientsNat DEF Build, ControlOK, Bases, Clients
    <3>2. Unused(<<made', "rpc">>) /\ Unused(<<made', "transport">>)
      BY <1>0, <3>1
    <3>3. QED
      BY <1>0, <1>2, <2>1, <3>1, <3>2 DEF Build, Rpc, SM!CallInit, SM!Goto, SM!InitPcs
  <2>2. CASE UNCHANGED <<managed, client, made>> /\ Goto(t, "idle")
    BY <1>0, <1>2, <2>2 DEF managed, Rpc
  <2>3. QED
    BY <1>5, <2>1, <2>2 DEF Enter
<1>6. ASSUME NEW t \in Threads, TransportHas(t) \/ TransportValue(t) \/ RpcHas(t) \/ RpcValue(t) PROVE LifeInv'
  <2>1. UNCHANGED <<pc, holds, result, client, made>>
    BY <1>6 DEF TransportHas, TransportValue, RpcHas, RpcValue, ValueOrTerminate, SM!GetSession, managed
  <2>2. /\ \A u \in Threads \ {t} : at'[u] = at[u]
        /\ at'[t] \in {"transportInit", "transportValue", "rpcStart"} =>
             at[t] \in {"transportInit", "transportValue", "rpcStart"}
    BY <1>0, <1>6 DEF TransportHas, TransportValue, RpcHas, RpcValue, ValueOrTerminate
  <2>3. QED
    BY <1>0, <1>2, <2>1, <2>2 DEF Rpc
<1>7. ASSUME NEW t \in Threads, RpcStart(t) PROVE LifeInv'
  BY <1>0, <1>1, <1>2, <1>7 DEF RpcStart, SM!CallInit, SM!Goto, SM!InitPcs, Rpc, BuildPcs
<1>8. ASSUME NEW t \in Threads, Publish(t) PROVE LifeInv'
  <2>1. CASE UNCHANGED managed /\ Goto(t, "idle") /\ client' = [client EXCEPT ![t] = Nobody]
    BY <1>0, <1>2, <1>8, <2>1 DEF Publish, managed, Rpc
  <2>2. CASE SM!CallTerm(Rpc(t)) /\ UNCHANGED client /\ Goto(t, "rpcTerm")
    BY <1>0, <1>1, <1>2, <1>8, <2>2 DEF Publish, SM!CallTerm, SM!Goto, SM!InitPcs, Rpc, BuildPcs
  <2>3. QED
    BY <1>8, <2>1, <2>2 DEF Publish
<1>9. ASSUME NEW t \in Threads, RpcTermed(t) PROVE LifeInv'
  BY <1>0, <1>1, <1>2, <1>9 DEF RpcTermed, TransportTerms, SM!CallTerm, SM!Goto, SM!InitPcs, Rpc, DestroyPcs
<1>10. ASSUME NEW t \in Threads, InManager(t) PROVE LifeInv'
  <2> DEFINE b == Base(t)
  <2>1. b \in Bases /\ SM!Step(b) /\ UNCHANGED control
    BY <1>10, BaseOf DEF InManager, BuildPcs, DestroyPcs
  <2>2. /\ \A c \in Bases \ {b} : pc'[c] = pc[c] /\ holds'[c] = holds[c] /\ result'[c] = result[c]
        /\ pc[b] # "idle"
        /\ pc[b] \in SM!InitPcs => pc'[b] \in SM!InitPcs \cup {"idle"}
        /\ pc[b] \in SM!TermPcs => pc'[b] \in SM!TermPcs \cup {"idle"}
    BY <2>1, StepMoves
  <2>3. /\ pc'[b] \in SM!InitPcs => holds'[b] = holds[b] /\ result'[b] = result[b]
        /\ pc'[b] \in {"termZero", "termClose"} => ~holds'[b]
    BY <1>0, <2>1 DEF SM!Step, SM!InitLoad, SM!InitFastAdd, SM!InitRecheck, SM!InitOpen, SM!InitCount, SM!CountIn,
         SM!TermCheck, SM!TermSub, SM!TermZero, SM!TermClose, SM!Goto, SM!Return, SM!InitPcs, SM!TermPcs
  <2>4. b[1] <= made
    BY <1>0, <2>1 DEF Base, Transport, Rpc
  <2>5. \A u \in Threads : at[u] \in {"transportInit", "transportValue", "rpcStart"} => Rpc(u) # b
    BY <1>0, <1>10 DEF InManager, Base, Transport, Rpc, BuildPcs
  <2>6. \A u \in Threads : at'[u] = at[u] /\ client'[u] = client[u]
    BY <2>1 DEF control
  <2>7. pc'[b] \in SM!InitPcs => pc[b] \in SM!InitPcs
    BY <1>0, <2>1, <2>2 DEF SM!InitPcs, SM!TermPcs
  <2>8. \A c \in Bases : c[1] > made => Unused(c)'
    BY <1>0, <2>2, <2>4
  <2>9. \A u \in Threads : at[u] \in {"transportInit", "transportValue", "rpcStart"} => Unused(Rpc(u))'
    <3> SUFFICES ASSUME NEW u \in Threads, at[u] \in {"transportInit", "transportValue", "rpcStart"}
                 PROVE  Unused(Rpc(u))'
      OBVIOUS
    <3>1. Rpc(u) \in Bases \ {b} /\ Rpc(u)' = Rpc(u) /\ Unused(Rpc(u))
      BY <1>1, <2>5, <2>6 DEF Rpc, BuildPcs
    <3>2. QED
      BY <2>2, <3>1
  <2>10. \A c \in Bases : pc'[c] \in SM!InitPcs => Unused(c)'
    BY <1>0, <2>1, <2>2, <2>3, <2>7
  <2>11. \A c \in Bases : pc'[c] \in {"termZero", "termClose"} => ~holds'[c]
    BY <1>0, <2>1, <2>2, <2>3
  <2>12. QED
    BY <2>1, <2>6, <2>8, <2>9, <2>10, <2>11 DEF control, Rpc
<1>11. ASSUME UNCHANGED <<managed, control>> PROVE LifeInv'
  BY <1>11 DEF managed, control, Rpc
<1>12. QED
  BY <1>3, <1>4, <1>5, <1>6, <1>7, <1>8, <1>9, <1>10, <1>11, NextCases DEF Invoke, Completed, vars

LEMMA FiniteBases ==
  ASSUME NEW S \in SUBSET Bases
  PROVE  IsFiniteSet(S) /\ Cardinality(S) \in Nat
<1>1. IsFiniteSet(Clients)
  BY MaxClientsNat, FS_Interval DEF Clients
<1>2. IsFiniteSet({"transport", "rpc"})
  <2>1. IsFiniteSet({"transport"})
    BY FS_Singleton
  <2>2. IsFiniteSet({"transport"} \cup {"rpc"})
    BY <2>1, FS_AddElement
  <2>3. {"transport"} \cup {"rpc"} = {"transport", "rpc"}
    OBVIOUS
  <2>4. QED
    BY <2>2, <2>3
<1>3. IsFiniteSet(Bases)
  BY <1>1, <1>2, FS_Product DEF Bases
<1>4. QED
  BY <1>3, FS_Subset, FS_CardinalityType

(* A count is taken for a base that is due, and every count given up was   *)
(* for a base or stolen; a base that is due stays so until it counts out.  *)
LEMMA CountStep ==
  ASSUME SM!TypeOK, ControlOK, ControlOK', PcInv, LifeInv, CountInv, [Next]_vars
  PROVE  CountInv'
<1>0. /\ at \in [Threads -> {"idle", "look", "lock", "enter"} \cup BuildPcs \cup DestroyPcs]
      /\ client \in [Threads -> {Nobody} \cup Clients] /\ handle \in [Threads -> {Nobody} \cup Clients]
      /\ \A t \in Threads : handle[t] # Nobody => at[t] = "idle"
      /\ \A t \in Threads : client[t] # Nobody <=> at[t] \in BuildPcs \cup DestroyPcs
      /\ pc \in [Bases -> {"idle"} \cup SM!InitPcs \cup SM!TermPcs]
      /\ holds \in [Bases -> BOOLEAN] /\ refCount \in Nat
      /\ \A b \in Bases : b[1] # Nobody /\ b[2] \in {"transport", "rpc"} /\ b = <<b[1], b[2]>>
  <2>1. \A b \in Bases : b[1] # Nobody /\ b[2] \in {"transport", "rpc"} /\ b = <<b[1], b[2]>>
    BY DEF Bases, Clients, Nobody
  <2>2. QED
    BY <2>1 DEF SM!TypeOK, ControlOK
<1>1. /\ IsFiniteSet(Due) /\ Cardinality(Due) \in Nat /\ Due \in SUBSET Bases
      /\ IsFiniteSet(Due') /\ Cardinality(Due') \in Nat /\ Due' \in SUBSET Bases
  <2>1. Due \in SUBSET Bases /\ Due' \in SUBSET Bases
    BY DEF Due
  <2>2. QED
    BY <2>1, FiniteBases
(* A step that leaves the counts alone. *)
<1>2. ASSUME UNCHANGED <<refCount, holds>>,
             \A t \in Threads, b \in Bases : Has(t, b) => \E u \in Threads : Has(u, b)'
      PROVE  CountInv'
  <2>1. Due \subseteq Due'
    BY <1>2 DEF Due
  <2>2. Cardinality(Due) <= Cardinality(Due')
    BY <1>1, <2>1, FS_Subset
  <2>3. QED
    BY <1>0, <1>1, <1>2, <2>2 DEF CountInv
<1> USE DEF Goto, Give, Has, InHand, Building, Ending
<1>3. ASSUME NEW t \in Threads, Call(t) \/ Look(t) PROVE CountInv'
  BY <1>0, <1>2, <1>3 DEF Call, Look, managed, BuildPcs, DestroyPcs
<1>4. ASSUME NEW t \in Threads, Drop(t) PROVE CountInv'
  <2>1. CASE ~IsLast(t) /\ UNCHANGED <<managed, client, at>>
    BY <1>0, <1>2, <1>4, <2>1 DEF Drop, managed, IsLast
  <2>2. CASE SM!CallTerm(<<handle[t], "rpc">>) /\ client' = [client EXCEPT ![t] = handle[t]] /\ Goto(t, "rpcTerm")
    <3>1. UNCHANGED <<refCount, holds>>
      BY <2>2 DEF SM!CallTerm
    <3>2. ASSUME NEW u \in Threads, NEW b \in Bases, Has(u, b) PROVE \E w \in Threads : Has(w, b)'
      <4>1. pc[b] # "idle" => pc'[b] # "idle"
        BY <1>0, <2>2 DEF SM!CallTerm, SM!Goto
      <4>2. CASE u = t
        <5>1. handle[t] = b[1]
          BY <1>0, <1>4, <3>2, <4>2 DEF Drop, BuildPcs, DestroyPcs
        <5>2. b[2] = "rpc" => pc'[b] # "idle"
          BY <1>0, <2>2, <5>1 DEF SM!CallTerm, SM!Goto
        <5>3. Ending(t, b)'
          BY <1>0, <2>2, <5>1, <5>2
        <5>4. QED
          BY <5>3
      <4>3. CASE u # t
        BY <1>0, <1>4, <2>2, <3>2, <4>1, <4>3 DEF Drop
      <4>4. QED
        BY <4>2, <4>3
    <3>3. QED
      BY <1>2, <3>1, <3>2
  <2>3. QED
    BY <1>4, <2>1, <2>2 DEF Drop
<1>5. ASSUME NEW t \in Threads, Lock(t) PROVE CountInv'
  BY <1>0, <1>2, <1>5 DEF Lock, managed, BuildPcs, DestroyPcs
<1>6. ASSUME NEW t \in Threads, Enter(t) PROVE CountInv'
  <2>1. CASE Build(t) /\ UNCHANGED handle
    <3>1. UNCHANGED <<refCount, holds>> /\ \A b \in Bases : pc[b] # "idle" => pc'[b] # "idle"
      BY <1>0, <2>1 DEF Build, SM!CallInit, SM!Goto
    <3>2. client[t] = Nobody /\ handle[t] = Nobody
      BY <1>0, <1>6 DEF Enter, BuildPcs, DestroyPcs
    <3>3. QED
      BY <1>0, <1>2, <1>6, <2>1, <3>1, <3>2 DEF Build, Enter
  <2>2. CASE UNCHANGED <<managed, client>> /\ Give(t, wHandle) /\ Goto(t, "idle")
    BY <1>0, <1>2, <1>6, <2>2 DEF Enter, managed, BuildPcs, DestroyPcs
  <2>3. QED
    BY <1>6, <2>1, <2>2 DEF Enter
<1>7. ASSUME NEW t \in Threads, TransportHas(t) \/ TransportValue(t) \/ RpcHas(t) \/ RpcValue(t) PROVE CountInv'
  <2>1. UNCHANGED <<refCount, holds, pc, client, handle>>
    BY <1>7 DEF TransportHas, TransportValue, RpcHas, RpcValue, ValueOrTerminate, SM!GetSession, managed
  <2>2. \A u \in Threads \ {t} : at'[u] = at[u]
    BY <1>0, <1>7 DEF TransportHas, TransportValue, RpcHas, RpcValue, ValueOrTerminate
  <2>3. at[t] \in BuildPcs /\ at'[t] \in BuildPcs
    BY <1>0, <1>7 DEF TransportHas, TransportValue, RpcHas, RpcValue, ValueOrTerminate, BuildPcs
  <2>4. QED
    BY <1>0, <1>2, <2>1, <2>2, <2>3 DEF BuildPcs
<1>8. ASSUME NEW t \in Threads, RpcStart(t) PROVE CountInv'
  <2>1. UNCHANGED <<refCount, holds, client, handle>> /\ \A b \in Bases : pc[b] # "idle" => pc'[b] # "idle"
    BY <1>0, <1>8 DEF RpcStart, SM!CallInit, SM!Goto
  <2>2. QED
    BY <1>0, <1>2, <1>8, <2>1 DEF RpcStart, BuildPcs
<1>9. ASSUME NEW t \in Threads, Publish(t) PROVE CountInv'
  <2>1. CASE UNCHANGED managed /\ Goto(t, "idle") /\ client' = [client EXCEPT ![t] = Nobody] /\ Give(t, client[t])
    BY <1>0, <1>2, <1>9, <2>1 DEF Publish, managed, BuildPcs
  <2>2. CASE SM!CallTerm(Rpc(t)) /\ UNCHANGED <<client, handle>> /\ Goto(t, "rpcTerm")
    <3>1. UNCHANGED <<refCount, holds>>
      BY <2>2 DEF SM!CallTerm
    <3>2. ASSUME NEW u \in Threads, NEW b \in Bases, Has(u, b) PROVE Has(u, b)'
      <4>1. pc[b] # "idle" => pc'[b] # "idle"
        BY <1>0, <2>2 DEF SM!CallTerm, SM!Goto
      <4>2. CASE u = t
        <5>1. client[t] = b[1]
          BY <1>0, <1>9, <3>2, <4>2 DEF Publish, BuildPcs
        <5>2. b[2] = "rpc" => pc'[b] # "idle"
          BY <1>0, <2>2, <5>1 DEF SM!CallTerm, SM!Goto, Rpc
        <5>3. QED
          BY <1>0, <2>2, <4>2, <5>1, <5>2
      <4>3. CASE u # t
        BY <1>0, <2>2, <3>2, <4>1, <4>3
      <4>4. QED
        BY <4>2, <4>3
    <3>3. QED
      BY <1>2, <3>1, <3>2
  <2>3. QED
    BY <1>9, <2>1, <2>2 DEF Publish
<1>10. ASSUME NEW t \in Threads, RpcTermed(t) PROVE CountInv'
  <2>1. UNCHANGED <<refCount, holds, client, handle>>
    BY <1>10 DEF RpcTermed, TransportTerms, SM!CallTerm
  <2>2. ASSUME NEW u \in Threads, NEW b \in Bases, Has(u, b) PROVE Has(u, b)'
    <3>1. pc[b] # "idle" => pc'[b] # "idle"
      BY <1>0, <1>10 DEF RpcTermed, TransportTerms, SM!CallTerm, SM!Goto
    <3>2. CASE u = t
      <4>1. client[t] = b[1] /\ b[2] = "transport"
        BY <1>0, <1>10, <2>2, <3>2 DEF RpcTermed, Returned, Rpc, BuildPcs
      <4>2. pc'[b] # "idle"
        BY <1>0, <1>10, <4>1 DEF RpcTermed, TransportTerms, Transport, SM!CallTerm, SM!Goto
      <4>3. QED
        BY <1>0, <1>10, <2>1, <3>2, <4>1, <4>2 DEF RpcTermed
    <3>3. CASE u # t
      BY <1>0, <1>10, <2>1, <2>2, <3>1, <3>3 DEF RpcTermed
    <3>4. QED
      BY <3>2, <3>3
  <2>3. QED
    BY <1>2, <2>1, <2>2
<1>11. ASSUME NEW t \in Threads, TransportTermed(t) PROVE CountInv'
  <2>1. UNCHANGED <<refCount, holds, pc, handle>> /\ \A b \in Bases : ~Has(t, b)
    BY <1>0, <1>11 DEF TransportTermed, managed, Returned, Transport, BuildPcs
  <2>2. QED
    BY <1>0, <1>2, <1>11, <2>1 DEF TransportTermed
<1>12. ASSUME UNCHANGED <<managed, control>> PROVE CountInv'
  BY <1>2, <1>12 DEF managed, control
<1>13. ASSUME NEW t \in Threads, InManager(t) PROVE CountInv'
  <2>1. PICK b \in Bases : SM!Step(b) /\ UNCHANGED <<at, client, handle>>
    BY <1>13, BaseOf DEF InManager, BuildPcs, DestroyPcs, control
  <2>2. /\ \A c \in Bases \ {b} : pc'[c] = pc[c] /\ holds'[c] = holds[c]
        /\ pc[b] # "idle"
    BY <2>1, StepMoves
  <2>3. Due \ {b} = Due' \ {b}
    BY <2>1, <2>2 DEF Due
  <2>4. CASE SM!CountIn(b) /\ pc[b] \in SM!InitPcs
    <3>1. ~holds[b] /\ b \notin Due
      BY <2>1, <2>4 DEF LifeInv, Unused, Due
    <3>2. holds'[b] /\ refCount' = refCount + 1
      BY <1>0, <2>1, <2>4 DEF SM!CountIn
    <3>3. PICK u \in Threads : Base(u) = b /\ Initing(u)
      BY <2>1, <2>2, <2>4 DEF PcInv, SM!InitPcs, SM!TermPcs
    <3>4. Has(u, b)'
      BY <2>1, <3>3 DEF Initing, Base, Transport, Rpc, BuildPcs
    <3>5. b \in Due'
      BY <2>1, <3>2, <3>4 DEF Due
    <3>6. Due' = Due \cup {b}
      BY <2>3, <3>1, <3>5
    <3>7. Cardinality(Due') = Cardinality(Due) + 1
      BY <1>1, <3>1, <3>6, FS_AddElement
    <3>8. QED
      BY <1>0, <1>1, <3>2, <3>7 DEF CountInv
  <2>5. CASE SM!TermSub(b)
    <3>1. refCount' = refCount - 1
      BY <2>5 DEF SM!TermSub
    <3>2. /\ IsFiniteSet(Due \ {b})
          /\ Cardinality(Due \ {b}) = IF b \in Due THEN Cardinality(Due) - 1 ELSE Cardinality(Due)
      BY <1>1, FS_RemoveElement
    <3>3. Cardinality(Due \ {b}) <= Cardinality(Due')
      BY <1>1, <2>3, FS_Subset
    <3>4. QED
      BY <1>0, <1>1, <3>1, <3>2, <3>3 DEF CountInv
  <2>6. CASE refCount = 0 /\ UNCHANGED refCount
    BY <1>1, <2>6 DEF CountInv
  <2>7. ASSUME UNCHANGED <<refCount, holds>>, ~holds[b] \/ pc'[b] # "idle" PROVE CountInv'
    <3>1. ASSUME NEW c \in Due PROVE c \in Due'
      <4>1. PICK u \in Threads : Has(u, c)
        BY <3>1 DEF Due
      <4>2. c = b => pc'[b] # "idle"
        BY <2>7, <3>1 DEF Due
      <4>3. pc[c] # "idle" => pc'[c] # "idle"
        BY <2>2, <3>1, <4>2 DEF Due
      <4>4. Has(u, c)'
        BY <2>1, <4>1, <4>3
      <4>5. QED
        BY <2>7, <3>1, <4>4 DEF Due
    <3>2. Cardinality(Due) <= Cardinality(Due')
      BY <1>1, <3>1, FS_Subset
    <3>3. QED
      BY <1>0, <1>1, <2>7, <3>2 DEF CountInv
  <2>8. pc[b] \in SM!InitPcs \cup {"termZero", "termClose"} => ~holds[b]
    BY <2>1 DEF LifeInv, Unused
  <2>9. CASE SM!InitLoad(b) \/ SM!InitRecheck(b) \/ SM!InitOpen(b) \/ SM!TermZero(b) \/ SM!TermClose(b)
    BY <2>7, <2>8, <2>9
    DEF SM!InitLoad, SM!InitRecheck, SM!InitOpen, SM!TermZero, SM!TermClose, SM!InitPcs
  <2>10. CASE SM!InitFastAdd(b) \/ SM!InitCount(b)
    BY <2>4, <2>10 DEF SM!InitFastAdd, SM!InitCount, SM!InitPcs
  <2>11. CASE SM!TermCheck(b)
    BY <1>0, <2>1, <2>6, <2>7, <2>11 DEF SM!TermCheck, SM!Goto
  <2>12. QED
    BY <2>1, <2>5, <2>9, <2>10, <2>11 DEF SM!Step
<1>14. QED
  BY <1>3, <1>4, <1>5, <1>6, <1>7, <1>8, <1>9, <1>10, <1>11, <1>12, <1>13, NextCases DEF Invoke, Completed, vars

-----------------------------------------------------------------------------
(* The inductive invariant and what it implies *)

IInv == ControlInv /\ ManagerInv /\ PcInv /\ LifeInv /\ CountInv

LEMMA InitIInv == Init => IInv
<1> SUFFICES ASSUME Init PROVE IInv
  OBVIOUS
<1> USE DEF Init, SM!Init
<1>1. Undecided = {} /\ Due = {}
  BY DEF Undecided, Due
<1>2. ControlOK
  <2>1. made \in 0..MaxClients
    BY MaxClientsNat
  <2>2. \A t \in Threads : guard # t /\ at[t] = "idle" /\ client[t] = Nobody /\ handle[t] = Nobody
    BY NoOneApart
  <2>3. QED
    BY <2>1, <2>2 DEF ControlOK, BuildPcs, DestroyPcs
<1>3. RoomInv /\ CountInv
  <2>1. Cardinality(Undecided) = 0 /\ Cardinality(Due) = 0
    BY <1>1, FS_EmptySet
  <2>2. made = 0 /\ refCount = 0
    OBVIOUS
  <2>3. QED
    BY <2>1, <2>2, MaxClientsNat DEF RoomInv, CountInv
<1>4. FreshInv /\ CurrentInv /\ OwnInv
  BY DEF FreshInv, CurrentInv, OwnInv, Nobody, BuildPcs
<1>5. ManagerInv
  BY NoOneNoBase DEF ManagerInv, SM!TypeOK, SM!MutexInv, SubInv, SM!NoSessionLeak, SM!UsedInv, SM!OpeningInv,
     SM!LockedPcs, SM!NullSession, SM!Nullopt
<1>6. PcInv
  BY DEF PcInv
<1>7. LifeInv
  BY DEF LifeInv, Unused, Rpc, SM!InitPcs
<1>8. QED
  BY <1>2, <1>3, <1>4, <1>5, <1>6, <1>7 DEF IInv, ControlInv

LEMMA ManagerInvStep ==
  ASSUME ManagerInv, ControlOK, ControlOK', [Next]_vars
  PROVE  ManagerInv'
<1>1. CASE UNCHANGED managed
  BY <1>1 DEF managed, ManagerInv, SM!TypeOK, SM!MutexInv, SubInv, SM!NoSessionLeak, SM!UsedInv, SM!OpeningInv
<1>2. CASE \E b \in Bases : ManagerStep(b)
  BY <1>2, ManagerTypeStep, ManagerMutexStep, ManagerSessionStep DEF ManagerInv
<1>3. QED
  BY <1>1, <1>2, ManagerCases

LEMMA StepIInv == IInv /\ [Next]_vars => IInv'
<1> SUFFICES ASSUME IInv, [Next]_vars PROVE IInv'
  OBVIOUS
<1> USE DEF IInv, ControlInv
<1>1. RoomInv' /\ ControlOK'
  BY RoomStep, ControlOKStep
<1>2. FreshInv' /\ CurrentInv' /\ OwnInv'
  BY <1>1, OwnStep
<1>3. ManagerInv'
  BY <1>1, ManagerInvStep
<1>4. PcInv' /\ LifeInv' /\ CountInv'
  BY <1>1, PcStep, LifeStep, CountStep DEF ManagerInv
<1>5. QED
  BY <1>1, <1>2, <1>3, <1>4

LEMMA Inductive == Spec => []IInv
  BY InitIInv, StepIInv, PTL DEF Spec

(* Every reachable state has its type, whatever opening a session does.    *)
THEOREM TypeCorrect == Spec => []TypeOK
<1>1. IInv => TypeOK
  BY DEF IInv, ControlInv, ControlOK, ManagerInv, TypeOK
<1>2. QED
  BY <1>1, Inductive, PTL

(* All shared_ptrs in the hands of the threads refer to one client.        *)
THEOREM AtMostOneClient == Spec => []OneClient
<1>1. IInv => OneClient
  BY DEF IInv, ControlInv, CurrentInv, OneClient
<1>2. QED
  BY <1>1, Inductive, PTL

(* No destructor runs under a handle, and none runs twice.                 *)
THEOREM DestroysAlone == Spec => []DestroyedAlone
<1>1. IInv => DestroyedAlone
  BY DEF IInv, ControlInv, ControlOK, OwnInv, DestroyedAlone
<1>2. QED
  BY <1>1, Inductive, PTL

(* When every thread is out with nothing in hand, no session is open and   *)
(* no count is left, though failed bases count out what they never counted. *)
THEOREM LeavesNothing == Spec => []NothingLeft
<1>1. IInv => NothingLeft
  <2> SUFFICES ASSUME IInv, \A t \in Threads : at[t] = "idle" /\ handle[t] = Nobody
               PROVE  open = {} /\ refCount = 0
    BY DEF NothingLeft
  <2> USE DEF IInv
  <2>1. \A b \in Bases : pc[b] = "idle"
    BY DEF PcInv, Initing, Terming
  <2>2. Due = {}
    BY DEF Due, Has, InHand, Building, Ending, BuildPcs, Bases, Clients, Nobody
  <2>3. refCount = 0
    BY <2>2, FS_EmptySet DEF CountInv, ManagerInv, SM!TypeOK
  <2>4. open = {}
    BY <2>1, <2>3 DEF ManagerInv, SM!UsedInv
  <2>5. QED
    BY <2>3, <2>4
<1>2. QED
  BY <1>1, Inductive, PTL
=============================================================================
