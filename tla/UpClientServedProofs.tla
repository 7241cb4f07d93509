------------------------ MODULE UpClientServedProofs ------------------------
(***************************************************************************)
(* Proofs of what UpClient promises as long as no session fails to open,   *)
(* and as long as no init() overlaps a term().                             *)
(***************************************************************************)
EXTENDS UpClientProofs

(* What has counted in: the transport of a client from the end of its      *)
(* init() until its term(), the rpc client likewise.                       *)
TransportIn(t) ==
  \/ at[t] \in {"transportValue", "rpcStart", "rpcInit", "rpcValue", "publish", "rpcTerm"}
  \/ at[t] = "transportInit" /\ pc[Transport(t)] = "idle"

RpcIn(t) ==
  \/ at[t] \in {"rpcValue", "publish"}
  \/ at[t] = "rpcInit" /\ pc[Rpc(t)] = "idle"

CountedInv ==
  /\ \A t \in Threads :
       /\ TransportIn(t) => holds[Transport(t)]
       /\ RpcIn(t) => holds[Rpc(t)]
       /\ handle[t] # Nobody => holds[<<handle[t], "transport">>] /\ holds[<<handle[t], "rpc">>]
  /\ \A b \in Bases : pc[b] \in {"termLock", "termSub"} => holds[b]

CountExact == refCount = Cardinality(SM!Holders)

(* Every term() is then due, so that the count is exact, and a base that   *)
(* has counted in never finds it zero.                                     *)
PaidInv == ~OpenFailed => CountedInv /\ CountExact /\ ended # "terminate"

(* The history variable does not miss an overlap.                          *)
OverlapInv == ~overlap => ~(SM!InitInProgress /\ SM!TermInProgress)

(* The copies of the session the bases of a client have taken.             *)
CopiedInv ==
  \A t \in Threads :
    /\ at[t] \in {"transportValue", "rpcStart", "rpcInit", "rpcValue", "publish"} => copy[Transport(t)] = session
    /\ at[t] \in {"rpcValue", "publish", "rpcTerm"} => copy[Rpc(t)] = session
    /\ handle[t] # Nobody =>
         copy[<<handle[t], "transport">>] = session /\ copy[<<handle[t], "rpc">>] = session

ServedInv == ~OpenFailed /\ ~overlap => SM!SerialInv /\ CopiedInv

(* A client with requests in flight is in hand, or waits for its pool.     *)
BusyInv ==
  \A c \in busy : \E t \in Threads : handle[t] = c \/ (client[t] = c /\ at[t] = "rpcTerm")

StrongInv == IInv /\ PaidInv /\ OverlapInv /\ ServedInv /\ BusyInv

-----------------------------------------------------------------------------
(* A thread inside a call of init() or term(): its base is in that call,   *)
(* and in no other thread's.                                               *)
LEMMA InCall ==
  ASSUME IInv, NEW t \in Threads, InManager(t)
  PROVE  \E b \in Bases :
           /\ b = Base(t) /\ SM!Step(b) /\ UNCHANGED control
           /\ b[1] = client[t] /\ client[t] # Nobody
           /\ (Initing(t) /\ pc[b] \in SM!InitPcs) \/ (Terming(t) /\ pc[b] \in SM!TermPcs)
           /\ \A u \in Threads : handle[u] # client[t] /\ (u # t => client[u] # client[t])
<1> DEFINE b == Base(t)
<1>1. b \in Bases /\ SM!Step(b) /\ UNCHANGED control /\ b[1] = client[t] /\ client[t] # Nobody
  <2>1. at[t] \in BuildPcs \cup DestroyPcs
    BY DEF InManager, BuildPcs, DestroyPcs
  <2>2. client[t] # Nobody
    BY <2>1 DEF IInv, ControlInv, ControlOK
  <2>3. QED
    BY <2>1, <2>2, BaseOf DEF IInv, ControlInv, InManager, Base, Transport, Rpc
<1>2. \A u \in Threads : handle[u] # client[t] /\ (u # t => client[u] # client[t])
  BY <1>1 DEF IInv, ControlInv, OwnInv
<1>3. pc[b] # "idle"
  BY <1>1, StepMoves DEF IInv, ManagerInv
<1>4. PICK u \in Threads : /\ Base(u) = b /\ (Initing(u) \/ Terming(u))
                           /\ Initing(u) => pc[b] \in SM!InitPcs
                           /\ Terming(u) => pc[b] \in SM!TermPcs
  BY <1>1, <1>3 DEF IInv, PcInv
<1>5. u = t
  <2>1. client[u] = b[1]
    BY <1>4 DEF Base, Transport, Rpc
  <2>2. QED
    BY <1>1, <1>2, <2>1
<1>6. QED
  BY <1>1, <1>2, <1>4, <1>5

(* A step outside the calls leaves the count and the session alone, and    *)
(* starts a call at most.                                                  *)
LEMMA Outside ==
  ASSUME SM!TypeOK, [Next]_vars, ~ \E t \in Threads : InManager(t)
  PROVE  /\ UNCHANGED <<refCount, session, open, opens, holds, result>>
         /\ \A b \in Bases : pc'[b] \in {pc[b], "initLoad", "termLock"}
<1> DEFINE Goal == /\ UNCHANGED <<refCount, session, open, opens, holds, result>>
                   /\ \A b \in Bases : pc'[b] \in {pc[b], "initLoad", "termLock"}
<1>0. pc \in [Bases -> {"idle"} \cup SM!InitPcs \cup SM!TermPcs]
  BY DEF SM!TypeOK
<1>1. CASE UNCHANGED managed
  BY <1>1 DEF managed
<1>2. ASSUME NEW b, SM!CallInit(b) \/ SM!CallTerm(b) \/ SM!GetSession(b) PROVE Goal
  BY <1>0, <1>2 DEF SM!CallInit, SM!CallTerm, SM!GetSession, SM!Goto
<1>3. ASSUME NEW t \in Threads, Call(t) \/ Drop(t) \/ Look(t) \/ Lock(t) \/ Enter(t) PROVE Goal
  BY <1>1, <1>2, <1>3 DEF Call, Drop, Look, Lock, Enter, Build
<1>4. ASSUME NEW t \in Threads, TransportHas(t) \/ TransportValue(t) \/ RpcStart(t) \/ RpcHas(t) \/ RpcValue(t)
      PROVE  Goal
  BY <1>1, <1>2, <1>4 DEF TransportHas, TransportValue, RpcStart, RpcHas, RpcValue, ValueOrTerminate
<1>5. ASSUME NEW t \in Threads, Publish(t) \/ RpcTermed(t) \/ TransportTermed(t) PROVE Goal
  BY <1>1, <1>2, <1>5 DEF Publish, RpcTermed, TransportTermed, TransportTerms
<1>6. QED
  BY <1>1, <1>3, <1>4, <1>5, NextCases DEF Invoke, Completed, vars

(* A base that failed has returned from its one init(): the failure stays. *)
LEMMA FailureStays ==
  ASSUME IInv, [Next]_vars, OpenFailed
  PROVE  OpenFailed'
<1>1. PICK f \in Bases : result[f] = "INTERNAL"
  BY DEF OpenFailed
<1>2. ASSUME NEW t \in Threads, InManager(t) PROVE result'[f] = "INTERNAL"
  <2>1. PICK b \in Bases : SM!Step(b)
    BY <1>2, InCall
  <2>2. pc[f] \notin SM!InitPcs
    BY <1>1 DEF IInv, LifeInv, Unused
  <2>3. CASE b = f
    BY <1>1, <2>1, <2>2, <2>3 DEF IInv, ManagerInv, SM!TypeOK, SM!Step, SM!InitLoad, SM!InitFastAdd, SM!InitRecheck,
      SM!InitOpen, SM!InitCount, SM!TermCheck, SM!TermSub, SM!TermZero, SM!TermClose, SM!InitPcs
  <2>4. CASE b # f
    BY <1>1, <2>1, <2>4, StepMoves DEF IInv, ManagerInv
  <2>5. QED
    BY <2>3, <2>4
<1>3. ASSUME ~ \E t \in Threads : InManager(t) PROVE result'[f] = "INTERNAL"
  BY <1>1, <1>3, Outside DEF IInv, ManagerInv
<1>4. result'[f] = "INTERNAL"
  BY <1>2, <1>3
<1>5. QED
  BY <1>4 DEF OpenFailed

(* What a step inside a call does to the marks of its base.                *)
LEMMA StepMarks ==
  ASSUME SM!TypeOK, NEW b \in Bases, SM!Step(b)
  PROVE  /\ holds[b] /\ ~holds'[b] => pc[b] = "termSub"
         /\ pc[b] \in SM!InitPcs /\ pc'[b] = "idle" => holds'[b] \/ result'[b] = "INTERNAL"
         /\ pc'[b] \in {"termLock", "termSub"} => pc[b] \in {"termLock", "termSub"} /\ holds'[b] = holds[b]
<1> USE DEF SM!TypeOK, SM!InitPcs, SM!TermPcs, SM!Goto, SM!Return, SM!CountIn
<1>1. CASE SM!InitLoad(b) \/ SM!InitRecheck(b)
  BY <1>1 DEF SM!InitLoad, SM!InitRecheck
<1>2. CASE SM!InitFastAdd(b) \/ SM!InitCount(b)
  BY <1>2 DEF SM!InitFastAdd, SM!InitCount
<1>3. CASE SM!InitOpen(b)
  BY <1>3 DEF SM!InitOpen
<1>4. CASE SM!TermCheck(b) \/ SM!TermSub(b) \/ SM!TermZero(b) \/ SM!TermClose(b)
  BY <1>4 DEF SM!TermCheck, SM!TermSub, SM!TermZero, SM!TermClose
<1>5. QED
  BY <1>1, <1>2, <1>3, <1>4 DEF SM!Step

(* Who has counted in keeps its count until its own term().                *)
LEMMA CountedStep ==
  ASSUME IInv, CountedInv, ~OpenFailed', [Next]_vars
  PROVE  CountedInv'
<1>0. /\ at \in [Threads -> {"idle", "look", "lock", "enter"} \cup BuildPcs \cup DestroyPcs]
      /\ client \in [Threads -> {Nobody} \cup Clients] /\ handle \in [Threads -> {Nobody} \cup Clients]
      /\ \A t \in Threads : handle[t] # Nobody => at[t] = "idle"
      /\ \A t \in Threads : client[t] # Nobody <=> at[t] \in BuildPcs \cup DestroyPcs
      /\ pc \in [Bases -> {"idle"} \cup SM!InitPcs \cup SM!TermPcs]
      /\ holds \in [Bases -> BOOLEAN]
      /\ made \in 0..MaxClients /\ wHandle \in {Nobody} \cup Clients /\ SM!TypeOK
  BY DEF IInv, ControlInv, ControlOK, ManagerInv, SM!TypeOK
<1>1. /\ \A c \in Clients : <<c, "transport">> \in Bases /\ <<c, "rpc">> \in Bases
      /\ \A t \in Threads : at[t] \in BuildPcs \cup DestroyPcs => Transport(t) \in Bases /\ Rpc(t) \in Bases
      /\ \A t \in Threads : handle[t] # Nobody => handle[t] \in Clients
  BY <1>0 DEF Bases, Transport, Rpc
<1> USE DEF TransportIn, RpcIn, Transport, Rpc
(* A step of one thread that leaves the counts alone. *)
<1>2. ASSUME NEW t \in Threads, UNCHANGED holds,
             \A u \in Threads \ {t} : at'[u] = at[u] /\ client'[u] = client[u] /\ handle'[u] = handle[u],
             \A b \in Bases : pc[b] # "idle" => pc'[b] # "idle",
             \A b \in Bases : pc'[b] \in {"termLock", "termSub"} => holds[b],
             TransportIn(t)' => holds[<<client'[t], "transport">>],
             RpcIn(t)' => holds[<<client'[t], "rpc">>],
             handle'[t] # Nobody => holds[<<handle'[t], "transport">>] /\ holds[<<handle'[t], "rpc">>]
      PROVE  CountedInv'
  <2>1. ASSUME NEW u \in Threads \ {t}
        PROVE  /\ TransportIn(u)' => TransportIn(u)
               /\ RpcIn(u)' => RpcIn(u)
    <3>1. CASE at[u] \in BuildPcs
      BY <1>1, <1>2, <2>1, <3>1
    <3>2. CASE at[u] \notin BuildPcs
      BY <1>2, <2>1, <3>2 DEF BuildPcs
    <3>3. QED
      BY <3>1, <3>2
  <2>2. QED
    BY <1>2, <2>1 DEF CountedInv
<1>3. CountedInv
  OBVIOUS
<1> USE DEF Goto, Give
<1>4. ASSUME NEW t \in Threads, Call(t) \/ Look(t) \/ TransportTermed(t) PROVE CountedInv'
  <2>1. UNCHANGED <<managed, handle>> /\ at'[t] \in {"idle", "look", "lock"}
    BY <1>0, <1>4 DEF Call, Look, TransportTermed
  <2>2. \A u \in Threads \ {t} : at'[u] = at[u] /\ client'[u] = client[u]
    BY <1>0, <1>4 DEF Call, Look, TransportTermed
  <2>3. QED
    BY <1>0, <1>2, <2>1, <2>2 DEF CountedInv, managed
<1>5. ASSUME NEW t \in Threads, Drop(t) PROVE CountedInv'
  <2>1. CASE UNCHANGED <<managed, client, at>>
    BY <1>0, <1>2, <1>5, <2>1 DEF CountedInv, Drop, managed
  <2>2. CASE SM!CallTerm(<<handle[t], "rpc">>) /\ client' = [client EXCEPT ![t] = handle[t]] /\ Goto(t, "rpcTerm")
    <3>1. holds[<<handle[t], "transport">>] /\ holds[<<handle[t], "rpc">>] /\ handle[t] # Nobody
      BY <1>5 DEF CountedInv, Drop
    <3>2. /\ UNCHANGED holds
          /\ \A b \in Bases : pc[b] # "idle" => pc'[b] # "idle"
          /\ \A b \in Bases : pc'[b] \in {"termLock", "termSub"} => holds[b]
      BY <1>0, <2>2, <3>1 DEF CountedInv, SM!CallTerm, SM!Goto
    <3>3. QED
      BY <1>0, <1>2, <1>5, <2>2, <3>1, <3>2 DEF Drop
  <2>3. QED
    BY <1>5, <2>1, <2>2 DEF Drop
<1>6. ASSUME NEW t \in Threads, Lock(t) PROVE CountedInv'
  <2>1. CASE Alive(seen[t]) /\ Give(t, seen[t]) /\ Goto(t, "idle")
    BY <1>0, <1>2, <1>6, <2>1 DEF CountedInv, Lock, Alive, managed
  <2>2. CASE UNCHANGED handle /\ (Goto(t, "enter") \/ UNCHANGED at)
    BY <1>0, <1>2, <1>6, <2>2 DEF CountedInv, Lock, managed
  <2>3. QED
    BY <1>6, <2>1, <2>2 DEF Lock
<1>7. ASSUME NEW t \in Threads, Enter(t) PROVE CountedInv'
  <2>1. CASE UNCHANGED <<managed, client>> /\ Alive(wHandle) /\ Give(t, wHandle) /\ Goto(t, "idle")
    BY <1>0, <1>2, <1>7, <2>1 DEF CountedInv, Enter, Alive, managed
  <2>2. CASE Build(t) /\ UNCHANGED handle
    <3>1. client'[t] = made' /\ made' \in Clients
      BY <1>0, <1>7, <2>2, RoomStep, MaxClientsNat DEF Build, Clients, IInv, ControlInv
    <3>2. /\ UNCHANGED holds /\ pc'[<<made', "transport">>] = "initLoad"
          /\ \A b \in Bases : pc[b] # "idle" => pc'[b] # "idle"
          /\ \A b \in Bases : pc'[b] \in {"termLock", "termSub"} => holds[b]
      BY <1>0, <1>1, <2>2, <3>1 DEF CountedInv, Build, SM!CallInit, SM!Goto
    <3>3. handle[t] = Nobody
      BY <1>0, <1>7 DEF Enter
    <3>4. QED
      BY <1>0, <1>2, <2>2, <3>1, <3>2, <3>3 DEF Build
  <2>3. QED
    BY <1>7, <2>1, <2>2 DEF Enter, BuiltMeanwhile
<1>8. ASSUME NEW t \in Threads, TransportHas(t) \/ TransportValue(t) \/ RpcHas(t) \/ RpcValue(t) PROVE CountedInv'
  <2>1. UNCHANGED <<pc, holds, client, handle>>
    BY <1>8 DEF TransportHas, TransportValue, RpcHas, RpcValue, ValueOrTerminate, SM!GetSession, managed
  <2>2. at[t] \in BuildPcs /\ \A u \in Threads \ {t} : at'[u] = at[u]
    BY <1>0, <1>8 DEF TransportHas, TransportValue, RpcHas, RpcValue, ValueOrTerminate, BuildPcs
  <2>3. TransportIn(t) /\ (RpcIn(t)' => RpcIn(t))
    BY <1>0, <1>8, <2>1 DEF TransportHas, TransportValue, RpcHas, RpcValue, ValueOrTerminate, Returned
  <2>4. QED
    BY <1>0, <1>2, <2>1, <2>2, <2>3 DEF CountedInv
<1>9. ASSUME NEW t \in Threads, RpcStart(t) PROVE CountedInv'
  <2>1. /\ UNCHANGED <<holds, client, handle>> /\ at' = [at EXCEPT ![t] = "rpcInit"]
        /\ pc'[Rpc(t)] = "initLoad" /\ TransportIn(t)
        /\ \A b \in Bases : pc[b] # "idle" => pc'[b] # "idle"
        /\ \A b \in Bases : pc'[b] \in {"termLock", "termSub"} => holds[b]
    BY <1>0, <1>1, <1>9 DEF CountedInv, RpcStart, SM!CallInit, SM!Goto, BuildPcs
  <2>2. QED
    BY <1>0, <1>2, <2>1 DEF CountedInv
<1>10. ASSUME NEW t \in Threads, Publish(t) PROVE CountedInv'
  <2>0. TransportIn(t) /\ RpcIn(t) /\ at[t] \in BuildPcs
    BY <1>10 DEF Publish, BuildPcs
  <2>1. CASE UNCHANGED managed /\ Goto(t, "idle") /\ client' = [client EXCEPT ![t] = Nobody] /\ Give(t, client[t])
    BY <1>0, <1>2, <1>10, <2>0, <2>1 DEF CountedInv, Publish, managed
  <2>2. CASE SM!CallTerm(Rpc(t)) /\ UNCHANGED <<client, handle>> /\ Goto(t, "rpcTerm")
    <3>1. /\ UNCHANGED holds
          /\ \A b \in Bases : pc[b] # "idle" => pc'[b] # "idle"
          /\ \A b \in Bases : pc'[b] \in {"termLock", "termSub"} => holds[b]
      BY <1>0, <2>0, <2>2 DEF CountedInv, SM!CallTerm, SM!Goto
    <3>2. QED
      BY <1>0, <1>2, <2>0, <2>2, <3>1 DEF CountedInv
  <2>3. QED
    BY <1>10, <2>1, <2>2 DEF Publish
<1>11. ASSUME NEW t \in Threads, RpcTermed(t) PROVE CountedInv'
  <2>1. /\ UNCHANGED <<holds, client, handle>> /\ at' = [at EXCEPT ![t] = "transportTerm"]
        /\ TransportIn(t) /\ at[t] \in DestroyPcs
        /\ \A b \in Bases : pc[b] # "idle" => pc'[b] # "idle"
        /\ \A b \in Bases : pc'[b] \in {"termLock", "termSub"} => holds[b]
    BY <1>0, <1>11 DEF CountedInv, RpcTermed, TransportTerms, SM!CallTerm, SM!Goto, DestroyPcs
  <2>2. QED
    BY <1>0, <1>2, <2>1 DEF CountedInv
<1>12. ASSUME UNCHANGED <<managed, control>> PROVE CountedInv'
  BY <1>12 DEF CountedInv, managed, control
<1>13. ASSUME NEW t \in Threads, InManager(t) PROVE CountedInv'
  <2>1. PICK b \in Bases :
           /\ b = Base(t) /\ SM!Step(b) /\ UNCHANGED control
           /\ b[1] = client[t] /\ client[t] # Nobody
           /\ (Initing(t) /\ pc[b] \in SM!InitPcs) \/ (Terming(t) /\ pc[b] \in SM!TermPcs)
           /\ \A u \in Threads : handle[u] # client[t] /\ (u # t => client[u] # client[t])
    BY <1>13, InCall
  <2>2. \A c \in Bases \ {b} : pc'[c] = pc[c] /\ holds'[c] = holds[c]
    BY <1>0, <2>1, StepMoves
  <2>3. /\ holds[b] /\ ~holds'[b] => pc[b] = "termSub"
        /\ pc[b] \in SM!InitPcs /\ pc'[b] = "idle" => holds'[b]
        /\ pc'[b] \in {"termLock", "termSub"} => holds'[b]
    BY <1>0, <2>1, StepMarks DEF OpenFailed, CountedInv
  <2>4. ASSUME NEW u \in Threads, TransportIn(u)' PROVE holds'[Transport(u)]
    <3>1. CASE Transport(u) # b
      <4>1. Transport(u) \in Bases /\ TransportIn(u)
        BY <1>1, <2>1, <2>2, <2>4, <3>1 DEF control, BuildPcs, DestroyPcs
      <4>2. QED
        BY <2>2, <3>1, <4>1 DEF CountedInv
    <3>2. CASE Transport(u) = b
      <4>1. u = t /\ at'[u] = at[u]
        BY <2>1, <3>2 DEF control
      <4>2. at[t] = "transportInit"
        BY <2>1, <2>4, <3>2, <4>1 DEF Base, Initing, Terming
      <4>3. QED
        BY <2>1, <2>3, <2>4, <3>2, <4>1, <4>2 DEF Terming, control
    <3>3. QED
      BY <3>1, <3>2
  <2>5. ASSUME NEW u \in Threads, RpcIn(u)' PROVE holds'[Rpc(u)]
    <3>1. CASE Rpc(u) # b
      <4>1. Rpc(u) \in Bases /\ RpcIn(u)
        BY <1>1, <2>1, <2>2, <2>5, <3>1 DEF control, BuildPcs
      <4>2. QED
        BY <2>2, <3>1, <4>1 DEF CountedInv
    <3>2. CASE Rpc(u) = b
      <4>1. u = t /\ at'[u] = at[u]
        BY <2>1, <3>2 DEF control
      <4>2. at[t] = "rpcInit"
        BY <2>1, <2>5, <3>2, <4>1 DEF Base, Initing, Terming
      <4>3. QED
        BY <2>1, <2>3, <2>5, <3>2, <4>1, <4>2 DEF Terming, control
    <3>3. QED
      BY <3>1, <3>2
  <2>6. ASSUME NEW u \in Threads, handle[u] # Nobody
        PROVE  holds'[<<handle[u], "transport">>] /\ holds'[<<handle[u], "rpc">>]
    <3>1. <<handle[u], "transport">> # b /\ <<handle[u], "rpc">> # b
      BY <2>1
    <3>2. QED
      BY <1>1, <2>2, <2>6, <3>1 DEF CountedInv
  <2>7. ASSUME NEW c \in Bases, pc'[c] \in {"termLock", "termSub"} PROVE holds'[c]
    BY <2>2, <2>3, <2>7 DEF CountedInv
  <2>8. QED
    BY <2>1, <2>4, <2>5, <2>6, <2>7 DEF CountedInv, control
<1>14. QED
  BY <1>4, <1>5, <1>6, <1>7, <1>8, <1>9, <1>10, <1>11, <1>12, <1>13, NextCases DEF Invoke, Completed, vars

(* With every term() due, each count taken or given up is one of Holders.  *)
LEMMA ExactStep ==
  ASSUME IInv, CountedInv, CountExact, [Next]_vars
  PROVE  CountExact'
<1>0. /\ SM!TypeOK /\ refCount \in Nat /\ holds \in [Bases -> BOOLEAN]
      /\ SM!Holders \in SUBSET Bases /\ IsFiniteSet(SM!Holders) /\ Cardinality(SM!Holders) \in Nat
      /\ refCount = Cardinality(SM!Holders)
  <2>1. SM!Holders \in SUBSET Bases
    BY DEF SM!Holders
  <2>2. IsFiniteSet(SM!Holders) /\ Cardinality(SM!Holders) \in Nat
    BY <2>1, FiniteBases
  <2>3. QED
    BY <2>1, <2>2 DEF IInv, ManagerInv, SM!TypeOK, CountExact
<1>1. ASSUME UNCHANGED <<refCount, holds>> PROVE CountExact'
  BY <1>0, <1>1 DEF CountExact, SM!Holders
<1>2. ASSUME NEW t \in Threads, InManager(t) PROVE CountExact'
  <2>1. PICK b \in Bases : SM!Step(b)
    BY <1>2, InCall
  <2>2. CASE SM!InitFastAdd(b) \/ SM!InitCount(b)
    <3>1. b \notin SM!Holders
      BY <2>2 DEF SM!Holders, IInv, LifeInv, Unused, SM!InitFastAdd, SM!InitCount, SM!InitPcs
    <3>2. refCount' = refCount + 1 /\ holds' = [holds EXCEPT ![b] = TRUE]
      BY <2>2 DEF SM!InitFastAdd, SM!InitCount, SM!CountIn
    <3>3. SM!Holders' = SM!Holders \cup {b}
      BY <1>0, <3>2 DEF SM!Holders
    <3>4. Cardinality(SM!Holders \cup {b}) = Cardinality(SM!Holders) + 1
      BY <1>0, <3>1, FS_AddElement
    <3>5. QED
      BY <1>0, <3>2, <3>3, <3>4 DEF CountExact
  <2>3. CASE SM!TermSub(b)
    <3>1. b \in SM!Holders
      BY <2>3 DEF SM!Holders, CountedInv, SM!TermSub
    <3>2. refCount' = refCount - 1 /\ holds' = [holds EXCEPT ![b] = FALSE]
      BY <2>3 DEF SM!TermSub
    <3>3. SM!Holders' = SM!Holders \ {b}
      BY <1>0, <3>2 DEF SM!Holders
    <3>4. Cardinality(SM!Holders \ {b}) = Cardinality(SM!Holders) - 1
      BY <1>0, <3>1, FS_RemoveElement
    <3>5. QED
      BY <1>0, <3>2, <3>3, <3>4 DEF CountExact
  <2>4. CASE SM!InitLoad(b) \/ SM!InitRecheck(b) \/ SM!InitOpen(b) \/ SM!TermCheck(b) \/ SM!TermZero(b) \/ SM!TermClose(b)
    BY <1>1, <2>4 DEF SM!InitLoad, SM!InitRecheck, SM!InitOpen, SM!TermCheck, SM!TermZero, SM!TermClose
  <2>5. QED
    BY <2>1, <2>2, <2>3, <2>4 DEF SM!Step
<1>3. QED
  BY <1>0, <1>1, <1>2, Outside

LEMMA HolderCounts ==
  ASSUME IInv, CountExact, NEW b \in Bases, holds[b]
  PROVE  refCount > 0
<1>1. SM!Holders \in SUBSET Bases /\ b \in SM!Holders
  BY DEF SM!Holders
<1>2. IsFiniteSet(SM!Holders) /\ Cardinality(SM!Holders) \in Nat
  BY <1>1, FiniteBases
<1>3. Cardinality(SM!Holders) # 0
  BY <1>1, <1>2, FS_EmptySet
<1>4. QED
  BY <1>2, <1>3 DEF CountExact

(* A number of a session is never Nullopt, which getSession() gives only   *)
(* for a count of zero.                                                    *)
LEMMA GetsSession ==
  ASSUME IInv, NEW b \in Bases, SM!GetSession(b), refCount > 0
  PROVE  copy' = [copy EXCEPT ![b] = session] /\ copy'[b] = session /\ session # SM!Nullopt
  BY DEF IInv, ManagerInv, SM!TypeOK, SM!GetSession, SM!Nullopt

LEMMA PaidStep ==
  ASSUME IInv, PaidInv, [Next]_vars
  PROVE  PaidInv'
<1> SUFFICES ASSUME ~OpenFailed' PROVE CountedInv' /\ CountExact' /\ ended' # "terminate"
  BY DEF PaidInv
<1>1. CountedInv /\ CountExact /\ ended # "terminate"
  BY FailureStays DEF PaidInv
<1>2. ASSUME NEW t \in Threads, TransportValue(t) \/ RpcValue(t) PROVE ended' # "terminate"
  <2>1. at[t] \in {"transportValue", "rpcValue"} /\ Transport(t) \in Bases /\ Rpc(t) \in Bases
    BY <1>2, BaseOf DEF TransportValue, RpcValue, BuildPcs, IInv, ControlInv
  <2>2. /\ at[t] = "transportValue" => holds[Transport(t)]
        /\ at[t] = "rpcValue" => holds[Rpc(t)]
    BY <1>1 DEF CountedInv, TransportIn, RpcIn
  <2>3. refCount > 0
    BY <1>1, <2>1, <2>2, HolderCounts
  <2>4. PICK b \in Bases : SM!GetSession(b) /\ \/ copy'[b] # SM!Nullopt /\ UNCHANGED ended
                                               \/ copy'[b] = SM!Nullopt
    BY <1>2, <2>1 DEF TransportValue, RpcValue, ValueOrTerminate
  <2>5. QED
    BY <1>1, <2>3, <2>4, GetsSession
<1>3. ASSUME NEW t \in Threads,
             \/ Call(t) \/ Drop(t) \/ Look(t) \/ Lock(t) \/ Enter(t) \/ TransportHas(t) \/ RpcStart(t) \/ RpcHas(t)
             \/ Publish(t) \/ RpcTermed(t) \/ TransportTermed(t) \/ InManager(t)
      PROVE  ended' # "terminate"
  BY <1>1, <1>3 DEF Call, Drop, Look, Lock, Enter, TransportHas, RpcStart, RpcHas, Publish, RpcTermed, TransportTermed,
    InManager, control
<1>4. ended' # "terminate"
  BY <1>1, <1>2, <1>3, NextCases DEF Invoke, Completed, control, vars
<1>5. QED
  BY <1>1, <1>4, CountedStep, ExactStep

LEMMA OverlapSeen ==
  ASSUME OverlapInv, [Next]_vars
  PROVE  OverlapInv' /\ (overlap => overlap')
<1>1. CASE Track
  BY <1>1 DEF Track, OverlapInv
<1>2. CASE UNCHANGED vars
  BY <1>2 DEF vars, managed, OverlapInv, SM!InitInProgress, SM!TermInProgress
<1>3. QED
  BY <1>1, <1>2 DEF Next, Working, Resting

(* As long as no init() overlaps a term(), a count above zero stands for   *)
(* the open session, to those who only look at it, too.                    *)
LEMMA SerialStep ==
  ASSUME IInv, SM!SerialInv, OverlapInv', ~overlap', ~OpenFailed', [Next]_vars
  PROVE  SM!SerialInv'
<1>0. /\ SM!TypeOK /\ SM!MutexInv /\ SM!OpeningInv
      /\ refCount \in Nat /\ pc \in [Bases -> {"idle"} \cup SM!InitPcs \cup SM!TermPcs]
      /\ ~(SM!InitInProgress /\ SM!TermInProgress)'
  BY DEF IInv, ManagerInv, SM!TypeOK, OverlapInv
<1>1. /\ refCount > 0 => session \in open
      /\ \A c \in Bases : pc[c] = "initAdd" => refCount > 0
      /\ \A c \in Bases : pc[c] = "initCount" => session \in open
      /\ \A c \in Bases : pc[c] = "termClose" => refCount = 0
      /\ \A c \in Bases : pc[c] = "initOpen" => refCount = 0
  BY <1>0 DEF SM!SerialInv, SM!OpeningInv
<1> DEFINE Kept == /\ refCount > 0 => session \in open
                   /\ \A c \in Bases : pc[c] = "initAdd" => refCount > 0
                   /\ \A c \in Bases : pc[c] = "initCount" => session \in open
                   /\ \A c \in Bases : pc[c] = "termClose" => refCount = 0
<1>2. ASSUME NEW t \in Threads, InManager(t) PROVE Kept'
  <2>1. PICK b \in Bases : SM!Step(b)
    BY <1>2, InCall
  <2>2. result'[b] # "INTERNAL"
    BY DEF OpenFailed
  <2>3. \A c \in Bases \ {b} : pc'[c] = pc[c]
    BY <1>0, <2>1, StepMoves
  <2>4. \A c \in Bases : pc[c] \in SM!LockedPcs /\ pc[b] \in SM!LockedPcs => c = b
    BY <1>0 DEF SM!MutexInv
  <2>5. \A c, d \in Bases : ~(pc'[c] \in SM!InitPcs /\ pc'[d] \in SM!TermPcs)
    BY <1>0 DEF SM!InitInProgress, SM!TermInProgress
  <2> USE DEF SM!Goto, SM!Return, SM!CountIn, SM!InitPcs, SM!TermPcs, SM!LockedPcs
  <2>6. CASE SM!InitLoad(b)
    BY <1>0, <1>1, <2>6 DEF SM!InitLoad
  <2>7. CASE SM!InitFastAdd(b)
    <3>1. \A c \in Bases : pc'[c] # "termClose"
      BY <1>0, <1>1, <2>7 DEF SM!InitFastAdd
    <3>2. QED
      BY <1>0, <1>1, <2>7, <3>1 DEF SM!InitFastAdd
  <2>8. CASE SM!InitRecheck(b)
    BY <1>0, <1>1, <2>8 DEF SM!InitRecheck
  <2>9. CASE SM!InitOpen(b)
    <3>1. session' \in open' /\ pc'[b] = "initCount" /\ refCount = 0 /\ UNCHANGED refCount
      BY <1>0, <1>1, <2>2, <2>9 DEF SM!InitOpen, SM!TypeOK
    <3>2. QED
      BY <1>1, <2>3, <3>1
  <2>10. CASE SM!InitCount(b)
    <3>1. \A c \in Bases \ {b} : pc[c] # "termClose"
      BY <2>4, <2>10 DEF SM!InitCount
    <3>2. QED
      BY <1>0, <1>1, <2>10, <3>1 DEF SM!InitCount
  <2>11. CASE SM!TermCheck(b)
    BY <1>0, <1>1, <2>11 DEF SM!TermCheck
  <2>12. CASE SM!TermSub(b)
    <3>1. pc'[b] = "termZero" /\ refCount' = refCount - 1 /\ UNCHANGED <<session, open>>
      BY <1>0, <2>12 DEF SM!TermSub
    <3>2. \A c \in Bases : pc'[c] \notin SM!InitPcs
      BY <2>5, <3>1
    <3>3. \A c \in Bases \ {b} : pc[c] # "termClose"
      BY <2>4, <2>12 DEF SM!TermSub
    <3>4. refCount > 0
      BY <2>12 DEF SM!TermSub, IInv, ManagerInv, SubInv
    <3>5. QED
      BY <1>0, <1>1, <2>3, <3>1, <3>2, <3>3, <3>4
  <2>13. CASE SM!TermZero(b)
    BY <1>0, <1>1, <2>13 DEF SM!TermZero
  <2>14. CASE SM!TermClose(b)
    <3>1. refCount = 0 /\ UNCHANGED refCount /\ pc'[b] = "idle"
      BY <1>0, <1>1, <2>14 DEF SM!TermClose
    <3>2. \A c \in Bases \ {b} : pc[c] # "initCount"
      BY <2>4, <2>14 DEF SM!TermClose
    <3>3. QED
      BY <1>1, <2>3, <3>1, <3>2
  <2>15. QED
    BY <2>1, <2>6, <2>7, <2>8, <2>9, <2>10, <2>11, <2>12, <2>13, <2>14 DEF SM!Step
<1>3. ASSUME ~ \E t \in Threads : InManager(t) PROVE Kept'
  BY <1>0, <1>1, <1>3, Outside
<1>4. QED
  BY <1>0, <1>2, <1>3 DEF SM!SerialInv

(* The session changes only while nobody is counted in, so that a copy     *)
(* stays good as long as its client keeps a base counted in.               *)
LEMMA CopiedStep ==
  ASSUME IInv, CountedInv, CountExact, SM!SerialInv, CopiedInv, ~OpenFailed', [Next]_vars
  PROVE  CopiedInv'
<1>0. /\ at \in [Threads -> {"idle", "look", "lock", "enter"} \cup BuildPcs \cup DestroyPcs]
      /\ client \in [Threads -> Nat] /\ handle \in [Threads -> Nat] /\ made \in Nat /\ Nobody = 0
      /\ \A t \in Threads : client[t] <= made /\ handle[t] <= made
      /\ \A t \in Threads : handle[t] # Nobody => at[t] = "idle"
      /\ \A t \in Threads : client[t] # Nobody <=> at[t] \in BuildPcs \cup DestroyPcs
      /\ SM!TypeOK
  BY MaxClientsNat DEF IInv, ControlInv, ControlOK, FreshInv, ManagerInv, Clients, Nobody
<1>1. copy \in [Bases -> {SM!Nullopt} \cup 0..opens]
  BY <1>0 DEF SM!TypeOK
<1>2. \A t \in Threads : at[t] \in BuildPcs \cup DestroyPcs =>
        /\ Transport(t) \in Bases /\ Rpc(t) \in Bases
        /\ \A u \in Threads : handle[u] # client[t] /\ (u # t => client[u] # client[t])
  BY <1>0, BaseOf DEF IInv, ControlInv, OwnInv
<1> USE DEF Transport, Rpc
(* A step of one thread that leaves the session alone, and the copies of   *)
(* the other threads' clients.                                             *)
<1>3. ASSUME NEW t \in Threads, UNCHANGED session,
             \A u \in Threads \ {t} : at'[u] = at[u] /\ client'[u] = client[u] /\ handle'[u] = handle[u],
             \A u \in Threads \ {t} :
               /\ at[u] \in BuildPcs \cup DestroyPcs =>
                    copy'[Transport(u)] = copy[Transport(u)] /\ copy'[Rpc(u)] = copy[Rpc(u)]
               /\ handle[u] # Nobody =>
                    /\ copy'[<<handle[u], "transport">>] = copy[<<handle[u], "transport">>]
                    /\ copy'[<<handle[u], "rpc">>] = copy[<<handle[u], "rpc">>],
             at'[t] \in {"transportValue", "rpcStart", "rpcInit", "rpcValue", "publish"} =>
               copy'[<<client'[t], "transport">>] = session,
             at'[t] \in {"rpcValue", "publish", "rpcTerm"} => copy'[<<client'[t], "rpc">>] = session,
             handle'[t] # Nobody =>
               copy'[<<handle'[t], "transport">>] = session /\ copy'[<<handle'[t], "rpc">>] = session
      PROVE  CopiedInv'
  BY <1>3 DEF CopiedInv, BuildPcs, DestroyPcs
<1> USE DEF Goto, Give
<1>4. ASSUME NEW t \in Threads, Call(t) \/ Look(t) \/ TransportTermed(t) PROVE CopiedInv'
  <2>1. UNCHANGED <<managed, handle>> /\ at'[t] \in {"idle", "look", "lock"}
    BY <1>0, <1>4 DEF Call, Look, TransportTermed
  <2>2. \A u \in Threads \ {t} : at'[u] = at[u] /\ client'[u] = client[u]
    BY <1>0, <1>4 DEF Call, Look, TransportTermed
  <2>3. QED
    BY <1>0, <1>3, <2>1, <2>2 DEF CopiedInv, managed
<1>5. ASSUME NEW t \in Threads, Drop(t) PROVE CopiedInv'
  <2>1. UNCHANGED <<session, copy>>
    BY <1>5 DEF Drop, managed, SM!CallTerm
  <2>2. CASE UNCHANGED <<client, at>>
    BY <1>0, <1>3, <1>5, <2>1, <2>2 DEF CopiedInv, Drop
  <2>3. CASE client' = [client EXCEPT ![t] = handle[t]] /\ Goto(t, "rpcTerm")
    BY <1>0, <1>3, <1>5, <2>1, <2>3 DEF CopiedInv, Drop
  <2>4. QED
    BY <1>5, <2>2, <2>3 DEF Drop
<1>6. ASSUME NEW t \in Threads, Lock(t) PROVE CopiedInv'
  <2>1. CASE Alive(seen[t]) /\ Give(t, seen[t]) /\ Goto(t, "idle")
    BY <1>0, <1>3, <1>6, <2>1 DEF CopiedInv, Lock, Alive, managed
  <2>2. CASE UNCHANGED handle /\ (Goto(t, "enter") \/ UNCHANGED at)
    BY <1>0, <1>3, <1>6, <2>2 DEF CopiedInv, Lock, managed
  <2>3. QED
    BY <1>6, <2>1, <2>2 DEF Lock
<1>7. ASSUME NEW t \in Threads, Enter(t) PROVE CopiedInv'
  <2>1. CASE UNCHANGED <<managed, client>> /\ Alive(wHandle) /\ Give(t, wHandle) /\ Goto(t, "idle")
    BY <1>0, <1>3, <1>7, <2>1 DEF CopiedInv, Enter, Alive, managed
  <2>2. CASE Build(t) /\ UNCHANGED handle
    <3>1. UNCHANGED session /\ copy' = [copy EXCEPT ![<<made + 1, "transport">>] = SM!Nullopt]
      BY <2>2 DEF Build, SM!CallInit
    <3>2. handle[t] = Nobody /\ at' = [at EXCEPT ![t] = "transportInit"] /\ client' = [client EXCEPT ![t] = made + 1]
      BY <1>0, <1>7, <2>2 DEF Build, Enter
    <3>3. \A u \in Threads : client[u] # made + 1 /\ handle[u] # made + 1
      BY <1>0
    <3>4. \A u \in Threads :
            /\ copy'[Transport(u)] = copy[Transport(u)] /\ copy'[Rpc(u)] = copy[Rpc(u)]
            /\ copy'[<<handle[u], "transport">>] = copy[<<handle[u], "transport">>]
            /\ copy'[<<handle[u], "rpc">>] = copy[<<handle[u], "rpc">>]
      BY <1>1, <3>1, <3>3
    <3>5. /\ \A u \in Threads \ {t} : at'[u] = at[u] /\ client'[u] = client[u] /\ handle'[u] = handle[u]
          /\ at'[t] = "transportInit" /\ handle'[t] = Nobody
      BY <1>0, <2>2, <3>2
    <3>6. QED
      BY <1>3, <3>1, <3>4, <3>5
  <2>3. QED
    BY <1>7, <2>1, <2>2 DEF Enter, BuiltMeanwhile
(* What a constructor copies is the session, for its base has counted in.  *)
<1>8. ASSUME NEW t \in Threads, NEW b \in Bases, SM!GetSession(b), holds[b], b \in {Transport(t), Rpc(t)},
             at[t] \in BuildPcs
      PROVE  /\ UNCHANGED session /\ copy' = [copy EXCEPT ![b] = session] /\ copy'[b] = session
             /\ \A u \in Threads \ {t} :
                  /\ copy'[Transport(u)] = copy[Transport(u)] /\ copy'[Rpc(u)] = copy[Rpc(u)]
                  /\ copy'[<<handle[u], "transport">>] = copy[<<handle[u], "transport">>]
                  /\ copy'[<<handle[u], "rpc">>] = copy[<<handle[u], "rpc">>]
  <2>1. refCount > 0
    BY <1>8, HolderCounts
  <2>2. UNCHANGED session /\ copy' = [copy EXCEPT ![b] = session] /\ copy'[b] = session
    BY <1>8, <2>1, GetsSession DEF SM!GetSession
  <2>3. b[1] = client[t] /\ \A u \in Threads \ {t} : client[u] # client[t] /\ handle[u] # client[t]
    <3>1. b[1] = client[t]
      BY <1>8
    <3>2. QED
      BY <1>2, <1>8, <3>1
  <2>4. QED
    BY <1>1, <2>2, <2>3
<1>9. ASSUME NEW t \in Threads, TransportHas(t) \/ TransportValue(t) PROVE CopiedInv'
  <2>1. at[t] \in BuildPcs /\ SM!GetSession(Transport(t)) /\ TransportIn(t) /\ UNCHANGED <<client, handle>>
    BY <1>9 DEF TransportHas, TransportValue, ValueOrTerminate, TransportIn, Returned, BuildPcs
  <2>2. holds[Transport(t)] /\ Transport(t) \in Bases /\ handle[t] = Nobody
    BY <1>0, <1>2, <2>1 DEF CountedInv, BuildPcs
  <2>3. /\ UNCHANGED session /\ copy'[Transport(t)] = session
        /\ \A u \in Threads \ {t} :
             /\ copy'[Transport(u)] = copy[Transport(u)] /\ copy'[Rpc(u)] = copy[Rpc(u)]
             /\ copy'[<<handle[u], "transport">>] = copy[<<handle[u], "transport">>]
             /\ copy'[<<handle[u], "rpc">>] = copy[<<handle[u], "rpc">>]
    BY <1>8, <2>1, <2>2
  <2>4. at'[t] \in {"transportInit", "transportValue", "rpcStart"} /\ \A u \in Threads \ {t} : at'[u] = at[u]
    BY <1>0, <1>9 DEF TransportHas, TransportValue, ValueOrTerminate
  <2>5. QED
    BY <1>3, <2>1, <2>2, <2>3, <2>4
<1>10. ASSUME NEW t \in Threads, RpcHas(t) \/ RpcValue(t) PROVE CopiedInv'
  <2>1. at[t] \in {"rpcInit", "rpcValue"} /\ RpcIn(t) /\ UNCHANGED <<client, handle>>
    BY <1>10 DEF RpcHas, RpcValue, RpcIn, Returned
  <2>2. /\ holds[Rpc(t)] /\ Rpc(t) \in Bases /\ Transport(t) \in Bases /\ handle[t] = Nobody
        /\ at[t] \in BuildPcs /\ copy[Transport(t)] = session
    BY <1>0, <1>2, <2>1 DEF CountedInv, CopiedInv, BuildPcs
  <2>3. SM!GetSession(Rpc(t))
    BY <1>10, <2>2 DEF RpcHas, RpcValue, ValueOrTerminate, OpenFailed, managed
  <2>4. /\ UNCHANGED session /\ copy'[Rpc(t)] = session /\ copy' = [copy EXCEPT ![Rpc(t)] = session]
        /\ \A u \in Threads \ {t} :
             /\ copy'[Transport(u)] = copy[Transport(u)] /\ copy'[Rpc(u)] = copy[Rpc(u)]
             /\ copy'[<<handle[u], "transport">>] = copy[<<handle[u], "transport">>]
             /\ copy'[<<handle[u], "rpc">>] = copy[<<handle[u], "rpc">>]
    BY <1>8, <2>2, <2>3
  <2>5. copy'[Transport(t)] = session
    BY <1>1, <2>2, <2>4
  <2>6. at'[t] \in {"rpcValue", "publish"} /\ \A u \in Threads \ {t} : at'[u] = at[u]
    BY <1>0, <1>10 DEF RpcHas, RpcValue, ValueOrTerminate
  <2>7. QED
    BY <1>3, <2>1, <2>2, <2>4, <2>5, <2>6
<1>11. ASSUME NEW t \in Threads, RpcStart(t) PROVE CopiedInv'
  <2>1. /\ UNCHANGED <<session, client, handle>> /\ at' = [at EXCEPT ![t] = "rpcInit"]
        /\ copy' = [copy EXCEPT ![Rpc(t)] = SM!Nullopt] /\ at[t] = "rpcStart"
    BY <1>11 DEF RpcStart, SM!CallInit
  <2>2. /\ Rpc(t) \in Bases /\ handle[t] = Nobody /\ copy[Transport(t)] = session
        /\ \A u \in Threads \ {t} : client[u] # client[t] /\ handle[u] # client[t]
    BY <1>0, <1>2, <2>1 DEF CopiedInv, BuildPcs
  <2>3. /\ copy'[Transport(t)] = session
        /\ \A u \in Threads \ {t} :
             /\ copy'[Transport(u)] = copy[Transport(u)] /\ copy'[Rpc(u)] = copy[Rpc(u)]
             /\ copy'[<<handle[u], "transport">>] = copy[<<handle[u], "transport">>]
             /\ copy'[<<handle[u], "rpc">>] = copy[<<handle[u], "rpc">>]
    BY <1>1, <2>1, <2>2
  <2>4. QED
    BY <1>0, <1>3, <2>1, <2>2, <2>3
<1>12. ASSUME NEW t \in Threads, Publish(t) PROVE CopiedInv'
  <2>1. UNCHANGED <<session, copy>> /\ at[t] = "publish"
    BY <1>12 DEF Publish, managed, SM!CallTerm
  <2>2. CASE Goto(t, "idle") /\ client' = [client EXCEPT ![t] = Nobody] /\ Give(t, client[t])
    BY <1>0, <1>3, <2>1, <2>2 DEF CopiedInv
  <2>3. CASE UNCHANGED <<client, handle>> /\ Goto(t, "rpcTerm")
    BY <1>0, <1>3, <2>1, <2>3 DEF CopiedInv
  <2>4. QED
    BY <1>12, <2>2, <2>3 DEF Publish
<1>13. ASSUME NEW t \in Threads, RpcTermed(t) PROVE CopiedInv'
  <2>1. UNCHANGED <<session, copy, client, handle>> /\ at' = [at EXCEPT ![t] = "transportTerm"]
    BY <1>13 DEF RpcTermed, TransportTerms, SM!CallTerm
  <2>2. handle[t] = Nobody
    BY <1>0, <1>13 DEF RpcTermed
  <2>3. QED
    BY <1>0, <1>3, <2>1, <2>2
<1>14. ASSUME UNCHANGED <<managed, control>> PROVE CopiedInv'
  BY <1>14 DEF CopiedInv, managed, control
<1>15. ASSUME NEW t \in Threads, InManager(t) PROVE CopiedInv'
  <2>1. PICK b \in Bases : SM!Step(b) /\ UNCHANGED control
    BY <1>15, InCall
  <2>2. UNCHANGED copy
    BY <2>1 DEF SM!Step, SM!InitLoad, SM!InitFastAdd, SM!InitRecheck, SM!InitOpen, SM!InitCount,
       SM!TermCheck, SM!TermSub, SM!TermZero, SM!TermClose
  <2>3. CASE UNCHANGED session
    BY <2>1, <2>2, <2>3 DEF CopiedInv, control
  <2>4. CASE SM!InitOpen(b) \/ SM!TermClose(b)
    <3>1. refCount = 0
      <4>1. open = {} \/ pc[b] = "termClose"
        BY <2>4 DEF SM!InitOpen, SM!TermClose, SM!OpeningInv, IInv, ManagerInv
      <4>2. QED
        BY <1>0, <4>1 DEF SM!SerialInv, SM!TypeOK
    <3>2. ASSUME NEW u \in Threads, TransportIn(u) PROVE FALSE
      <4>1. Transport(u) \in Bases /\ holds[Transport(u)]
        BY <1>2, <3>2 DEF CountedInv, TransportIn, BuildPcs, DestroyPcs
      <4>2. QED
        BY <3>1, <4>1, HolderCounts
    <3>3. ASSUME NEW u \in Threads, handle[u] # Nobody PROVE FALSE
      <4>1. <<handle[u], "rpc">> \in Bases /\ holds[<<handle[u], "rpc">>]
        BY <3>3 DEF CountedInv, IInv, ControlInv, ControlOK, Bases
      <4>2. QED
        BY <3>1, <4>1, HolderCounts
    <3>4. QED
      BY <2>1, <3>2, <3>3 DEF CopiedInv, TransportIn, control
  <2>5. UNCHANGED session \/ SM!InitOpen(b) \/ SM!TermClose(b)
    BY <2>1 DEF SM!Step, SM!InitLoad, SM!InitFastAdd, SM!InitRecheck, SM!InitCount,
       SM!TermCheck, SM!TermSub, SM!TermZero
  <2>6. QED
    BY <2>3, <2>4, <2>5
<1>16. QED
  BY <1>4, <1>5, <1>6, <1>7, <1>9, <1>10, <1>11, <1>12, <1>13, <1>14, <1>15, NextCases DEF Invoke, Completed, vars

(* The destructor leaves "rpcTerm" only when the pool of the client has    *)
(* nothing in flight.                                                      *)
LEMMA BusyStep ==
  ASSUME IInv, BusyInv, [Next]_vars
  PROVE  BusyInv'
<1>0. /\ at \in [Threads -> {"idle", "look", "lock", "enter"} \cup BuildPcs \cup DestroyPcs]
      /\ client \in [Threads -> {Nobody} \cup Clients] /\ handle \in [Threads -> {Nobody} \cup Clients]
      /\ \A t \in Threads : handle[t] # Nobody => at[t] = "idle"
      /\ \A t \in Threads : client[t] # Nobody <=> at[t] \in BuildPcs \cup DestroyPcs
      /\ busy \subseteq Clients /\ Nobody \notin Clients
  BY DEF IInv, ControlInv, ControlOK, Clients, Nobody
<1> USE DEF Goto, Give
(* A step of one thread that keeps what it had in hand or in rpcTerm.      *)
<1>1. ASSUME NEW t \in Threads, UNCHANGED busy,
             \A u \in Threads \ {t} : at'[u] = at[u] /\ client'[u] = client[u] /\ handle'[u] = handle[u],
             \A c \in busy : handle[t] = c \/ (client[t] = c /\ at[t] = "rpcTerm") =>
               \E u \in Threads : handle'[u] = c \/ (client'[u] = c /\ at'[u] = "rpcTerm")
      PROVE  BusyInv'
  <2> SUFFICES ASSUME NEW c \in busy
               PROVE  \E u \in Threads : handle'[u] = c \/ (client'[u] = c /\ at'[u] = "rpcTerm")
    BY <1>1 DEF BusyInv
  <2>1. PICK u \in Threads : handle[u] = c \/ (client[u] = c /\ at[u] = "rpcTerm")
    BY DEF BusyInv
  <2>2. QED
    BY <1>1, <2>1
<1>2. ASSUME NEW t \in Threads, UNCHANGED busy, Drop(t) PROVE BusyInv'
  <2>1. CASE ~IsLast(t) /\ UNCHANGED <<client, at>>
    <3>1. PICK u \in Threads \ {t} : handle[u] = handle[t]
      BY <2>1 DEF IsLast
    <3>2. handle'[u] = handle[t] /\ at[t] = "idle"
      BY <1>0, <1>2, <3>1 DEF Drop
    <3>3. QED
      BY <1>0, <1>1, <1>2, <2>1, <3>2 DEF Drop
  <2>2. CASE client' = [client EXCEPT ![t] = handle[t]] /\ Goto(t, "rpcTerm")
    BY <1>0, <1>1, <1>2, <2>2 DEF Drop
  <2>3. QED
    BY <1>2, <2>1, <2>2 DEF Drop
<1>3. ASSUME NEW t \in Threads, UNCHANGED busy,
             \/ Call(t) \/ Look(t) \/ Lock(t) \/ Enter(t) \/ TransportTermed(t) \/ Publish(t)
             \/ TransportHas(t) \/ TransportValue(t) \/ RpcStart(t) \/ RpcHas(t) \/ RpcValue(t)
      PROVE  BusyInv'
  <2>1. \A c \in busy : handle[t] # c /\ ~(client[t] = c /\ at[t] = "rpcTerm")
    BY <1>0, <1>3 DEF Call, Look, Lock, Enter, TransportTermed, Publish, TransportHas, TransportValue, RpcStart,
       RpcHas, RpcValue
  <2>2. \A u \in Threads \ {t} : at'[u] = at[u]
    BY <1>0, <1>3 DEF Call, Look, Lock, Enter, Build, TransportTermed, Publish, TransportHas, TransportValue, RpcStart,
       RpcHas, RpcValue, ValueOrTerminate
  <2>3. \A u \in Threads \ {t} : client'[u] = client[u] /\ handle'[u] = handle[u]
    BY <1>0, <1>3 DEF Call, Look, Lock, Enter, Build, TransportTermed, Publish, TransportHas, TransportValue, RpcStart,
       RpcHas, RpcValue
  <2>4. QED
    BY <1>1, <1>3, <2>1, <2>2, <2>3
<1>4. ASSUME NEW t \in Threads, UNCHANGED busy, RpcTermed(t) PROVE BusyInv'
  BY <1>0, <1>1, <1>4 DEF RpcTermed, PoolJoined
<1>5. ASSUME NEW t \in Threads, Invoke(t) PROVE BusyInv'
  BY <1>5 DEF Invoke, BusyInv, control
<1>6. ASSUME NEW c \in busy, Completed(c) PROVE BusyInv'
  BY <1>6 DEF Completed, BusyInv, control
<1>7. ASSUME UNCHANGED <<control, busy>> PROVE BusyInv'
  BY <1>7 DEF BusyInv, control
<1>8. QED
  BY <1>2, <1>3, <1>4, <1>5, <1>6, <1>7, NextCases DEF InManager, vars

LEMMA ServedStep ==
  ASSUME IInv, PaidInv, OverlapInv, ServedInv, [Next]_vars
  PROVE  ServedInv'
<1> SUFFICES ASSUME ~OpenFailed', ~overlap' PROVE SM!SerialInv' /\ CopiedInv'
  BY DEF ServedInv
<1>1. CountedInv /\ CountExact /\ SM!SerialInv /\ CopiedInv
  BY FailureStays, OverlapSeen DEF PaidInv, ServedInv
<1>2. QED
  BY <1>1, OverlapSeen, SerialStep, CopiedStep

-----------------------------------------------------------------------------
LEMMA InitStrong == Init => StrongInv
<1> SUFFICES ASSUME Init PROVE StrongInv
  OBVIOUS
<1>1. IInv
  BY InitIInv
<1>2. /\ \A t \in Threads : at[t] = "idle" /\ handle[t] = Nobody
      /\ \A b \in Bases : pc[b] = "idle" /\ ~holds[b]
      /\ refCount = 0 /\ ended = "no" /\ busy = {}
  BY DEF Init, SM!Init
<1>3. PaidInv
  <2>1. SM!Holders = {}
    BY <1>2 DEF SM!Holders
  <2>2. CountExact
    BY <1>2, <2>1, FS_EmptySet DEF CountExact
  <2>3. QED
    BY <1>2, <2>2 DEF PaidInv, CountedInv, TransportIn, RpcIn
<1>4. OverlapInv
  BY <1>2 DEF OverlapInv, SM!InitInProgress, SM!InitPcs
<1>5. ServedInv
  BY <1>2 DEF ServedInv, SM!SerialInv, SM!InitInProgress, SM!InitPcs, CopiedInv
<1>6. BusyInv
  BY <1>2 DEF BusyInv
<1>7. QED
  BY <1>1, <1>3, <1>4, <1>5, <1>6 DEF StrongInv

LEMMA StepStrong == StrongInv /\ [Next]_vars => StrongInv'
<1> SUFFICES ASSUME StrongInv, [Next]_vars PROVE StrongInv'
  OBVIOUS
<1>1. IInv'
  BY StepIInv DEF StrongInv
<1>2. PaidInv' /\ OverlapInv' /\ ServedInv' /\ BusyInv'
  BY PaidStep, OverlapSeen, ServedStep, BusyStep DEF StrongInv
<1>3. QED
  BY <1>1, <1>2 DEF StrongInv

LEMMA StrongInductive == Spec => []StrongInv
  BY InitStrong, StepStrong, PTL DEF Spec

(* A base that has counted in and is not yet terminated makes getSession() *)
(* answer with a session, as long as none failed to open.                  *)
THEOREM ValuesStay == Spec => []ValueStays
<1>1. StrongInv => ValueStays
  BY DEF StrongInv, PaidInv, ValueStays
<1>2. QED
  BY <1>1, StrongInductive, PTL

(* What a base that is counted in has copied is open.                      *)
LEMMA CopyOpen ==
  ASSUME StrongInv, ~overlap, ~OpenFailed, NEW b \in Bases, holds[b]
  PROVE  session \in open
<1>1. refCount > 0
  BY HolderCounts DEF StrongInv, PaidInv
<1>2. QED
  BY <1>1 DEF StrongInv, ServedInv, SM!SerialInv

(* As long as no init() overlaps a term() and no session fails to open,    *)
(* both bases of a client in use have the open session.                    *)
THEOREM BothServed == Spec => []BothBasesServed
<1>1. StrongInv => BothBasesServed
  <2> SUFFICES ASSUME StrongInv, ~overlap, ~OpenFailed, NEW t \in Threads, handle[t] # Nobody
               PROVE  copy[<<handle[t], "transport">>] \in open /\ copy[<<handle[t], "rpc">>] \in open
    BY DEF BothBasesServed
  <2>1. <<handle[t], "rpc">> \in Bases
    BY DEF StrongInv, IInv, ControlInv, ControlOK, Bases
  <2>2. holds[<<handle[t], "rpc">>]
    BY DEF StrongInv, PaidInv, CountedInv
  <2>3. session \in open
    BY <2>1, <2>2, CopyOpen
  <2>4. QED
    BY <2>3 DEF StrongInv, ServedInv, CopiedInv
<1>2. QED
  BY <1>1, StrongInductive, PTL

(* As long as that is so, a request in flight has its session to the end,  *)
(* also when ~ZenohRpcClient() has counted its base out before.            *)
THEOREM RequestsServed == Spec => []RequestHasSession
<1>1. StrongInv => RequestHasSession
  <2> SUFFICES ASSUME StrongInv, ~overlap, ~OpenFailed, NEW c \in busy
               PROVE  copy[<<c, "rpc">>] \in open
    BY DEF RequestHasSession
  <2>1. PICK t \in Threads : handle[t] = c \/ (client[t] = c /\ at[t] = "rpcTerm")
    BY DEF StrongInv, BusyInv
  <2>2. c # Nobody /\ <<c, "transport">> \in Bases
    BY DEF StrongInv, IInv, ControlInv, ControlOK, Bases, Clients, Nobody
  <2>3. holds[<<c, "transport">>]
    BY <2>1, <2>2 DEF StrongInv, PaidInv, CountedInv, TransportIn, Transport
  <2>4. copy[<<c, "rpc">>] = session
    BY <2>1, <2>2 DEF StrongInv, ServedInv, CopiedInv, Rpc
  <2>5. QED
    BY <2>2, <2>3, <2>4, CopyOpen
<1>2. QED
  BY <1>1, StrongInductive, PTL
=============================================================================
