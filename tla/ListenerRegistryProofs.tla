----------------------- MODULE ListenerRegistryProofs -----------------------
(***************************************************************************)
(* Proofs about ListenerRegistry, for all sets of URIs, listeners and      *)
(* messages, every finite set of threads and every bound on declarations.  *)
(***************************************************************************)
EXTENDS ListenerRegistry, FiniteSetTheorems, SequenceTheorems, WellFoundedInduction, TLAPS

Calls == [uri : Uris, listener : Listeners, num : Nat]

LEMMA CallIsNotNoCall ==
  ASSUME NEW c \in Calls
  PROVE  c # NoCall
<1>1. c = [uri |-> c.uri, listener |-> c.listener, num |-> c.num]
  BY DEF Calls
<1>2. DOMAIN c = {"uri", "listener", "num"}
  BY <1>1
<1>3. DOMAIN NoCall = {}
  BY DEF NoCall
<1>4. QED
  BY <1>2, <1>3

(* What is left of a sequence when one element is erased.                  *)
LEMMA RemoveAtProps ==
  ASSUME NEW S, NEW s \in Seq(S), NEW i \in DOMAIN s
  PROVE  /\ RemoveAt(s, i) \in Seq(S)
         /\ Len(s) \in Nat /\ i \in 1..Len(s)
         /\ Len(RemoveAt(s, i)) = Len(s) - 1
         /\ \A j \in 1..(Len(s) - 1) : RemoveAt(s, i)[j] = IF j < i THEN s[j] ELSE s[j + 1]
<1> DEFINE left == SubSeq(s, 1, i - 1)  right == SubSeq(s, i + 1, Len(s))
<1>1. Len(s) \in Nat /\ i \in 1..Len(s) /\ \A j \in 1..Len(s) : s[j] \in S
  BY LenProperties
<1>2. /\ left \in Seq(S) /\ Len(left) = i - 1
      /\ \A j \in 1..(i - 1) : left[j] = s[j]
  <2>1. i - 1 \in Int /\ \A j \in 1..(i - 1) : s[j] \in S
    BY <1>1
  <2>2. /\ left \in Seq(S)
        /\ Len(left) = IF 1 <= i - 1 THEN i - 1 - 1 + 1 ELSE 0
        /\ \A j \in 1..(i - 1 - 1 + 1) : left[j] = s[1 + j - 1]
    BY <2>1, SubSeqProperties
  <2>3. i - 1 - 1 + 1 = i - 1 /\ \A j \in 1..(i - 1) : 1 + j - 1 = j
    BY <1>1
  <2>4. QED
    BY <1>1, <2>2, <2>3
<1>3. /\ right \in Seq(S) /\ Len(right) = Len(s) - i
      /\ \A j \in 1..(Len(s) - i) : right[j] = s[i + j]
  <2>1. i + 1 \in Int /\ Len(s) \in Int /\ \A j \in (i + 1)..Len(s) : s[j] \in S
    BY <1>1
  <2>2. /\ right \in Seq(S)
        /\ Len(right) = IF i + 1 <= Len(s) THEN Len(s) - (i + 1) + 1 ELSE 0
        /\ \A j \in 1..(Len(s) - (i + 1) + 1) : right[j] = s[(i + 1) + j - 1]
    BY <2>1, SubSeqProperties
  <2>3. Len(s) - (i + 1) + 1 = Len(s) - i /\ \A j \in 1..(Len(s) - i) : (i + 1) + j - 1 = i + j
    BY <1>1
  <2>4. Len(right) = Len(s) - i
    BY <1>1, <2>2
  <2>5. QED
    BY <2>2, <2>3, <2>4
<1>4. /\ left \o right \in Seq(S) /\ Len(left \o right) = Len(left) + Len(right)
      /\ \A j \in 1..(Len(left) + Len(right)) :
           (left \o right)[j] = IF j <= Len(left) THEN left[j] ELSE right[j - Len(left)]
  BY <1>2, <1>3, ConcatProperties
<1> HIDE DEF left, right
<1>5. Len(left) + Len(right) = Len(s) - 1
  BY <1>1, <1>2, <1>3
<1>6. ASSUME NEW j \in 1..(Len(s) - 1)
      PROVE  (left \o right)[j] = IF j < i THEN s[j] ELSE s[j + 1]
  <2>1. (left \o right)[j] = IF j <= i - 1 THEN left[j] ELSE right[j - (i - 1)]
    BY <1>2, <1>4, <1>5
  <2>2. CASE j < i
    <3>1. j \in 1..(i - 1) /\ j <= i - 1
      BY <1>1, <2>2
    <3>2. QED
      BY <1>2, <2>1, <2>2, <3>1
  <2>3. CASE ~(j < i)
    <3>1. j - (i - 1) \in 1..(Len(s) - i) /\ i + (j - (i - 1)) = j + 1 /\ ~(j <= i - 1)
      BY <1>1, <2>3
    <3>2. right[j - (i - 1)] = s[j + 1]
      BY <1>3, <3>1
    <3>3. QED
      BY <2>1, <2>3, <3>1, <3>2
  <2>4. QED
    BY <2>2, <2>3
<1>7. QED
  BY <1>1, <1>4, <1>5, <1>6 DEF RemoveAt, left, right

(* A set of natural numbers has a least element. *)
LEMMA Least ==
  ASSUME NEW T \in SUBSET Nat, T # {}
  PROVE  \E x \in T : \A y \in T : ~(y < x)
<1> DEFINE R == {ss \in Nat \X Nat : ss[1] < ss[2]}
<1>1. IsWellFoundedOn(R, Nat)
  BY NatLessThanWellFounded DEF OpToRel
<1>2. \A x, y \in Nat : <<y, x>> \in R <=> y < x
  OBVIOUS
<1> HIDE DEF R
<1>3. PICK x \in T : \A y \in T : <<y, x>> \notin R
  BY <1>1, WFMin
<1>4. QED
  BY <1>2, <1>3

(* What unregisterListener() finds is the first index of the listener.     *)
LEMMA IndexOfProps ==
  ASSUME NEW u \in Uris, listenersOf[u] \in Seq(Listeners), NEW l, IsSet(u, l)
  PROVE  /\ IndexOf(u, l) \in 1..Len(listenersOf[u])
         /\ listenersOf[u][IndexOf(u, l)] = l
<1> DEFINE s == listenersOf[u]
           T == {i \in DOMAIN s : s[i] = l}
<1>1. DOMAIN s = 1..Len(s) /\ Len(s) \in Nat
  BY LenProperties
<1>2. T # {} /\ T \in SUBSET Nat
  BY <1>1 DEF IsSet, ToSet
<1>3. PICK i \in T : \A j \in T : ~(j < i)
  BY <1>2, Least
<1>4. \A j \in 1..(i - 1) : s[j] # l
  <2>1. ASSUME NEW j \in 1..(i - 1), s[j] = l PROVE FALSE
    <3>1. j \in T /\ j < i
      BY <1>1, <2>1
    <3>2. QED
      BY <1>3, <3>1
  <2>2. QED
    BY <2>1
<1>5. \E k \in DOMAIN s : s[k] = l /\ \A j \in 1..(k - 1) : s[j] # l
  BY <1>3, <1>4
<1>6. IndexOf(u, l) \in DOMAIN s /\ s[IndexOf(u, l)] = l
  BY <1>5 DEF IndexOf
<1>7. QED
  BY <1>1, <1>6

LEMMA ErasedAtType ==
  ASSUME NEW S, NEW s \in Seq(S), NEW i
  PROVE  \A left \in ErasedAt(s, i) : left \in Seq(S)
<1>1. i \in DOMAIN s => RemoveAt(s, i) \in Seq(S)
  BY RemoveAtProps
<1>2. Front(s) \in Seq(S)
  <2>1. Len(s) \in Nat /\ Len(s) - 1 \in Int /\ \A j \in 1..(Len(s) - 1) : s[j] \in S
    BY LenProperties
  <2>2. SubSeq(s, 1, Len(s) - 1) \in Seq(S)
    BY <2>1, SubSeqProperties
  <2>3. QED
    BY <2>2 DEF Front
<1>3. QED
  BY <1>1, <1>2 DEF ErasedAt

-----------------------------------------------------------------------------
(* Types, and the numbers of the declarations *)

(* A call has a number left for the declaration it may still try, and what *)
(* it carries is there as long as it runs.                                 *)
Registering == {t \in Threads : at[t] \in RegisterPcs}
Declaring == {t \in Threads : at[t] \in {"regLock", "regDeclare"}}
RoomInv     == declares + Cardinality(Declaring) <= MaxDeclares

CallInv ==
  /\ lock \in Threads \cup {NoOne}
  /\ \A t \in Threads :
       /\ at[t] # "idle" => op[t] \in Calls
       /\ at[t] = "idle" => op[t] = NoCall
       /\ at[t] = "regStore" => op[t].num \in 1..declares

(* What zenoh serves, or has still to call, was declared.                  *)
NumberInv ==
  /\ \A e \in declared : e.handle <= declares
  /\ \A o \in owed : o[2].handle <= declares

BaseInv == TypeOK /\ RoomInv /\ CallInv /\ NumberInv

LEMMA FiniteThreads ==
  ASSUME NEW S \in SUBSET Threads
  PROVE  IsFiniteSet(S) /\ Cardinality(S) \in Nat
  BY ThreadsFinite, FS_Subset, FS_CardinalityType

(* A step of a thread leaves the others where they are. *)
LEMMA RoomStep ==
  ASSUME TypeOK, RoomInv, [Next]_vars
  PROVE  RoomInv' /\ declares' \in 0..MaxDeclares
<1> DEFINE Goal == RoomInv' /\ declares' \in 0..MaxDeclares
<1>0. /\ Declaring \in SUBSET Threads /\ Declaring' \in SUBSET Threads
      /\ at \in [Threads -> {"idle"} \cup RegisterPcs \cup UnregisterPcs]
      /\ declares \in 0..MaxDeclares /\ declares + Cardinality(Declaring) <= MaxDeclares
      /\ Cardinality(Declaring) \in Nat /\ IsFiniteSet(Declaring) /\ MaxDeclares \in Nat
  BY FiniteThreads, MaxDeclaresNat DEF Declaring, TypeOK, RoomInv
<1> USE DEF Goto
<1>1. ASSUME NEW t \in Threads, MayRegister, at[t] = "idle", Goto(t, "regLock"), UNCHANGED declares PROVE Goal
  <2>1. Declaring \subseteq Registering /\ Registering \in SUBSET Threads /\ t \notin Declaring
    BY <1>1 DEF Declaring, Registering, RegisterPcs
  <2>2. Cardinality(Declaring) <= Cardinality(Registering) /\ Cardinality(Registering) \in Nat
    BY <2>1, FiniteThreads, FS_Subset
  <2>3. Declaring' = Declaring \cup {t}
    BY <1>0, <1>1 DEF Declaring
  <2>4. Cardinality(Declaring \cup {t}) = Cardinality(Declaring) + 1
    BY <1>0, <2>1, FS_AddElement
  <2>5. declares + Cardinality(Registering) < MaxDeclares
    BY <1>1 DEF MayRegister, Registering
  <2>6. QED
    BY <1>0, <1>1, <2>2, <2>3, <2>4, <2>5 DEF RoomInv
<1>2. ASSUME NEW t \in Threads, RegDeclare(t) PROVE Goal
  <2>1. t \in Declaring /\ Declaring' = Declaring \ {t} /\ declares' = declares + 1
    BY <1>0, <1>2 DEF Declaring, RegDeclare, Return
  <2>2. Cardinality(Declaring \ {t}) = Cardinality(Declaring) - 1
    BY <1>0, <2>1, FS_RemoveElement
  <2>3. Cardinality(Declaring) - 1 \in Nat
    BY <1>0, <2>1, <2>2, FiniteThreads
  <2>4. QED
    BY <1>0, <2>1, <2>2, <2>3 DEF RoomInv
<1>3. ASSUME UNCHANGED declares, Declaring' \subseteq Declaring PROVE Goal
  <2>1. Cardinality(Declaring') <= Cardinality(Declaring) /\ Cardinality(Declaring') \in Nat
    BY <1>0, <1>3, FS_Subset, FS_CardinalityType
  <2>2. QED
    BY <1>0, <1>3, <2>1 DEF RoomInv
<1>4. ASSUME NEW t \in Threads, UNCHANGED declares, \A u \in Threads \ {t} : at'[u] = at[u],
             at'[t] \in {"regLock", "regDeclare"} => at[t] \in {"regLock", "regDeclare"}
      PROVE  Goal
  BY <1>3, <1>4 DEF Declaring
<1>5. ASSUME NEW t \in Threads, Step(t) PROVE Goal
  <2>1. ASSUME NEW u, NEW l, MayRegister, Start(t, u, l, "regLock") PROVE Goal
    BY <1>1, <2>1 DEF Start
  <2>2. ASSUME NEW u, NEW l, Start(t, u, l, "unregFind") PROVE Goal
    BY <1>0, <1>4, <2>2 DEF Start
  <2>3. CASE RegLock(t) \/ RegStore(t)
    BY <1>0, <1>4, <2>3 DEF RegLock, RegStore, Return
  <2>4. CASE UnregFind(t) \/ UnregErase(t) \/ UnregUndeclare(t) \/ UnregForget(t)
    BY <1>0, <1>4, <2>4 DEF UnregFind, UnregErase, UnregUndeclare, UnregForget, Return
  <2>5. QED
    BY <1>2, <1>5, <2>1, <2>2, <2>3, <2>4 DEF Step
<1>6. CASE External \/ Destroy \/ UNCHANGED vars
  <2>1. UNCHANGED <<at, declares>>
    BY <1>6 DEF External, Arrive, Handle, Destroy, vars, calls
  <2>2. QED
    BY <1>3, <2>1 DEF Declaring
<1>7. QED
  BY <1>5, <1>6 DEF Next, Resting

LEMMA NextCases ==
  ASSUME [Next]_vars
  PROVE  \/ \E t \in Threads :
              \/ \E u \in Uris, l \in Listeners : Start(t, u, l, "regLock") \/ Start(t, u, l, "unregFind")
              \/ RegLock(t) \/ RegDeclare(t) \/ RegStore(t)
              \/ UnregFind(t) \/ UnregErase(t) \/ UnregUndeclare(t) \/ UnregForget(t)
         \/ \E m \in Messages, u \in Uris : Arrive(m, u)
         \/ \E o \in owed : Handle(o[1], o[2])
         \/ Destroy
         \/ UNCHANGED vars
  BY DEF Next, Step, External, Resting

(* A thread that holds subInitMutex_ is alone between lock and unlock.     *)
LEMMA CallStep ==
  ASSUME TypeOK, CallInv, declares' \in 0..MaxDeclares, [Next]_vars
  PROVE  /\ CallInv'
         /\ at' \in [Threads -> {"idle"} \cup RegisterPcs \cup UnregisterPcs]
         /\ op' \in [Threads -> {NoCall} \cup Calls]
         /\ \A t \in Threads : lock' = t <=> at'[t] \in {"regDeclare", "regStore"}
<1> DEFINE Goal == /\ CallInv'
                   /\ at' \in [Threads -> {"idle"} \cup RegisterPcs \cup UnregisterPcs]
                   /\ op' \in [Threads -> {NoCall} \cup Calls]
                   /\ \A t \in Threads : lock' = t <=> at'[t] \in {"regDeclare", "regStore"}
<1>0. /\ at \in [Threads -> {"idle"} \cup RegisterPcs \cup UnregisterPcs]
      /\ op \in [Threads -> {NoCall} \cup Calls]
      /\ \A t \in Threads : lock = t <=> at[t] \in {"regDeclare", "regStore"}
      /\ declares \in Nat /\ lock \in Threads \cup {NoOne}
      /\ \A t \in Threads : at[t] # "idle" => op[t] \in Calls
      /\ \A t \in Threads : at[t] = "idle" => op[t] = NoCall
      /\ \A t \in Threads : at[t] = "regStore" => op[t].num \in 1..declares
      /\ \A u \in Uris : listenersOf[u] \in Seq(Listeners)
  BY MaxDeclaresNat DEF TypeOK, CallInv, Calls
<1> USE DEF CallInv, Goto, Return, RegisterPcs, UnregisterPcs
<1>1. ASSUME NEW t \in Threads, NEW u \in Uris, NEW l \in Listeners, Start(t, u, l, "regLock") \/ Start(t, u, l, "unregFind")
      PROVE  Goal
  <2>1. [uri |-> u, listener |-> l, num |-> 0] \in Calls
    BY DEF Calls
  <2>2. QED
    BY <1>0, <1>1, <2>1 DEF Start
<1>2. ASSUME NEW t \in Threads, RegLock(t) PROVE Goal
  BY <1>0, <1>2, NoOneApart DEF RegLock
<1>3. ASSUME NEW t \in Threads, RegDeclare(t) PROVE Goal
  <2>1. declares' = declares + 1 /\ op[t] \in Calls /\ lock = t
    BY <1>0, <1>3 DEF RegDeclare
  <2>2. CASE op' = [op EXCEPT ![t].num = declares'] /\ Goto(t, "regStore") /\ UNCHANGED lock
    <3>1. [op[t] EXCEPT !.num = declares'] \in Calls /\ [op[t] EXCEPT !.num = declares'].num = declares'
      BY <1>0, <2>1 DEF Calls
    <3>2. op' = [op EXCEPT ![t] = [op[t] EXCEPT !.num = declares']]
      BY <2>2
    <3>3. QED
      BY <1>0, <2>1, <2>2, <3>1, <3>2
  <2>3. CASE Return(t, "INTERNAL") /\ Unlock
    BY <1>0, <2>1, <2>3, NoOneApart DEF Unlock
  <2>4. QED
    BY <1>3, <2>2, <2>3 DEF RegDeclare
<1>4. ASSUME NEW t \in Threads, RegStore(t) PROVE Goal
  BY <1>0, <1>4, NoOneApart DEF RegStore, Unlock
<1>5. ASSUME NEW t \in Threads, UnregFind(t) PROVE Goal
  <2>1. op[t] \in Calls /\ op[t].uri \in Uris
    BY <1>0, <1>5 DEF UnregFind, Calls
  <2>2. CASE IsSet(op[t].uri, op[t].listener) /\ op' = [op EXCEPT ![t].num = IndexOf(op[t].uri, op[t].listener)]
             /\ Goto(t, "unregErase")
    <3> DEFINE i == IndexOf(op[t].uri, op[t].listener)
    <3>1. i \in Nat
      BY <1>0, <2>1, <2>2, IndexOfProps
    <3>2. [op[t] EXCEPT !.num = i] \in Calls
      BY <2>1, <3>1 DEF Calls
    <3>3. op' = [op EXCEPT ![t] = [op[t] EXCEPT !.num = i]]
      BY <2>2
    <3>4. QED
      BY <1>0, <1>5, <2>2, <3>2, <3>3 DEF UnregFind
  <2>3. CASE Return(t, IF op[t].uri \in inMap THEN "OK" ELSE "INVALID_ARGUMENT")
    BY <1>0, <1>5, <2>3 DEF UnregFind
  <2>4. QED
    BY <1>5, <2>2, <2>3 DEF UnregFind
<1>6. ASSUME NEW t \in Threads, UnregErase(t) \/ UnregUndeclare(t) \/ UnregForget(t) PROVE Goal
  BY <1>0, <1>6 DEF UnregErase, UnregUndeclare, UnregForget
<1>7. ASSUME UNCHANGED <<calls, declares>> PROVE Goal
  BY <1>0, <1>7 DEF calls
<1>8. QED
  BY <1>1, <1>2, <1>3, <1>4, <1>5, <1>6, <1>7, NextCases DEF Arrive, Handle, Destroy, vars

LEMMA RegistryTypeStep ==
  ASSUME TypeOK, CallInv, declares \in 0..MaxDeclares, [Next]_vars
  PROVE  inMap' \subseteq Uris /\ listenersOf' \in [Uris -> Seq(Listeners)] /\ handlesOf' \in [Uris -> Seq(Handles)]
<1> DEFINE Goal == /\ inMap' \subseteq Uris
                   /\ listenersOf' \in [Uris -> Seq(Listeners)] /\ handlesOf' \in [Uris -> Seq(Handles)]
<1>0. inMap \subseteq Uris /\ listenersOf \in [Uris -> Seq(Listeners)] /\ handlesOf \in [Uris -> Seq(Handles)]
  BY DEF TypeOK
<1>1. ASSUME NEW t \in Threads, RegStore(t) PROVE Goal
  <2>1. op[t] \in Calls /\ op[t].num \in 1..declares
    BY <1>1 DEF RegStore, CallInv
  <2>2. op[t].uri \in Uris /\ op[t].listener \in Listeners /\ op[t].num \in Handles
    BY <2>1, MaxDeclaresNat DEF Calls, Handles
  <2>3. /\ Append(handlesOf[op[t].uri], op[t].num) \in Seq(Handles)
        /\ Append(listenersOf[op[t].uri], op[t].listener) \in Seq(Listeners)
    BY <1>0, <2>2, AppendProperties
  <2>4. QED
    BY <1>0, <1>1, <2>2, <2>3 DEF RegStore
<1>2. ASSUME NEW t \in Threads, UnregErase(t) \/ UnregForget(t) PROVE Goal
  <2>1. op[t].uri \in Uris
    BY <1>2 DEF UnregErase, UnregForget, CallInv, Calls
  <2>2. CASE UnregErase(t)
    <3>1. PICK s \in ErasedAt(listenersOf[op[t].uri], op[t].num) :
            listenersOf' = [listenersOf EXCEPT ![op[t].uri] = s]
      BY <2>2 DEF UnregErase
    <3>2. s \in Seq(Listeners)
      BY <1>0, <2>1, <3>1, ErasedAtType
    <3>3. QED
      BY <1>0, <2>1, <2>2, <3>1, <3>2 DEF UnregErase
  <2>3. CASE UnregForget(t)
    <3>1. PICK s \in ErasedAt(handlesOf[op[t].uri], op[t].num) :
            handlesOf' = [handlesOf EXCEPT ![op[t].uri] = s]
      BY <2>3 DEF UnregForget
    <3>2. s \in Seq(Handles)
      BY <1>0, <2>1, <3>1, ErasedAtType
    <3>3. QED
      BY <1>0, <2>1, <2>3, <3>1, <3>2 DEF UnregForget
  <2>4. QED
    BY <1>2, <2>2, <2>3
<1>3. CASE Destroy
  BY <1>0, <1>3, EmptySeq DEF Destroy
<1>4. CASE UNCHANGED registry
  BY <1>0, <1>4 DEF registry
<1>5. QED
  BY <1>1, <1>2, <1>3, <1>4, NextCases
  DEF Start, RegLock, RegDeclare, UnregFind, UnregUndeclare, Arrive, Handle, vars

LEMMA ZenohTypeStep ==
  ASSUME TypeOK, CallInv, declares' \in 0..MaxDeclares, [Next]_vars
  PROVE  /\ declared' \subseteq Entities /\ arrived' \subseteq Messages
         /\ owed' \subseteq Messages \X Entities /\ heard' \subseteq Messages \X Uris \X Listeners
         /\ destroyed' \in BOOLEAN
         /\ status' \in [Threads -> {"none", "OK", "INVALID_ARGUMENT", "INTERNAL"}]
<1> DEFINE Goal == /\ declared' \subseteq Entities /\ arrived' \subseteq Messages
                   /\ owed' \subseteq Messages \X Entities /\ heard' \subseteq Messages \X Uris \X Listeners
                   /\ destroyed' \in BOOLEAN
                   /\ status' \in [Threads -> {"none", "OK", "INVALID_ARGUMENT", "INTERNAL"}]
<1>0. /\ declared \subseteq Entities /\ arrived \subseteq Messages
      /\ owed \subseteq Messages \X Entities /\ heard \subseteq Messages \X Uris \X Listeners
      /\ destroyed \in BOOLEAN
      /\ status \in [Threads -> {"none", "OK", "INVALID_ARGUMENT", "INTERNAL"}]
      /\ declares \in Nat
  BY MaxDeclaresNat DEF TypeOK
<1>1. ASSUME NEW t \in Threads, NEW u, NEW l, Start(t, u, l, "regLock") \/ Start(t, u, l, "unregFind") PROVE Goal
  BY <1>0, <1>1 DEF Start, traffic
<1>2. ASSUME NEW t \in Threads, RegLock(t) \/ RegStore(t) PROVE Goal
  BY <1>0, <1>2 DEF RegLock, RegStore, Return, traffic
<1>3. ASSUME NEW t \in Threads, RegDeclare(t) PROVE Goal
  <2>1. op[t] \in Calls /\ declares' = declares + 1 /\ declares' \in Handles
    BY <1>0, <1>3, MaxDeclaresNat DEF RegDeclare, CallInv, Handles
  <2>2. [handle |-> declares', uri |-> op[t].uri, listener |-> op[t].listener] \in Entities
    BY <2>1 DEF Calls, Entities
  <2>3. QED
    BY <1>0, <1>3, <2>1, <2>2 DEF RegDeclare, Return, traffic
<1>4. ASSUME NEW t \in Threads, UnregFind(t) \/ UnregErase(t) \/ UnregUndeclare(t) \/ UnregForget(t) PROVE Goal
  BY <1>0, <1>4 DEF UnregFind, UnregErase, UnregUndeclare, Undeclare, UnregForget, Return, traffic
<1>5. ASSUME NEW m \in Messages, NEW u \in Uris, Arrive(m, u) PROVE Goal
  <2>1. owed' \subseteq Messages \X Entities
    BY <1>0, <1>5 DEF Arrive
  <2>2. UNCHANGED <<declared, heard, destroyed, status>> /\ arrived' = arrived \cup {m}
    BY <1>5 DEF Arrive, calls
  <2>3. QED
    BY <1>0, <2>1, <2>2
<1>6. ASSUME NEW o \in owed, Handle(o[1], o[2]) PROVE Goal
  <2>1. o[1] \in Messages /\ o[2].uri \in Uris /\ o[2].listener \in Listeners
    BY <1>0 DEF Entities
  <2>2. heard' \subseteq Messages \X Uris \X Listeners
    BY <1>0, <1>6, <2>1 DEF Handle
  <2>3. UNCHANGED <<declared, arrived, destroyed, status>> /\ owed' \subseteq owed
    BY <1>6 DEF Handle, calls
  <2>4. QED
    BY <1>0, <2>2, <2>3
<1>7. CASE Destroy
  BY <1>0, <1>7 DEF Destroy, Undeclare, calls, traffic
<1>8. CASE UNCHANGED vars
  BY <1>0, <1>8 DEF vars, calls, traffic
<1>9. QED
  BY <1>1, <1>2, <1>3, <1>4, <1>5, <1>6, <1>7, <1>8, NextCases

(* A step brings a number into use only by declaring it.                   *)
LEMMA NumberStep ==
  ASSUME TypeOK, NumberInv, [Next]_vars
  PROVE  NumberInv'
<1>0. /\ declared \subseteq Entities /\ owed \subseteq Messages \X Entities /\ declares \in Nat
      /\ \A e \in declared : e.handle \in Nat /\ e.handle <= declares
      /\ \A o \in owed : o[2].handle \in Nat /\ o[2].handle <= declares
  BY MaxDeclaresNat DEF TypeOK, NumberInv, Entities, Handles
<1>1. ASSUME UNCHANGED declares, declared' \subseteq declared,
             \A o \in owed' : o \in owed \/ o[2] \in declared
      PROVE  NumberInv'
  BY <1>0, <1>1 DEF NumberInv
<1>2. ASSUME NEW t \in Threads, RegDeclare(t) PROVE NumberInv'
  <2>1. declares' = declares + 1 /\ UNCHANGED owed
    BY <1>2 DEF RegDeclare, traffic
  <2>2. \A e \in declared' : e \in declared \/ e.handle = declares'
    BY <1>2 DEF RegDeclare
  <2>3. QED
    BY <1>0, <2>1, <2>2 DEF NumberInv
<1>3. ASSUME NEW m \in Messages, NEW u \in Uris, Arrive(m, u) PROVE NumberInv'
  BY <1>1, <1>3 DEF Arrive
<1>4. CASE Destroy
  BY <1>1, <1>4 DEF Destroy, Undeclare, traffic
<1>5. ASSUME NEW o \in owed, Handle(o[1], o[2]) PROVE NumberInv'
  BY <1>1, <1>5 DEF Handle
<1>6. ASSUME NEW t \in Threads, NEW u, NEW l, Start(t, u, l, "regLock") \/ Start(t, u, l, "unregFind")
      PROVE  NumberInv'
  BY <1>1, <1>6 DEF Start, traffic
<1>7. ASSUME NEW t \in Threads, RegLock(t) \/ RegStore(t) PROVE NumberInv'
  BY <1>1, <1>7 DEF RegLock, RegStore, traffic
<1>8. ASSUME NEW t \in Threads, UnregFind(t) \/ UnregErase(t) \/ UnregUndeclare(t) \/ UnregForget(t) PROVE NumberInv'
  BY <1>1, <1>8 DEF UnregFind, UnregErase, UnregUndeclare, UnregForget, Undeclare, traffic
<1>9. CASE UNCHANGED vars
  BY <1>1, <1>9 DEF vars, traffic
<1>10. QED
  BY <1>2, <1>3, <1>4, <1>5, <1>6, <1>7, <1>8, <1>9, NextCases

LEMMA InitBase == Init => BaseInv
<1> SUFFICES ASSUME Init PROVE BaseInv
  OBVIOUS
<1> USE DEF Init
<1>1. TypeOK
  <2>1. 0 \in 0..MaxDeclares /\ \A t \in Threads : t # NoOne
    BY NoOneApart, MaxDeclaresNat
  <2>2. listenersOf \in [Uris -> Seq(Listeners)] /\ handlesOf \in [Uris -> Seq(Handles)]
    BY EmptySeq
  <2>3. \A t \in Threads : lock = t <=> at[t] \in {"regDeclare", "regStore"}
    BY <2>1
  <2>4. QED
    BY <2>1, <2>2, <2>3 DEF TypeOK
<1>2. Declaring = {}
  BY DEF Declaring
<1>3. Cardinality(Declaring) = 0
  BY <1>2, FS_EmptySet
<1>4. RoomInv
  BY <1>3, MaxDeclaresNat DEF RoomInv
<1>5. CallInv
  BY DEF CallInv
<1>6. NumberInv
  BY DEF NumberInv
<1>7. QED
  BY <1>1, <1>4, <1>5, <1>6 DEF BaseInv

LEMMA StepBase == BaseInv /\ [Next]_vars => BaseInv'
<1> SUFFICES ASSUME BaseInv, [Next]_vars PROVE BaseInv'
  OBVIOUS
<1> USE DEF BaseInv
<1>1. RoomInv' /\ declares' \in 0..MaxDeclares
  BY RoomStep
<1>2. /\ CallInv'
      /\ at' \in [Threads -> {"idle"} \cup RegisterPcs \cup UnregisterPcs]
      /\ op' \in [Threads -> {NoCall} \cup Calls]
      /\ \A t \in Threads : lock' = t <=> at'[t] \in {"regDeclare", "regStore"}
  BY <1>1, CallStep
<1>3. inMap' \subseteq Uris /\ listenersOf' \in [Uris -> Seq(Listeners)] /\ handlesOf' \in [Uris -> Seq(Handles)]
  BY RegistryTypeStep DEF TypeOK
<1>4. TypeOK'
  BY <1>1, <1>2, <1>3, ZenohTypeStep DEF TypeOK, Calls
<1>5. NumberInv'
  BY NumberStep
<1>6. QED
  BY <1>1, <1>2, <1>4, <1>5

LEMMA BaseInductive == Spec => []BaseInv
  BY InitBase, StepBase, PTL DEF Spec

(* Every reachable state has its type, whatever races.                     *)
THEOREM TypeCorrect == Spec => []TypeOK
<1>1. BaseInv => TypeOK
  BY DEF BaseInv
<1>2. QED
  BY <1>1, BaseInductive, PTL

-----------------------------------------------------------------------------
(* The containers and zenoh, for calls that do not race *)

Busy(t)        == at[t] # "idle"
Pairs(H, L, u) == {[handle |-> H[i], uri |-> u, listener |-> L[i]] : i \in DOMAIN H}
Distinct(s)    == \A i, j \in DOMAIN s : s[i] = s[j] => i = j

(* E are the listeners L of the URI under the handles H.                   *)
Paired(E, u, H, L) ==
  /\ H \in Seq(Handles) /\ L \in Seq(Listeners)
  /\ Len(H) = Len(L)
  /\ Distinct(H) /\ Distinct(L)
  /\ E = Pairs(H, L, u)

(* Two calls on one URI are both registerListener(): this is what          *)
(* RacesAllowed = FALSE leaves.                                            *)
RaceFree ==
  \A t, x \in Threads :
    t # x /\ Busy(t) /\ Busy(x) /\ op[t].uri = op[x].uri
      => at[t] \in RegisterPcs /\ at[x] \in RegisterPcs

(* Where a call may rely on the container of its URI, or have changed it.  *)
WorkPcs     == {"regDeclare", "regStore", "unregErase", "unregUndeclare", "unregForget"}
Works(t, u) == at[t] \in WorkPcs /\ op[t].uri = u

(* What the container says of zenoh at each step of a call.                *)
Claim(t, u) ==
  LET H == handlesOf[u]  L == listenersOf[u]  l == op[t].listener  n == op[t].num IN
  /\ at[t] = "regDeclare" => Paired(Served(u), u, H, L) /\ l \notin ToSet(L)
  /\ at[t] = "regStore" => Paired(Served(u), u, Append(H, n), Append(L, l))
  /\ at[t] = "unregErase" => Paired(Served(u), u, H, L) /\ n \in DOMAIN L /\ L[n] = l
  /\ at[t] = "unregUndeclare" =>
       \E K \in Seq(Listeners) :
         Paired(Served(u), u, H, K) /\ n \in DOMAIN K /\ K[n] = l /\ L = RemoveAt(K, n)
  /\ at[t] = "unregForget" => n \in DOMAIN H /\ Paired(Served(u), u, RemoveAt(H, n), L)

UriInv(u) ==
  /\ (\A t \in Threads : ~Works(t, u)) => Paired(Served(u), u, handlesOf[u], listenersOf[u])
  /\ \A t \in Threads : Works(t, u) => Claim(t, u)

(* A container outside the map is empty, and one a call has found is in it. *)
MapInv ==
  /\ \A u \in Uris \ inMap : handlesOf[u] = <<>> /\ listenersOf[u] = <<>>
  /\ \A t \in Threads : at[t] \in {"unregErase", "unregUndeclare", "unregForget"} => op[t].uri \in inMap

(* A handle, or a listener of a URI, is declared once.                     *)
OnceInv ==
  \A d, e \in declared :
    d.handle = e.handle \/ (d.uri = e.uri /\ d.listener = e.listener) => d = e

AfterInv ==
  /\ \A t \in Threads : ~Busy(t)
  /\ \A u \in Topics : Served(u) = {}

MatchInv ==
  /\ RaceFree /\ OnceInv
  /\ ~destroyed => (\A u \in Uris : UriInv(u)) /\ MapInv
  /\ destroyed => AfterInv

(* The container after both push_backs. *)
LEMMA PairedAppend ==
  ASSUME NEW E, NEW u, NEW H, NEW L, Paired(E, u, H, L),
         NEW h \in Handles, NEW l \in Listeners, \A i \in DOMAIN H : H[i] # h, l \notin ToSet(L)
  PROVE  Paired(E \cup {[handle |-> h, uri |-> u, listener |-> l]}, u, Append(H, h), Append(L, l))
<1> DEFINE n == Len(H)  H1 == Append(H, h)  L1 == Append(L, l)
<1>1. /\ H \in Seq(Handles) /\ L \in Seq(Listeners) /\ Len(L) = n /\ n \in Nat
      /\ DOMAIN H = 1..n /\ DOMAIN L = 1..n
      /\ Distinct(H) /\ Distinct(L) /\ E = Pairs(H, L, u)
  BY LenProperties DEF Paired
<1>2. /\ H1 \in Seq(Handles) /\ Len(H1) = n + 1 /\ DOMAIN H1 = 1..(n + 1)
      /\ \A i \in 1..n : H1[i] = H[i]
      /\ H1[n + 1] = h
  BY <1>1, AppendProperties, LenProperties
<1>3. /\ L1 \in Seq(Listeners) /\ Len(L1) = n + 1 /\ DOMAIN L1 = 1..(n + 1)
      /\ \A i \in 1..n : L1[i] = L[i]
      /\ L1[n + 1] = l
  BY <1>1, AppendProperties, LenProperties
<1>4. \A i \in 1..n : L[i] # l
  BY <1>1 DEF ToSet
<1> HIDE DEF n, H1, L1
<1>5. 1..(n + 1) = (1..n) \cup {n + 1} /\ n + 1 \notin 1..n
  BY <1>1
<1>6. Distinct(H1) /\ Distinct(L1)
  BY <1>1, <1>2, <1>3, <1>4, <1>5 DEF Distinct
<1>7. Pairs(H1, L1, u) = Pairs(H, L, u) \cup {[handle |-> h, uri |-> u, listener |-> l]}
  BY <1>1, <1>2, <1>3, <1>5 DEF Pairs
<1>8. QED
  BY <1>1, <1>2, <1>3, <1>6, <1>7 DEF Paired, H1, L1

(* What is left of a sequence without repetitions.                         *)
LEMMA RemoveDistinct ==
  ASSUME NEW S, NEW s \in Seq(S), Distinct(s), NEW i \in DOMAIN s
  PROVE  /\ Distinct(RemoveAt(s, i))
         /\ \A j \in DOMAIN RemoveAt(s, i) : RemoveAt(s, i)[j] # s[i]
<1> DEFINE r == RemoveAt(s, i)  old(j) == IF j < i THEN j ELSE j + 1
<1>1. /\ r \in Seq(S) /\ Len(s) \in Nat /\ i \in 1..Len(s) /\ Len(r) = Len(s) - 1
      /\ \A j \in 1..(Len(s) - 1) : r[j] = IF j < i THEN s[j] ELSE s[j + 1]
  BY RemoveAtProps
<1>2. DOMAIN r = 1..(Len(s) - 1) /\ DOMAIN s = 1..Len(s)
  BY <1>1, LenProperties
<1>3. \A j \in DOMAIN r : old(j) \in DOMAIN s /\ old(j) # i /\ r[j] = s[old(j)]
  BY <1>1, <1>2
<1>4. \A j, k \in DOMAIN r : old(j) = old(k) => j = k
  BY <1>1, <1>2
<1> HIDE DEF r, old
<1>5. QED
  BY <1>3, <1>4 DEF Distinct, r

(* The container after a listener and its handle are erased, and zenoh     *)
(* after the handle is undeclared.                                         *)
LEMMA PairedRemove ==
  ASSUME NEW E, NEW u, NEW H, NEW L, Paired(E, u, H, L), NEW i \in DOMAIN L
  PROVE  /\ i \in DOMAIN H
         /\ Paired({e \in E : e.handle # H[i]}, u, RemoveAt(H, i), RemoveAt(L, i))
<1> DEFINE n == Len(H)  H1 == RemoveAt(H, i)  L1 == RemoveAt(L, i)  old(j) == IF j < i THEN j ELSE j + 1
<1>1. /\ H \in Seq(Handles) /\ L \in Seq(Listeners) /\ Len(L) = n /\ n \in Nat
      /\ DOMAIN H = 1..n /\ DOMAIN L = 1..n /\ i \in 1..n
      /\ Distinct(H) /\ Distinct(L) /\ E = Pairs(H, L, u)
  BY LenProperties DEF Paired
<1>2. /\ H1 \in Seq(Handles) /\ Len(H1) = n - 1
      /\ \A j \in 1..(n - 1) : H1[j] = IF j < i THEN H[j] ELSE H[j + 1]
  BY <1>1, RemoveAtProps
<1>3. /\ L1 \in Seq(Listeners) /\ Len(L1) = n - 1
      /\ \A j \in 1..(n - 1) : L1[j] = IF j < i THEN L[j] ELSE L[j + 1]
  BY <1>1, RemoveAtProps
<1>4. Distinct(H1) /\ Distinct(L1)
  BY <1>1, RemoveDistinct
<1>5. DOMAIN H1 = 1..(n - 1)
  BY <1>2, LenProperties
<1> HIDE DEF n, H1, L1
<1>6. \A j \in 1..(n - 1) : old(j) \in 1..n /\ old(j) # i /\ H1[j] = H[old(j)] /\ L1[j] = L[old(j)]
  <2> SUFFICES ASSUME NEW j \in 1..(n - 1)
               PROVE  old(j) \in 1..n /\ old(j) # i /\ H1[j] = H[old(j)] /\ L1[j] = L[old(j)]
    OBVIOUS
  <2>1. old(j) \in 1..n /\ old(j) # i
    BY <1>1
  <2>2. H1[j] = H[old(j)]
    BY <1>2
  <2>3. L1[j] = L[old(j)]
    BY <1>3
  <2>4. QED
    BY <2>1, <2>2, <2>3
<1>7. \A k \in 1..n : k # i => \E j \in 1..(n - 1) : old(j) = k
  <2> SUFFICES ASSUME NEW k \in 1..n, k # i PROVE \E j \in 1..(n - 1) : old(j) = k
    OBVIOUS
  <2>1. CASE k < i
    BY <1>1, <2>1
  <2>2. CASE ~(k < i)
    <3>1. k - 1 \in 1..(n - 1) /\ old(k - 1) = k
      BY <1>1, <2>2
    <3>2. QED
      BY <3>1
  <2>3. QED
    BY <2>1, <2>2
<1> HIDE DEF old
<1>8. {e \in E : e.handle # H[i]} = {[handle |-> H[k], uri |-> u, listener |-> L[k]] : k \in (1..n) \ {i}}
  BY <1>1 DEF Pairs, Distinct
<1>9. Pairs(H1, L1, u) = {[handle |-> H[k], uri |-> u, listener |-> L[k]] : k \in (1..n) \ {i}}
  <2>1. Pairs(H1, L1, u) = {[handle |-> H[old(j)], uri |-> u, listener |-> L[old(j)]] : j \in 1..(n - 1)}
    BY <1>5, <1>6 DEF Pairs
  <2>2. \A j \in 1..(n - 1) : old(j) \in (1..n) \ {i}
    BY <1>6
  <2>3. QED
    BY <1>7, <2>1, <2>2
<1>10. QED
  BY <1>1, <1>2, <1>3, <1>4, <1>8, <1>9 DEF Paired, H1, L1

(* The steps of a call after its start. *)
GoesOn(t) ==
  \/ RegLock(t) \/ RegDeclare(t) \/ RegStore(t)
  \/ UnregFind(t) \/ UnregErase(t) \/ UnregUndeclare(t) \/ UnregForget(t)

(* A call keeps its URI and its listener, and leaves other calls alone.    *)
LEMMA CallGoesOn ==
  ASSUME BaseInv, NEW t \in Threads, GoesOn(t)
  PROVE  /\ Busy(t)
         /\ Busy(t)' => /\ op'[t].uri = op[t].uri /\ op'[t].listener = op[t].listener
                        /\ at[t] \in RegisterPcs => at'[t] \in RegisterPcs
         /\ \A x \in Threads \ {t} : at'[x] = at[x] /\ op'[x] = op[x]
<1> DEFINE Goal == /\ Busy(t)
                   /\ Busy(t)' => /\ op'[t].uri = op[t].uri /\ op'[t].listener = op[t].listener
                                  /\ at[t] \in RegisterPcs => at'[t] \in RegisterPcs
                   /\ \A x \in Threads \ {t} : at'[x] = at[x] /\ op'[x] = op[x]
<1>0. /\ at \in [Threads -> {"idle"} \cup RegisterPcs \cup UnregisterPcs]
      /\ op \in [Threads -> {NoCall} \cup Calls]
      /\ Busy(t) => op[t] \in Calls
  BY DEF BaseInv, TypeOK, CallInv, Calls, Busy
<1> USE DEF Busy, Goto, RegisterPcs, UnregisterPcs
<1>1. ASSUME NEW n, NEW label \in {"regStore", "unregErase"}, Busy(t), Goto(t, label), op' = [op EXCEPT ![t].num = n],
             at[t] \in RegisterPcs => label = "regStore"
      PROVE  Goal
  <2>1. [op[t] EXCEPT !.num = n].uri = op[t].uri /\ [op[t] EXCEPT !.num = n].listener = op[t].listener
    BY <1>0, <1>1 DEF Calls
  <2>2. op'[t] = [op[t] EXCEPT !.num = n] /\ \A x \in Threads \ {t} : op'[x] = op[x]
    BY <1>0, <1>1
  <2>3. at'[t] = label /\ \A x \in Threads \ {t} : at'[x] = at[x]
    BY <1>0, <1>1
  <2>4. QED
    BY <1>1, <2>1, <2>2, <2>3
<1>2. ASSUME NEW code, Busy(t), Return(t, code) PROVE Goal
  BY <1>0, <1>2 DEF Return
<1>3. CASE RegLock(t)
  BY <1>0, <1>2, <1>3 DEF RegLock
<1>4. CASE RegDeclare(t)
  <2>1. CASE op' = [op EXCEPT ![t].num = declares'] /\ Goto(t, "regStore")
    BY <1>0, <1>1, <1>4, <2>1 DEF RegDeclare
  <2>2. QED
    BY <1>2, <1>4, <2>1 DEF RegDeclare
<1>5. CASE RegStore(t) \/ UnregForget(t)
  BY <1>2, <1>5 DEF RegStore, UnregForget
<1>6. CASE UnregFind(t)
  <2>1. CASE op' = [op EXCEPT ![t].num = IndexOf(op[t].uri, op[t].listener)] /\ Goto(t, "unregErase")
    BY <1>0, <1>1, <1>6, <2>1 DEF UnregFind
  <2>2. QED
    BY <1>2, <1>6, <2>1 DEF UnregFind
<1>7. CASE UnregErase(t) \/ UnregUndeclare(t)
  BY <1>0, <1>7 DEF UnregErase, UnregUndeclare
<1>8. QED
  BY <1>3, <1>4, <1>5, <1>6, <1>7 DEF GoesOn

LEMMA RaceFreeStep ==
  ASSUME ~RacesAllowed, BaseInv, RaceFree, [Next]_vars
  PROVE  RaceFree'
<1>0. /\ at \in [Threads -> {"idle"} \cup RegisterPcs \cup UnregisterPcs]
      /\ op \in [Threads -> {NoCall} \cup Calls]
  BY DEF BaseInv, TypeOK, Calls
<1>1. ASSUME NEW t \in Threads, NEW u \in Uris, NEW l \in Listeners, NEW label \in {"regLock", "unregFind"},
             Start(t, u, l, label)
      PROVE  RaceFree'
  <2>1. /\ at' = [at EXCEPT ![t] = label] /\ op'[t].uri = u
        /\ \A x \in Threads \ {t} : op'[x] = op[x] /\ at'[x] = at[x]
    BY <1>0, <1>1 DEF Start, Goto
  <2>2. \A x \in Threads \ {t} : Busy(x) /\ op[x].uri = u => label = "regLock" /\ at[x] \in RegisterPcs
    BY <1>1 DEF Start, Races, Busy
  <2>3. at'[t] = label /\ "regLock" \in RegisterPcs
    BY <1>0, <2>1 DEF RegisterPcs
  <2>4. QED
    BY <2>1, <2>2, <2>3 DEF RaceFree, Busy
<1>2. ASSUME NEW t \in Threads, GoesOn(t) PROVE RaceFree'
  BY <1>2, CallGoesOn DEF RaceFree, Busy
<1>3. CASE UNCHANGED calls
  BY <1>3 DEF calls, RaceFree, Busy
<1>4. QED
  BY <1>1, <1>2, <1>3, NextCases DEF GoesOn, Arrive, Handle, Destroy, vars

(* A step that works on one URI leaves what is claimed of another.         *)
LEMMA UriFrame ==
  ASSUME NEW u \in Uris, UriInv(u),
         handlesOf'[u] = handlesOf[u], listenersOf'[u] = listenersOf[u], Served(u)' = Served(u),
         \A x \in Threads : (Works(x, u)' <=> Works(x, u)),
         \A x \in Threads : Works(x, u) => at'[x] = at[x] /\ op'[x] = op[x]
  PROVE  UriInv(u)'
<1>1. ASSUME \A x \in Threads : ~Works(x, u)'
      PROVE  Paired(Served(u)', u, handlesOf'[u], listenersOf'[u])
  BY <1>1 DEF UriInv
<1>2. ASSUME NEW t \in Threads, Works(t, u)' PROVE Claim(t, u)'
  <2>1. Works(t, u) /\ Claim(t, u) /\ at'[t] = at[t] /\ op'[t] = op[t]
    BY <1>2 DEF UriInv
  <2>2. QED
    BY <2>1 DEF Claim
<1>3. QED
  BY <1>1, <1>2 DEF UriInv

(* Who unregisters, or may take subInitMutex_ or has it, works alone on    *)
(* its URI.                                                                *)
LEMMA WorksAlone ==
  ASSUME BaseInv, RaceFree, NEW t \in Threads, Busy(t),
         at[t] \in UnregisterPcs \/ lock \in {t, NoOne}
  PROVE  \A x \in Threads \ {t} : ~Works(x, op[t].uri)
<1> SUFFICES ASSUME NEW x \in Threads \ {t}, Works(x, op[t].uri) PROVE FALSE
  OBVIOUS
<1>1. Busy(x) /\ op[x].uri = op[t].uri
  BY DEF Works, WorkPcs, Busy
<1>2. at[t] \in RegisterPcs /\ at[x] \in RegisterPcs
  BY <1>1 DEF RaceFree
<1>3. lock \in {t, NoOne} /\ at[x] \in {"regDeclare", "regStore"}
  BY <1>2 DEF Works, WorkPcs, RegisterPcs, UnregisterPcs
<1>4. lock = x
  BY <1>3 DEF BaseInv, TypeOK
<1>5. QED
  BY <1>3, <1>4, NoOneApart

(* A step of one call, seen from the URIs it does not work on, and from    *)
(* its own when it works on nothing before or after.                       *)
LEMMA OtherUris ==
  ASSUME BaseInv, NEW t \in Threads, GoesOn(t), NEW u \in Uris, UriInv(u),
         u # op[t].uri \/ (at[t] \notin WorkPcs /\ at'[t] \notin WorkPcs),
         handlesOf'[u] = handlesOf[u], listenersOf'[u] = listenersOf[u], Served(u)' = Served(u)
  PROVE  UriInv(u)'
<1>1. ~Works(t, u) /\ ~Works(t, u)'
  <2>1. at'[t] \in WorkPcs => Busy(t)'
    BY DEF WorkPcs, Busy
  <2>2. QED
    BY <2>1, CallGoesOn DEF Works
<1>2. \A x \in Threads \ {t} : (Works(x, u)' <=> Works(x, u)) /\ at'[x] = at[x] /\ op'[x] = op[x]
  BY CallGoesOn DEF Works
<1>3. QED
  BY <1>1, <1>2, UriFrame

(* What is known, and what is to be shown, of a call alone on its URI.     *)
LEMMA AloneBefore ==
  ASSUME BaseInv, RaceFree, NEW t \in Threads, op[t].uri \in Uris, UriInv(op[t].uri), Busy(t),
         at[t] \in UnregisterPcs \/ lock \in {t, NoOne}
  PROVE  IF at[t] \in WorkPcs THEN Claim(t, op[t].uri)
         ELSE Paired(Served(op[t].uri), op[t].uri, handlesOf[op[t].uri], listenersOf[op[t].uri])
  BY WorksAlone DEF UriInv, Works

LEMMA AloneAfter ==
  ASSUME BaseInv, RaceFree, NEW t \in Threads, GoesOn(t), NEW u \in Uris, u = op[t].uri,
         at[t] \in UnregisterPcs \/ lock \in {t, NoOne},
         at'[t] \in WorkPcs => Claim(t, u)',
         at'[t] \notin WorkPcs => Paired(Served(u)', u, handlesOf'[u], listenersOf'[u])
  PROVE  UriInv(u)'
<1>1. \A x \in Threads \ {t} : ~Works(x, u)'
  <2>1. \A x \in Threads \ {t} : ~Works(x, u)
    BY CallGoesOn, WorksAlone
  <2>2. QED
    BY <2>1, CallGoesOn DEF Works
<1>2. Works(t, u)' <=> at'[t] \in WorkPcs
  <2>1. at'[t] \in WorkPcs => Busy(t)'
    BY DEF WorkPcs, Busy
  <2>2. QED
    BY <2>1, CallGoesOn DEF Works
<1>3. ASSUME \A x \in Threads : ~Works(x, u)'
      PROVE  Paired(Served(u)', u, handlesOf'[u], listenersOf'[u])
  BY <1>2, <1>3
<1>4. ASSUME NEW x \in Threads, Works(x, u)' PROVE Claim(x, u)'
  BY <1>1, <1>2, <1>4
<1>5. QED
  BY <1>3, <1>4 DEF UriInv

OpenInv == RaceFree /\ OnceInv /\ MapInv /\ \A u \in Uris : UriInv(u)

(* The listeners zenoh serves are those of a container nobody works on.    *)
LEMMA IsSetServed ==
  ASSUME BaseInv, MapInv, NEW u \in Uris, NEW l,
         Paired(Served(u), u, handlesOf[u], listenersOf[u])
  PROVE  /\ IsSet(u, l) <=> l \in ToSet(listenersOf[u])
         /\ IsSet(u, l) <=> \E e \in declared : e.uri = u /\ e.listener = l
<1> DEFINE H == handlesOf[u]  L == listenersOf[u]
<1>1. DOMAIN H = DOMAIN L /\ Served(u) = Pairs(H, L, u)
  BY LenProperties DEF Paired
<1>2. u \notin inMap => ToSet(L) = {}
  BY DEF MapInv, ToSet
<1>3. IsSet(u, l) <=> l \in ToSet(L)
  BY <1>2 DEF IsSet
<1>4. l \in ToSet(L) <=> \E i \in DOMAIN H : L[i] = l
  BY <1>1 DEF ToSet
<1>5. (\E i \in DOMAIN H : L[i] = l) <=> \E e \in Served(u) : e.listener = l
  <2>1. ASSUME NEW i \in DOMAIN H, L[i] = l PROVE \E e \in Served(u) : e.listener = l
    <3>1. [handle |-> H[i], uri |-> u, listener |-> L[i]] \in Served(u)
      BY <1>1 DEF Pairs
    <3>2. QED
      BY <2>1, <3>1
  <2>2. ASSUME NEW e \in Served(u), e.listener = l PROVE \E i \in DOMAIN H : L[i] = l
    BY <1>1, <2>2 DEF Pairs
  <2>3. QED
    BY <2>1, <2>2
<1>6. QED
  BY <1>3, <1>4, <1>5 DEF Served

(* The handle of the next declaration is in no container.                  *)
LEMMA FreshHandle ==
  ASSUME BaseInv, NEW u \in Uris, NEW H, NEW L, Paired(Served(u), u, H, L)
  PROVE  /\ \A i \in DOMAIN H : H[i] # declares + 1
         /\ \A e \in declared : e.handle # declares + 1
<1>1. ASSUME NEW e \in declared PROVE e.handle # declares + 1
  <2>1. e.handle \in Nat /\ declares \in Nat
    BY MaxDeclaresNat DEF BaseInv, TypeOK, Entities, Handles
  <2>2. e.handle <= declares
    BY DEF BaseInv, NumberInv
  <2>3. QED
    BY <2>1, <2>2
<1>2. ASSUME NEW i \in DOMAIN H PROVE \E e \in declared : e.handle = H[i]
  <2>1. [handle |-> H[i], uri |-> u, listener |-> L[i]] \in Served(u)
    BY DEF Paired, Pairs
  <2>2. QED
    BY <2>1 DEF Served
<1>3. QED
  BY <1>1, <1>2

LEMMA UriLock ==
  ASSUME BaseInv, OpenInv, NEW t \in Threads, RegLock(t)
  PROVE  \A u \in Uris : UriInv(u)'
<1> PICK u0 : u0 = op[t].uri
  OBVIOUS
<1> DEFINE l0 == op[t].listener
<1>0. /\ op[t] \in Calls /\ u0 \in Uris /\ Busy(t) /\ at[t] \notin WorkPcs /\ GoesOn(t)
      /\ at \in [Threads -> {"idle"} \cup RegisterPcs \cup UnregisterPcs] /\ lock = NoOne
      /\ UNCHANGED <<handlesOf, listenersOf, declared>>
  BY DEF RegLock, BaseInv, CallInv, TypeOK, Calls, Busy, WorkPcs, GoesOn, registry
<1>1. \A u \in Uris : Served(u)' = Served(u) /\ UriInv(u)
  BY <1>0 DEF Served, OpenInv
<1>2. Paired(Served(u0), u0, handlesOf[u0], listenersOf[u0])
  BY <1>0, <1>1, AloneBefore DEF OpenInv
<1>3. CASE Return(t, "INVALID_ARGUMENT")
  <2>1. at'[t] \notin WorkPcs
    BY <1>0, <1>3 DEF Return, Goto, WorkPcs
  <2>2. QED
    BY <1>0, <1>1, <2>1, OtherUris
<1>4. CASE ~IsSet(u0, l0) /\ Goto(t, "regDeclare") /\ UNCHANGED op
  <2>1. at'[t] = "regDeclare"
    BY <1>0, <1>4 DEF Goto
  <2>2. l0 \notin ToSet(listenersOf[u0])
    BY <1>0, <1>2, <1>4, IsSetServed DEF OpenInv
  <2>3. Claim(t, u0)'
    BY <1>0, <1>1, <1>2, <1>4, <2>1, <2>2 DEF Claim
  <2>4. UriInv(u0)'
    BY <1>0, <2>1, <2>3, AloneAfter DEF OpenInv, WorkPcs
  <2>5. \A u \in Uris \ {u0} : UriInv(u)'
    BY <1>0, <1>1, OtherUris
  <2>6. QED
    BY <2>4, <2>5
<1>5. QED
  BY <1>3, <1>4 DEF RegLock

LEMMA UriDeclare ==
  ASSUME BaseInv, OpenInv, NEW t \in Threads, RegDeclare(t), declares' \in 0..MaxDeclares
  PROVE  \A u \in Uris : UriInv(u)'
<1> PICK u0 : u0 = op[t].uri
  OBVIOUS
<1> DEFINE l0 == op[t].listener  new == [handle |-> declares', uri |-> u0, listener |-> l0]
           H0 == handlesOf[u0]  L0 == listenersOf[u0]
<1>0. /\ op[t] \in Calls /\ u0 \in Uris /\ l0 \in Listeners /\ Busy(t) /\ at[t] = "regDeclare" /\ GoesOn(t)
      /\ at \in [Threads -> {"idle"} \cup RegisterPcs \cup UnregisterPcs] /\ lock = t
      /\ op \in [Threads -> {NoCall} \cup Calls] /\ declares \in Nat
      /\ UNCHANGED <<handlesOf, listenersOf>> /\ declares' = declares + 1 /\ declares' \in Handles
  BY MaxDeclaresNat DEF RegDeclare, BaseInv, CallInv, TypeOK, Calls, Busy, GoesOn, registry, Handles
<1>1. Paired(Served(u0), u0, H0, L0) /\ l0 \notin ToSet(L0)
  BY <1>0, AloneBefore DEF OpenInv, WorkPcs, Claim
<1>2. CASE UNCHANGED declared /\ Return(t, "INTERNAL")
  <2>1. at'[t] \notin WorkPcs /\ \A u \in Uris : Served(u)' = Served(u)
    BY <1>0, <1>2 DEF Return, Goto, WorkPcs, Served
  <2>2. UriInv(u0)'
    BY <1>0, <1>1, <2>1, AloneAfter DEF OpenInv
  <2>3. \A u \in Uris \ {u0} : UriInv(u)'
    BY <1>0, <2>1, OtherUris DEF OpenInv
  <2>4. QED
    BY <2>2, <2>3
<1>3. CASE declared' = declared \cup {new} /\ op' = [op EXCEPT ![t].num = declares'] /\ Goto(t, "regStore")
  <2>1. /\ at'[t] = "regStore" /\ op'[t].num = declares' /\ op'[t].listener = l0
    BY <1>0, <1>3 DEF Goto, Calls
  <2>2. /\ Served(u0)' = Served(u0) \cup {new}
        /\ \A u \in Uris \ {u0} : Served(u)' = Served(u)
    BY <1>3 DEF Served
  <2>3. \A i \in DOMAIN H0 : H0[i] # declares'
    BY <1>0, <1>1, FreshHandle
  <2>4. Paired(Served(u0) \cup {new}, u0, Append(H0, declares'), Append(L0, l0))
    BY <1>0, <1>1, <2>3, PairedAppend
  <2>5. Claim(t, u0)'
    BY <1>0, <2>1, <2>2, <2>4 DEF Claim
  <2>6. UriInv(u0)'
    BY <1>0, <2>1, <2>5, AloneAfter DEF OpenInv, WorkPcs
  <2>7. \A u \in Uris \ {u0} : UriInv(u)'
    BY <1>0, <2>2, OtherUris DEF OpenInv
  <2>8. QED
    BY <2>6, <2>7
<1>4. QED
  BY <1>2, <1>3 DEF RegDeclare

LEMMA UriStore ==
  ASSUME BaseInv, OpenInv, NEW t \in Threads, RegStore(t)
  PROVE  \A u \in Uris : UriInv(u)'
<1> PICK u0 : u0 = op[t].uri
  OBVIOUS
<1> DEFINE l0 == op[t].listener  n0 == op[t].num
<1>0. /\ op[t] \in Calls /\ u0 \in Uris /\ Busy(t) /\ at[t] = "regStore" /\ GoesOn(t) /\ lock = t
      /\ at \in [Threads -> {"idle"} \cup RegisterPcs \cup UnregisterPcs]
      /\ listenersOf \in [Uris -> Seq(Listeners)] /\ handlesOf \in [Uris -> Seq(Handles)]
      /\ handlesOf' = [handlesOf EXCEPT ![u0] = Append(@, n0)]
      /\ listenersOf' = [listenersOf EXCEPT ![u0] = Append(@, l0)]
      /\ Return(t, "OK") /\ UNCHANGED declared
  BY DEF RegStore, BaseInv, CallInv, TypeOK, Calls, Busy, GoesOn
<1>1. Paired(Served(u0), u0, Append(handlesOf[u0], n0), Append(listenersOf[u0], l0))
  BY <1>0, AloneBefore DEF OpenInv, WorkPcs, Claim
<1>2. at'[t] \notin WorkPcs /\ \A u \in Uris : Served(u)' = Served(u)
  BY <1>0 DEF Return, Goto, WorkPcs, Served
<1>3. Paired(Served(u0)', u0, handlesOf'[u0], listenersOf'[u0])
  BY <1>0, <1>1, <1>2
<1>4. UriInv(u0)'
  BY <1>0, <1>2, <1>3, AloneAfter DEF OpenInv
<1>5. \A u \in Uris \ {u0} : UriInv(u)'
  BY <1>0, <1>2, OtherUris DEF OpenInv
<1>6. QED
  BY <1>4, <1>5

LEMMA UriFind ==
  ASSUME BaseInv, OpenInv, NEW t \in Threads, UnregFind(t)
  PROVE  \A u \in Uris : UriInv(u)'
<1> PICK u0 : u0 = op[t].uri
  OBVIOUS
<1> DEFINE l0 == op[t].listener
<1>0. /\ op[t] \in Calls /\ u0 \in Uris /\ Busy(t) /\ at[t] = "unregFind" /\ GoesOn(t)
      /\ at \in [Threads -> {"idle"} \cup RegisterPcs \cup UnregisterPcs]
      /\ op \in [Threads -> {NoCall} \cup Calls] /\ listenersOf[u0] \in Seq(Listeners)
      /\ UNCHANGED <<handlesOf, listenersOf, declared>>
  BY DEF UnregFind, BaseInv, CallInv, TypeOK, Calls, Busy, GoesOn, registry
<1>1. \A u \in Uris : Served(u)' = Served(u)
  BY <1>0 DEF Served
<1>2. Paired(Served(u0), u0, handlesOf[u0], listenersOf[u0])
  BY <1>0, AloneBefore DEF OpenInv, WorkPcs, UnregisterPcs
<1>3. CASE Goto(t, "idle")
  <2>1. at[t] \notin WorkPcs /\ at'[t] \notin WorkPcs
    BY <1>0, <1>3 DEF Goto, WorkPcs
  <2>2. QED
    BY <1>0, <1>1, <2>1, OtherUris DEF OpenInv
<1>4. CASE IsSet(u0, l0) /\ op' = [op EXCEPT ![t].num = IndexOf(u0, l0)] /\ Goto(t, "unregErase")
  <2>1. at'[t] = "unregErase" /\ op'[t].num = IndexOf(u0, l0) /\ op'[t].listener = l0
    BY <1>0, <1>4 DEF Goto, Calls
  <2>2. IndexOf(u0, l0) \in DOMAIN listenersOf[u0] /\ listenersOf[u0][IndexOf(u0, l0)] = l0
    BY <1>0, <1>4, IndexOfProps, LenProperties
  <2>3. Claim(t, u0)'
    BY <1>0, <1>1, <1>2, <2>1, <2>2 DEF Claim
  <2>4. UriInv(u0)'
    BY <1>0, <2>1, <2>3, AloneAfter DEF OpenInv, WorkPcs, UnregisterPcs
  <2>5. \A u \in Uris \ {u0} : UriInv(u)'
    BY <1>0, <1>1, OtherUris DEF OpenInv
  <2>6. QED
    BY <2>4, <2>5
<1>5. QED
  BY <1>3, <1>4 DEF UnregFind, Return

LEMMA UriErase ==
  ASSUME BaseInv, OpenInv, NEW t \in Threads, UnregErase(t)
  PROVE  \A u \in Uris : UriInv(u)'
<1> PICK u0 : u0 = op[t].uri
  OBVIOUS
<1> PICK n0 : n0 = op[t].num
  OBVIOUS
<1>0. /\ op[t] \in Calls /\ u0 \in Uris /\ Busy(t) /\ at[t] = "unregErase" /\ GoesOn(t)
      /\ at \in [Threads -> {"idle"} \cup RegisterPcs \cup UnregisterPcs]
      /\ listenersOf \in [Uris -> Seq(Listeners)]
      /\ at'[t] = "unregUndeclare" /\ UNCHANGED <<handlesOf, op, declared>>
  BY DEF UnregErase, Goto, BaseInv, CallInv, TypeOK, Calls, Busy, GoesOn
<1>1. \A u \in Uris : Served(u)' = Served(u)
  BY <1>0 DEF Served
<1>2. /\ Paired(Served(u0), u0, handlesOf[u0], listenersOf[u0])
      /\ n0 \in DOMAIN listenersOf[u0] /\ listenersOf[u0][n0] = op[t].listener
  BY <1>0, AloneBefore DEF OpenInv, WorkPcs, UnregisterPcs, Claim
<1>3. /\ listenersOf'[u0] = RemoveAt(listenersOf[u0], n0)
      /\ \A u \in Uris \ {u0} : listenersOf'[u] = listenersOf[u]
  <2>1. ErasedAt(listenersOf[u0], n0) = {RemoveAt(listenersOf[u0], n0)}
    BY <1>2 DEF ErasedAt
  <2>2. listenersOf' = [listenersOf EXCEPT ![u0] = RemoveAt(listenersOf[u0], n0)]
    BY <2>1 DEF UnregErase
  <2>3. QED
    BY <1>0, <2>2
<1>4. Claim(t, u0)'
  <2>1. \E K \in Seq(Listeners) :
          Paired(Served(u0)', u0, handlesOf'[u0], K) /\ n0 \in DOMAIN K /\ K[n0] = op[t].listener
            /\ listenersOf'[u0] = RemoveAt(K, n0)
    <3>1. listenersOf[u0] \in Seq(Listeners)
      BY <1>0
    <3>2. QED
      BY <1>0, <1>1, <1>2, <1>3, <3>1
  <2>2. QED
    BY <1>0, <2>1 DEF Claim
<1>5. UriInv(u0)'
  BY <1>0, <1>4, AloneAfter DEF OpenInv, WorkPcs, UnregisterPcs
<1>6. \A u \in Uris \ {u0} : UriInv(u)'
  BY <1>0, <1>1, <1>3, OtherUris DEF OpenInv
<1>7. QED
  BY <1>5, <1>6

(* Undeclaring a handle of one URI leaves the others served.               *)
LEMMA UndeclaredOf ==
  ASSUME OnceInv, NEW u, NEW H, NEW L, Paired(Served(u), u, H, L), NEW i \in DOMAIN H, Undeclare({H[i]})
  PROVE  /\ Served(u)' = {e \in Served(u) : e.handle # H[i]}
         /\ \A v : v # u => Served(v)' = Served(v)
<1> DEFINE d == [handle |-> H[i], uri |-> u, listener |-> L[i]]
<1>1. d \in declared /\ d.handle = H[i] /\ d.uri = u
  BY DEF Paired, Pairs, Served
<1>2. \A e \in declared : e.handle = H[i] => e.uri = u
  BY <1>1 DEF OnceInv
<1>3. declared' = {e \in declared : e.handle # H[i]}
  BY DEF Undeclare
<1>4. QED
  BY <1>2, <1>3 DEF Served

LEMMA UriUndeclare ==
  ASSUME BaseInv, OpenInv, NEW t \in Threads, UnregUndeclare(t)
  PROVE  \A u \in Uris : UriInv(u)'
<1> PICK u0 : u0 = op[t].uri
  OBVIOUS
<1> PICK n0 : n0 = op[t].num
  OBVIOUS
<1> DEFINE H0 == handlesOf[u0]
<1>0. /\ op[t] \in Calls /\ u0 \in Uris /\ Busy(t) /\ at[t] = "unregUndeclare" /\ GoesOn(t)
      /\ at \in [Threads -> {"idle"} \cup RegisterPcs \cup UnregisterPcs]
      /\ at'[t] = "unregForget" /\ UNCHANGED <<handlesOf, listenersOf, op>>
  BY DEF UnregUndeclare, Goto, BaseInv, CallInv, TypeOK, Calls, Busy, GoesOn, registry
<1>1. PICK K \in Seq(Listeners) : /\ Paired(Served(u0), u0, H0, K)
                                  /\ n0 \in DOMAIN K /\ listenersOf[u0] = RemoveAt(K, n0)
  BY <1>0, AloneBefore DEF OpenInv, WorkPcs, UnregisterPcs, Claim
<1>2. /\ n0 \in DOMAIN H0
      /\ Paired({e \in Served(u0) : e.handle # H0[n0]}, u0, RemoveAt(H0, n0), RemoveAt(K, n0))
  BY <1>1, PairedRemove
<1>3. Undeclare({H0[n0]})
  <2>1. HandleAt(t) = {H0[n0]}
    BY <1>2 DEF HandleAt
  <2>2. QED
    BY <2>1 DEF UnregUndeclare
<1>4. /\ Served(u0)' = {e \in Served(u0) : e.handle # H0[n0]}
      /\ \A v : v # u0 => Served(v)' = Served(v)
  BY <1>1, <1>2, <1>3, UndeclaredOf DEF OpenInv
<1>5. Claim(t, u0)'
  BY <1>0, <1>1, <1>2, <1>4 DEF Claim
<1>6. UriInv(u0)'
  BY <1>0, <1>5, AloneAfter DEF OpenInv, WorkPcs, UnregisterPcs
<1>7. \A u \in Uris \ {u0} : UriInv(u)'
  BY <1>0, <1>4, OtherUris DEF OpenInv
<1>8. QED
  BY <1>6, <1>7

LEMMA UriForget ==
  ASSUME BaseInv, OpenInv, NEW t \in Threads, UnregForget(t)
  PROVE  \A u \in Uris : UriInv(u)'
<1> PICK u0 : u0 = op[t].uri
  OBVIOUS
<1> PICK n0 : n0 = op[t].num
  OBVIOUS
<1>0. /\ op[t] \in Calls /\ u0 \in Uris /\ Busy(t) /\ at[t] = "unregForget" /\ GoesOn(t)
      /\ at \in [Threads -> {"idle"} \cup RegisterPcs \cup UnregisterPcs]
      /\ handlesOf \in [Uris -> Seq(Handles)]
      /\ at'[t] = "idle" /\ UNCHANGED <<listenersOf, declared>>
  BY DEF UnregForget, Return, Goto, BaseInv, CallInv, TypeOK, Calls, Busy, GoesOn
<1>1. \A u \in Uris : Served(u)' = Served(u)
  BY <1>0 DEF Served
<1>2. n0 \in DOMAIN handlesOf[u0] /\ Paired(Served(u0), u0, RemoveAt(handlesOf[u0], n0), listenersOf[u0])
  BY <1>0, AloneBefore DEF OpenInv, WorkPcs, UnregisterPcs, Claim
<1>3. /\ handlesOf'[u0] = RemoveAt(handlesOf[u0], n0)
      /\ \A u \in Uris \ {u0} : handlesOf'[u] = handlesOf[u]
  <2>1. ErasedAt(handlesOf[u0], n0) = {RemoveAt(handlesOf[u0], n0)}
    BY <1>2 DEF ErasedAt
  <2>2. handlesOf' = [handlesOf EXCEPT ![u0] = RemoveAt(handlesOf[u0], n0)]
    BY <2>1 DEF UnregForget
  <2>3. QED
    BY <1>0, <2>2
<1>4. Paired(Served(u0)', u0, handlesOf'[u0], listenersOf'[u0])
  BY <1>0, <1>1, <1>2, <1>3
<1>5. UriInv(u0)'
  BY <1>0, <1>4, AloneAfter DEF OpenInv, WorkPcs, UnregisterPcs
<1>6. \A u \in Uris \ {u0} : UriInv(u)'
  BY <1>0, <1>1, <1>3, OtherUris DEF OpenInv
<1>7. QED
  BY <1>5, <1>6

LEMMA UriStep ==
  ASSUME BaseInv, OpenInv, declares' \in 0..MaxDeclares, [Next]_vars, ~Destroy
  PROVE  \A u \in Uris : UriInv(u)'
<1> DEFINE Goal == \A u \in Uris : UriInv(u)'
<1>1. ASSUME NEW t \in Threads, NEW v \in Uris, NEW l \in Listeners, NEW label \in {"regLock", "unregFind"},
             Start(t, v, l, label)
      PROVE  Goal
  <2> SUFFICES ASSUME NEW u \in Uris PROVE UriInv(u)'
    OBVIOUS
  <2>1. /\ at' = [at EXCEPT ![t] = label] /\ at[t] = "idle" /\ label \notin WorkPcs
        /\ UNCHANGED <<handlesOf, listenersOf, declared>>
        /\ \A x \in Threads \ {t} : op'[x] = op[x]
        /\ at \in [Threads -> {"idle"} \cup RegisterPcs \cup UnregisterPcs]
    BY <1>1 DEF Start, Goto, registry, BaseInv, TypeOK, WorkPcs
  <2>2. at'[t] \notin WorkPcs /\ at[t] \notin WorkPcs /\ \A x \in Threads \ {t} : at'[x] = at[x]
    BY <2>1 DEF WorkPcs
  <2>3. /\ \A x \in Threads : Works(x, u)' <=> Works(x, u)
        /\ \A x \in Threads : Works(x, u) => at'[x] = at[x] /\ op'[x] = op[x]
    BY <2>1, <2>2 DEF Works
  <2>4. Served(u)' = Served(u)
    BY <2>1 DEF Served
  <2>5. QED
    BY <2>1, <2>3, <2>4, UriFrame DEF OpenInv
<1>2. ASSUME UNCHANGED <<registry, calls, declared>> PROVE Goal
  <2> SUFFICES ASSUME NEW u \in Uris PROVE UriInv(u)'
    OBVIOUS
  <2>1. /\ \A x \in Threads : Works(x, u)' <=> Works(x, u)
        /\ \A x \in Threads : at'[x] = at[x] /\ op'[x] = op[x]
        /\ Served(u)' = Served(u)
    BY <1>2 DEF Works, calls, Served
  <2>2. QED
    BY <1>2, <2>1, UriFrame DEF OpenInv, registry
<1>3. QED
  BY <1>1, <1>2, NextCases, UriLock, UriDeclare, UriStore, UriFind, UriErase, UriUndeclare, UriForget
  DEF Arrive, Handle, vars

(* What is declared next has a fresh handle, and a listener that was not   *)
(* served for its URI.                                                     *)
LEMMA DeclaredIsNew ==
  ASSUME BaseInv, OpenInv, NEW t \in Threads, RegDeclare(t)
  PROVE  /\ \A e \in declared : e.handle # declares + 1
         /\ ~\E e \in declared : e.uri = op[t].uri /\ e.listener = op[t].listener
<1> PICK u0 : u0 = op[t].uri
  OBVIOUS
<1>0. u0 \in Uris /\ Busy(t) /\ at[t] = "regDeclare" /\ lock = t
  BY DEF RegDeclare, BaseInv, CallInv, TypeOK, Calls, Busy
<1>1. Paired(Served(u0), u0, handlesOf[u0], listenersOf[u0]) /\ op[t].listener \notin ToSet(listenersOf[u0])
  BY <1>0, AloneBefore DEF OpenInv, WorkPcs, Claim
<1>2. ~IsSet(u0, op[t].listener)
  BY <1>0, <1>1, IsSetServed DEF OpenInv
<1>3. ~\E e \in declared : e.uri = u0 /\ e.listener = op[t].listener
  BY <1>0, <1>1, <1>2, IsSetServed DEF OpenInv
<1>4. \A e \in declared : e.handle # declares + 1
  BY <1>0, <1>1, FreshHandle
<1>5. QED
  BY <1>3, <1>4

LEMMA OnceStep ==
  ASSUME BaseInv, OpenInv, [Next]_vars
  PROVE  OnceInv'
<1>1. ASSUME declared' \subseteq declared PROVE OnceInv'
  BY <1>1 DEF OpenInv, OnceInv
<1>2. ASSUME NEW t \in Threads, RegDeclare(t) PROVE OnceInv'
  <2> DEFINE new == [handle |-> declares', uri |-> op[t].uri, listener |-> op[t].listener]
  <2>1. CASE declared' = declared \cup {new} /\ declares' = declares + 1
    <3>1. \A e \in declared : new.handle # e.handle /\ ~(new.uri = e.uri /\ new.listener = e.listener)
      BY <1>2, <2>1, DeclaredIsNew
    <3>2. QED
      BY <2>1, <3>1 DEF OpenInv, OnceInv
  <2>2. CASE UNCHANGED declared
    BY <1>1, <2>2
  <2>3. QED
    BY <1>2, <2>1, <2>2 DEF RegDeclare
<1>3. QED
  BY <1>1, <1>2, NextCases
  DEF Start, RegLock, RegStore, UnregFind, UnregErase, UnregUndeclare, UnregForget, Undeclare,
      Arrive, Handle, Destroy, vars

LEMMA MapStep ==
  ASSUME BaseInv, MapInv, [Next]_vars, ~Destroy
  PROVE  MapInv'
<1> DEFINE Found == {"unregErase", "unregUndeclare", "unregForget"}
<1>0. /\ at \in [Threads -> {"idle"} \cup RegisterPcs \cup UnregisterPcs]
      /\ op \in [Threads -> {NoCall} \cup Calls]
      /\ listenersOf \in [Uris -> Seq(Listeners)] /\ handlesOf \in [Uris -> Seq(Handles)]
      /\ \A u \in Uris \ inMap : handlesOf[u] = <<>> /\ listenersOf[u] = <<>>
      /\ \A t \in Threads : at[t] \in Found => op[t].uri \in inMap
  BY DEF BaseInv, TypeOK, Calls, MapInv
<1>1. ASSUME UNCHANGED registry, \A t \in Threads : at'[t] \in Found => op'[t].uri \in inMap
      PROVE  MapInv'
  BY <1>0, <1>1 DEF MapInv, registry
(* A thread that goes on where it was, or has found its URI in the map. *)
<1>2. ASSUME NEW t \in Threads, GoesOn(t), at'[t] \in Found => at[t] \in Found \/ op[t].uri \in inMap
      PROVE  \A x \in Threads : at'[x] \in Found => op'[x].uri \in inMap
  <2>1. at'[t] \in Found => Busy(t)'
    BY DEF Busy
  <2>2. QED
    BY <1>0, <1>2, <2>1, CallGoesOn
<1>3. ASSUME NEW t \in Threads, NEW u \in Uris, NEW l \in Listeners, NEW label \in {"regLock", "unregFind"},
             Start(t, u, l, label)
      PROVE  MapInv'
  BY <1>0, <1>1, <1>3 DEF Start, Goto
<1>4. ASSUME NEW t \in Threads, RegLock(t) \/ RegDeclare(t) PROVE MapInv'
  <2>1. GoesOn(t) /\ at'[t] \notin Found /\ UNCHANGED registry
    BY <1>0, <1>4 DEF GoesOn, RegLock, RegDeclare, Return, Goto
  <2>2. QED
    BY <1>1, <1>2, <2>1
<1>5. ASSUME NEW t \in Threads, UnregFind(t) PROVE MapInv'
  <2>1. GoesOn(t) /\ (at'[t] \in Found => op[t].uri \in inMap) /\ UNCHANGED registry
    BY <1>0, <1>5 DEF GoesOn, UnregFind, Return, Goto, IsSet
  <2>2. QED
    BY <1>1, <1>2, <2>1
<1>6. ASSUME NEW t \in Threads, UnregUndeclare(t) PROVE MapInv'
  <2>1. GoesOn(t) /\ at[t] \in Found /\ UNCHANGED registry
    BY <1>0, <1>6 DEF GoesOn, UnregUndeclare
  <2>2. QED
    BY <1>1, <1>2, <2>1
<1>7. ASSUME NEW t \in Threads, RegStore(t) PROVE MapInv'
  <2>1. GoesOn(t) /\ at'[t] \notin Found /\ inMap' = inMap \cup {op[t].uri}
    BY <1>0, <1>7 DEF GoesOn, RegStore, Return, Goto
  <2>2. \A u \in Uris \ {op[t].uri} : handlesOf'[u] = handlesOf[u] /\ listenersOf'[u] = listenersOf[u]
    BY <1>0, <1>7 DEF RegStore
  <2>3. QED
    BY <1>0, <1>2, <2>1, <2>2 DEF MapInv
<1>8. ASSUME NEW t \in Threads, UnregErase(t) \/ UnregForget(t) PROVE MapInv'
  <2>1. GoesOn(t) /\ at[t] \in Found /\ UNCHANGED inMap
    BY <1>0, <1>8 DEF GoesOn, UnregErase, UnregForget
  <2>2. \A u \in Uris \ {op[t].uri} : handlesOf'[u] = handlesOf[u] /\ listenersOf'[u] = listenersOf[u]
    BY <1>0, <1>8 DEF UnregErase, UnregForget
  <2>3. op[t].uri \in inMap
    BY <1>0, <2>1
  <2>4. QED
    BY <1>0, <1>2, <2>1, <2>2, <2>3 DEF MapInv
<1>9. CASE UNCHANGED <<registry, calls>>
  BY <1>0, <1>1, <1>9 DEF calls
<1>10. QED
  BY <1>3, <1>4, <1>5, <1>6, <1>7, <1>8, <1>9, NextCases DEF Arrive, Handle, vars

(* The destructor finds every subscriber in a container.                   *)
LEMMA AfterDestroy ==
  ASSUME BaseInv, OpenInv, Destroy
  PROVE  AfterInv'
<1>1. UNCHANGED <<at, op>> /\ \A t \in Threads : ~Busy(t)
  BY DEF Destroy, calls, Busy
<1>2. ASSUME NEW u \in Topics, NEW e \in declared', e.uri = u PROVE FALSE
  <2>1. e \in declared /\ e.handle \notin Subscribers
    BY DEF Destroy, Undeclare
  <2>2. u \in Uris /\ \A t \in Threads : ~Works(t, u)
    BY <1>1 DEF Works, WorkPcs, Busy, Uris
  <2>3. Served(u) = Pairs(handlesOf[u], listenersOf[u], u)
    BY <2>2 DEF OpenInv, UriInv, Paired
  <2>4. e \in Served(u)
    BY <1>2, <2>1 DEF Served
  <2>5. PICK i \in DOMAIN handlesOf[u] : e.handle = handlesOf[u][i]
    BY <2>3, <2>4 DEF Pairs
  <2>6. u \in inMap
    BY <2>2, <2>5 DEF OpenInv, MapInv
  <2>7. e.handle \in ToSet(handlesOf[u])
    BY <2>5 DEF ToSet
  <2>8. QED
    BY <2>1, <2>6, <2>7 DEF Subscribers
<1>3. \A u \in Topics : Served(u)' = {}
  BY <1>2 DEF Served
<1>4. QED
  BY <1>1, <1>3 DEF AfterInv, Busy

LEMMA MatchStep ==
  ASSUME ~RacesAllowed, BaseInv, MatchInv, declares' \in 0..MaxDeclares, [Next]_vars
  PROVE  MatchInv'
<1>1. RaceFree'
  BY RaceFreeStep DEF MatchInv
<1>2. CASE destroyed
  <2>1. \A t \in Threads : at[t] = "idle"
    BY <1>2 DEF MatchInv, AfterInv, Busy
  <2>2. UNCHANGED <<calls, declared, destroyed>>
    BY <1>2, <2>1, NextCases
    DEF Start, RegLock, RegDeclare, RegStore, UnregFind, UnregErase, UnregUndeclare, UnregForget,
        Arrive, Handle, Destroy, vars
  <2>3. OnceInv' /\ AfterInv'
    BY <1>2, <2>2 DEF MatchInv, OnceInv, AfterInv, Busy, Served, calls
  <2>4. QED
    BY <1>1, <1>2, <2>2, <2>3 DEF MatchInv
<1>3. CASE ~destroyed
  <2>1. OpenInv
    BY <1>3 DEF MatchInv, OpenInv
  <2>2. OnceInv'
    BY <2>1, OnceStep
  <2>3. CASE Destroy
    BY <1>1, <2>1, <2>2, <2>3, AfterDestroy DEF MatchInv, Destroy
  <2>4. CASE ~Destroy
    <3>1. destroyed' = destroyed
      BY <2>4, NextCases
      DEF Start, RegLock, RegDeclare, RegStore, UnregFind, UnregErase, UnregUndeclare, UnregForget,
          Arrive, Handle, vars
    <3>2. MapInv' /\ \A u \in Uris : UriInv(u)'
      BY <2>1, <2>4, MapStep, UriStep DEF OpenInv
    <3>3. QED
      BY <1>1, <1>3, <2>2, <3>1, <3>2 DEF MatchInv
  <2>5. QED
    BY <2>3, <2>4
<1>4. QED
  BY <1>2, <1>3

LEMMA InitMatch == Init => MatchInv
<1> SUFFICES ASSUME Init PROVE MatchInv
  OBVIOUS
<1>1. RaceFree /\ OnceInv /\ MapInv /\ ~destroyed
  BY DEF Init, RaceFree, OnceInv, MapInv, Busy
<1>2. ASSUME NEW u \in Uris PROVE UriInv(u)
  <2>1. \A t \in Threads : ~Works(t, u)
    BY DEF Init, Works, WorkPcs
  <2>2. handlesOf[u] = <<>> /\ listenersOf[u] = <<>> /\ Served(u) = {}
    BY DEF Init, Served
  <2>3. Pairs(<<>>, <<>>, u) = {} /\ Distinct(<<>>)
    BY DEF Pairs, Distinct
  <2>4. Paired(Served(u), u, handlesOf[u], listenersOf[u])
    BY <2>2, <2>3, EmptySeq DEF Paired
  <2>5. QED
    BY <2>1, <2>4 DEF UriInv
<1>3. QED
  BY <1>1, <1>2 DEF MatchInv

LEMMA MatchInductive ==
  ASSUME ~RacesAllowed
  PROVE  Spec => [](BaseInv /\ MatchInv)
<1>1. BaseInv /\ MatchInv /\ [Next]_vars => MatchInv'
  <2> SUFFICES ASSUME BaseInv, MatchInv, [Next]_vars PROVE MatchInv'
    OBVIOUS
  <2>1. declares' \in 0..MaxDeclares
    BY StepBase DEF BaseInv, TypeOK
  <2>2. QED
    BY <2>1, MatchStep
<1>2. QED
  BY <1>1, InitBase, StepBase, InitMatch, PTL DEF Spec

(* When calls do not race, zenoh serves exactly the listeners of every     *)
(* container that no call works on, each under the handle at its index.    *)
THEOREM ContainersMatch ==
  ASSUME ~RacesAllowed
  PROVE  Spec => []RegistryMatchesZenoh
<1>1. BaseInv /\ MatchInv => RegistryMatchesZenoh
  <2> SUFFICES ASSUME BaseInv, MatchInv, ~destroyed, NEW u \in Uris, Quiet(u)
               PROVE  /\ Len(handlesOf[u]) = Len(listenersOf[u])
                      /\ Served(u) = {[handle |-> handlesOf[u][i], uri |-> u, listener |-> listenersOf[u][i]] :
                                        i \in DOMAIN listenersOf[u]}
    BY DEF RegistryMatchesZenoh
  <2>1. \A t \in Threads : ~Works(t, u)
    BY CallIsNotNoCall DEF Works, WorkPcs, Quiet, BaseInv, CallInv
  <2>2. Paired(Served(u), u, handlesOf[u], listenersOf[u])
    BY <2>1 DEF MatchInv, UriInv
  <2>3. DOMAIN handlesOf[u] = DOMAIN listenersOf[u]
    BY <2>2, LenProperties DEF Paired
  <2>4. QED
    BY <2>2, <2>3 DEF Paired, Pairs
<1>2. QED
  BY <1>1, MatchInductive, PTL

(* When calls do not race, no subscriber outlives the transport.           *)
THEOREM SubscribersGone ==
  ASSUME ~RacesAllowed
  PROVE  Spec => []NoSubscriberOutlives
<1>1. MatchInv => NoSubscriberOutlives
  BY DEF MatchInv, AfterInv, NoSubscriberOutlives
<1>2. QED
  BY <1>1, MatchInductive, PTL

-----------------------------------------------------------------------------
(* The registry implements AtomicRegistry, for calls that do not race *)

CallOf(t) ==
  IF at[t] \in {"regLock", "regDeclare"} THEN <<"register", op[t].uri, op[t].listener>>
  ELSE IF at[t] \in UnregisterPcs \ {"unregForget"} THEN <<"unregister", op[t].uri, op[t].listener>>
  ELSE NoCall
AnswerOf(t) == IF at[t] \in {"regStore", "unregForget"} THEN "OK" ELSE status[t]

ServedPairs == {<<e.uri, e.listener>> : e \in declared}
KnownUris   == inMap \cup {op[t].uri : t \in {x \in Threads : at[x] = "regStore"}}
Asked       == [t \in Threads |-> CallOf(t)]
Answered    == [t \in Threads |-> AnswerOf(t)]
OwedCalls   == {<<o[1], o[2].uri, o[2].listener>> : o \in owed}

(* The variables and steps of AtomicRegistry, written with these names.    *)
LEMMA AtomicVars ==
  ASSUME UNCHANGED <<ServedPairs, KnownUris, Asked, Answered, arrived, OwedCalls, heard, destroyed>>
  PROVE  UNCHANGED Atomic!vars
  BY DEF Atomic!vars, ServedPairs, KnownUris, Asked, Answered, OwedCalls, CallOf, AnswerOf

LEMMA AtomicAsk ==
  ASSUME NEW t \in Threads, NEW call, Asked[t] = NoCall, ~destroyed,
         Asked' = [Asked EXCEPT ![t] = call], Answered' = [Answered EXCEPT ![t] = "none"],
         UNCHANGED <<ServedPairs, KnownUris, arrived, OwedCalls, heard, destroyed>>
  PROVE  Atomic!Ask(t, call)
  BY DEF Atomic!Ask, Atomic!NoCall, NoCall, ServedPairs, KnownUris, Asked, Answered, OwedCalls, CallOf, AnswerOf

LEMMA AtomicAnswer ==
  ASSUME NEW t \in Threads, NEW code,
         Asked' = [Asked EXCEPT ![t] = NoCall], Answered' = [Answered EXCEPT ![t] = code],
         UNCHANGED <<arrived, OwedCalls, heard, destroyed>>
  PROVE  Atomic!Answer(t, code)
  BY DEF Atomic!Answer, Atomic!NoCall, NoCall, Asked, Answered, OwedCalls, CallOf, AnswerOf

LEMMA AtomicRegister ==
  ASSUME NEW t \in Threads, NEW u, NEW l, Asked[t] = <<"register", u, l>>,
         \/ /\ <<u, l>> \in ServedPairs /\ Atomic!Answer(t, "INVALID_ARGUMENT")
            /\ UNCHANGED <<ServedPairs, KnownUris>>
         \/ /\ <<u, l>> \notin ServedPairs /\ Atomic!Answer(t, "INTERNAL")
            /\ UNCHANGED <<ServedPairs, KnownUris>>
         \/ /\ <<u, l>> \notin ServedPairs /\ Atomic!Answer(t, "OK")
            /\ ServedPairs' = ServedPairs \cup {<<u, l>>} /\ KnownUris' = KnownUris \cup {u}
  PROVE  Atomic!Register(t, u, l)
  BY DEF Atomic!Register, ServedPairs, KnownUris, Asked, CallOf

LEMMA AtomicUnregister ==
  ASSUME NEW t \in Threads, NEW u, NEW l, Asked[t] = <<"unregister", u, l>>,
         NEW code, code = IF u \in KnownUris THEN "OK" ELSE "INVALID_ARGUMENT", Atomic!Answer(t, code),
         ServedPairs' = ServedPairs \ {<<u, l>>}, UNCHANGED KnownUris
  PROVE  Atomic!Unregister(t, u, l)
  BY DEF Atomic!Unregister, Atomic!Answer, ServedPairs, KnownUris, Asked, CallOf

LEMMA AtomicArrive ==
  ASSUME NEW m, NEW u, m \notin arrived, arrived' = arrived \cup {m},
         OwedCalls' = OwedCalls \cup {<<m, p[1], p[2]>> : p \in {q \in ServedPairs : q[1] = u}},
         UNCHANGED <<ServedPairs, KnownUris, Asked, Answered, heard, destroyed>>
  PROVE  Atomic!Arrive(m, u)
  BY DEF Atomic!Arrive, ServedPairs, KnownUris, Asked, Answered, OwedCalls, CallOf, AnswerOf

LEMMA AtomicDeliver ==
  ASSUME NEW call \in OwedCalls, OwedCalls' = OwedCalls \ {call}, heard' \in {heard, heard \cup {call}},
         UNCHANGED <<ServedPairs, KnownUris, Asked, Answered, arrived, destroyed>>
  PROVE  \E c \in OwedCalls : Atomic!Deliver(c)
  BY DEF Atomic!Deliver, ServedPairs, KnownUris, Asked, Answered, OwedCalls, CallOf, AnswerOf

LEMMA AtomicLeave ==
  ASSUME destroyed' = TRUE, ServedPairs' \in SUBSET ServedPairs, KnownUris' = {},
         UNCHANGED <<Asked, Answered, arrived, OwedCalls, heard>>
  PROVE  Atomic!Leave
  BY DEF Atomic!Leave, ServedPairs, KnownUris, Asked, Answered, OwedCalls, CallOf, AnswerOf

LEMMA AtomicNext ==
  Atomic!Next <=>
    \/ \E t \in Threads, u \in Uris, l \in Listeners :
         \/ Atomic!Ask(t, <<"register", u, l>>) \/ Atomic!Ask(t, <<"unregister", u, l>>)
         \/ Atomic!Register(t, u, l) \/ Atomic!Unregister(t, u, l)
    \/ \E m \in Messages, u \in Uris : Atomic!Arrive(m, u)
    \/ \E call \in OwedCalls : Atomic!Deliver(call)
    \/ Atomic!Leave
  BY DEF Atomic!Next, OwedCalls

(* A callback due is known by its message, URI and listener.               *)
OwedInv ==
  /\ \A o \in owed : o[1] \in arrived
  /\ \A o, p \in owed : o[1] = p[1] /\ o[2].uri = p[2].uri /\ o[2].listener = p[2].listener => o = p

LEMMA OwedStep ==
  ASSUME TypeOK, OnceInv, OwedInv, [Next]_vars
  PROVE  OwedInv'
<1>1. ASSUME NEW m \in Messages, NEW u \in Uris, Arrive(m, u) PROVE OwedInv'
  <2>1. /\ m \notin arrived /\ arrived' = arrived \cup {m}
        /\ owed' = owed \cup {<<m, e>> : e \in {d \in declared : d.uri = u}}
    BY <1>1 DEF Arrive
  <2>2. \A o \in owed' : o[1] \in arrived'
    BY <2>1 DEF OwedInv
  <2>3. \A o \in owed' : (o \in owed /\ o[1] # m) \/ \E e \in declared : o = <<m, e>>
    BY <2>1 DEF OwedInv
  <2>4. ASSUME NEW o \in owed', NEW p \in owed',
               o[1] = p[1], o[2].uri = p[2].uri, o[2].listener = p[2].listener
        PROVE  o = p
    <3>1. CASE o \in owed /\ p \in owed
      BY <2>4, <3>1 DEF OwedInv
    <3>2. CASE \E e \in declared : o = <<m, e>>
      <4>1. PICK d \in declared : o = <<m, d>>
        BY <3>2
      <4>2. PICK e \in declared : p = <<m, e>>
        BY <2>3, <2>4, <4>1
      <4>3. d = e
        BY <2>4, <4>1, <4>2 DEF OnceInv
      <4>4. QED
        BY <4>1, <4>2, <4>3
    <3>3. CASE \E e \in declared : p = <<m, e>>
      <4>1. PICK d \in declared : p = <<m, d>>
        BY <3>3
      <4>2. PICK e \in declared : o = <<m, e>>
        BY <2>3, <2>4, <4>1
      <4>3. d = e
        BY <2>4, <4>1, <4>2 DEF OnceInv
      <4>4. QED
        BY <4>1, <4>2, <4>3
    <3>4. QED
      BY <2>3, <3>1, <3>2, <3>3
  <2>5. QED
    BY <2>2, <2>4 DEF OwedInv
<1>2. ASSUME owed' \subseteq owed, UNCHANGED arrived PROVE OwedInv'
  BY <1>2 DEF OwedInv
<1>3. QED
  BY <1>1, <1>2, NextCases
  DEF Start, RegLock, RegDeclare, RegStore, UnregFind, UnregErase, UnregUndeclare, UnregForget,
      Handle, Destroy, vars, traffic

(* What one thread does to the questions and answers. *)
LEMMA OneCall ==
  ASSUME NEW t \in Threads,
         \A x \in Threads \ {t} : at'[x] = at[x] /\ op'[x] = op[x] /\ status'[x] = status[x]
  PROVE  /\ Asked' = [Asked EXCEPT ![t] = CallOf(t)']
         /\ Answered' = [Answered EXCEPT ![t] = AnswerOf(t)']
<1>1. \A x \in Threads \ {t} : CallOf(x)' = CallOf(x) /\ AnswerOf(x)' = AnswerOf(x)
  BY DEF CallOf, AnswerOf
<1>2. QED
  BY <1>1 DEF Asked, Answered

LEMMA SameCall ==
  ASSUME NEW t \in Threads,
         \A x \in Threads \ {t} : at'[x] = at[x] /\ op'[x] = op[x] /\ status'[x] = status[x],
         CallOf(t)' = CallOf(t), AnswerOf(t)' = AnswerOf(t)
  PROVE  UNCHANGED <<Asked, Answered>>
<1>1. \A x \in Threads : CallOf(x)' = CallOf(x) /\ AnswerOf(x)' = AnswerOf(x)
  BY DEF CallOf, AnswerOf
<1>2. QED
  BY <1>1 DEF Asked, Answered

Refined == [Atomic!Next]_(Atomic!vars)

(* The first step of a call asks; it takes effect later.                   *)
LEMMA StartRefined ==
  ASSUME BaseInv, NEW t \in Threads, NEW u \in Uris, NEW l \in Listeners,
         Start(t, u, l, "regLock") \/ Start(t, u, l, "unregFind")
  PROVE  Refined
<1>0. /\ at \in [Threads -> {"idle"} \cup RegisterPcs \cup UnregisterPcs]
      /\ op \in [Threads -> {NoCall} \cup Calls]
      /\ status \in [Threads -> {"none", "OK", "INVALID_ARGUMENT", "INTERNAL"}]
  BY DEF BaseInv, TypeOK, Calls
<1>1. PICK label \in {"regLock", "unregFind"} : Start(t, u, l, label)
  OBVIOUS
<1>2. /\ at[t] = "idle" /\ ~destroyed /\ at'[t] = label /\ op'[t].uri = u /\ op'[t].listener = l
      /\ status'[t] = "none"
      /\ \A x \in Threads \ {t} : at'[x] = at[x] /\ op'[x] = op[x] /\ status'[x] = status[x]
  BY <1>0, <1>1 DEF Start, Goto
<1>3. UNCHANGED <<ServedPairs, KnownUris, arrived, OwedCalls, heard, destroyed>>
  <2>1. UNCHANGED <<inMap, declared, arrived, owed, heard, destroyed>>
    BY <1>1 DEF Start, registry, traffic
  <2>2. {x \in Threads : at'[x] = "regStore"} = {x \in Threads : at[x] = "regStore"}
    BY <1>2
  <2>3. \A x \in Threads : at[x] = "regStore" => op'[x] = op[x]
    BY <1>2
  <2>4. UNCHANGED KnownUris
    BY <2>1, <2>2, <2>3 DEF KnownUris
  <2>5. UNCHANGED <<ServedPairs, OwedCalls>>
    BY <2>1 DEF ServedPairs, OwedCalls
  <2>6. QED
    BY <2>1, <2>4, <2>5
<1>4. Asked[t] = NoCall /\ Asked' = [Asked EXCEPT ![t] = CallOf(t)'] /\ Answered' = [Answered EXCEPT ![t] = "none"]
  <2>1. CallOf(t) = NoCall /\ AnswerOf(t)' = "none"
    BY <1>2 DEF CallOf, AnswerOf, UnregisterPcs
  <2>2. QED
    BY <1>2, <2>1, OneCall DEF Asked
<1>5. CallOf(t)' = <<"register", u, l>> \/ CallOf(t)' = <<"unregister", u, l>>
  BY <1>2 DEF CallOf, UnregisterPcs
<1>6. Atomic!Ask(t, <<"register", u, l>>) \/ Atomic!Ask(t, <<"unregister", u, l>>)
  BY <1>2, <1>3, <1>4, <1>5, AtomicAsk
<1>7. QED
  BY <1>6, AtomicNext DEF Refined

LEMMA GoesOnFrame ==
  ASSUME BaseInv, NEW t \in Threads, GoesOn(t)
  PROVE  /\ \A x \in Threads \ {t} : at'[x] = at[x] /\ op'[x] = op[x] /\ status'[x] = status[x]
         /\ UNCHANGED <<arrived, OwedCalls, heard, destroyed>>
<1>1. UNCHANGED <<arrived, owed, heard, destroyed>> /\ \A x \in Threads \ {t} : status'[x] = status[x]
  BY DEF BaseInv, TypeOK, GoesOn, RegLock, RegDeclare, RegStore, UnregFind, UnregErase, UnregUndeclare, UnregForget,
         Return, traffic
<1>2. UNCHANGED OwedCalls
  BY <1>1 DEF OwedCalls
<1>3. QED
  BY <1>1, <1>2, CallGoesOn

(* A step that moves no other thread and inserts no key leaves what is     *)
(* known alone when the thread neither comes to nor leaves "regStore".     *)
LEMMA KnownSame ==
  ASSUME NEW t \in Threads, \A x \in Threads \ {t} : at'[x] = at[x] /\ op'[x] = op[x],
         at[t] # "regStore", at'[t] # "regStore", inMap' = inMap
  PROVE  UNCHANGED KnownUris
<1>1. {x \in Threads : at'[x] = "regStore"} = {x \in Threads : at[x] = "regStore"}
  OBVIOUS
<1>2. \A x \in Threads : at[x] = "regStore" => op'[x] = op[x]
  OBVIOUS
<1>3. QED
  BY <1>1, <1>2 DEF KnownUris

(* A step between call and effect, or between effect and return.           *)
LEMMA HiddenStep ==
  ASSUME BaseInv, NEW t \in Threads, GoesOn(t),
         CallOf(t)' = CallOf(t), AnswerOf(t)' = AnswerOf(t), UNCHANGED <<ServedPairs, KnownUris>>
  PROVE  Refined
<1>1. UNCHANGED <<Asked, Answered>>
  BY GoesOnFrame, SameCall
<1>2. UNCHANGED Atomic!vars
  BY <1>1, GoesOnFrame, AtomicVars
<1>3. QED
  BY <1>2 DEF Refined

(* A step at which a call takes effect. *)
LEMMA Effect ==
  ASSUME BaseInv, NEW t \in Threads, GoesOn(t), NEW code, CallOf(t)' = NoCall, AnswerOf(t)' = code
  PROVE  Atomic!Answer(t, code) /\ Asked[t] = CallOf(t)
<1>1. Asked' = [Asked EXCEPT ![t] = NoCall] /\ Answered' = [Answered EXCEPT ![t] = code]
  BY GoesOnFrame, OneCall
<1>2. Atomic!Answer(t, code)
  BY <1>1, GoesOnFrame, AtomicAnswer
<1>3. QED
  BY <1>2 DEF Asked

LEMMA PairServed ==
  ASSUME NEW u, NEW l
  PROVE  <<u, l>> \in ServedPairs <=> \E e \in declared : e.uri = u /\ e.listener = l
  BY DEF ServedPairs

LEMMA LockRefined ==
  ASSUME BaseInv, OpenInv, NEW t \in Threads, RegLock(t)
  PROVE  Refined
<1> PICK u0, l0 : u0 = op[t].uri /\ l0 = op[t].listener
  OBVIOUS
<1>0. /\ op[t] \in Calls /\ u0 \in Uris /\ l0 \in Listeners /\ Busy(t) /\ at[t] = "regLock" /\ lock = NoOne
      /\ GoesOn(t) /\ at \in [Threads -> {"idle"} \cup RegisterPcs \cup UnregisterPcs]
      /\ status \in [Threads -> {"none", "OK", "INVALID_ARGUMENT", "INTERNAL"}]
      /\ UNCHANGED <<inMap, declared>>
  BY DEF RegLock, BaseInv, CallInv, TypeOK, Calls, Busy, GoesOn, registry
<1>1. UNCHANGED ServedPairs /\ CallOf(t) = <<"register", u0, l0>>
  BY <1>0 DEF ServedPairs, CallOf
<1>2. Paired(Served(u0), u0, handlesOf[u0], listenersOf[u0])
  BY <1>0, AloneBefore DEF OpenInv, WorkPcs
<1>3. IsSet(u0, l0) <=> <<u0, l0>> \in ServedPairs
  BY <1>0, <1>2, IsSetServed, PairServed DEF OpenInv
<1>4. CASE IsSet(u0, l0) /\ Return(t, "INVALID_ARGUMENT")
  <2>1. at'[t] = "idle" /\ status'[t] = "INVALID_ARGUMENT"
    BY <1>0, <1>4 DEF Return, Goto
  <2>2. CallOf(t)' = NoCall /\ AnswerOf(t)' = "INVALID_ARGUMENT"
    BY <2>1 DEF CallOf, AnswerOf, UnregisterPcs
  <2>3. UNCHANGED KnownUris
    BY <1>0, <2>1, GoesOnFrame, KnownSame
  <2>4. Atomic!Register(t, u0, l0)
    BY <1>0, <1>1, <1>3, <1>4, <2>2, <2>3, Effect, AtomicRegister
  <2>5. QED
    BY <1>0, <2>4, AtomicNext DEF Refined
<1>5. CASE Goto(t, "regDeclare") /\ UNCHANGED <<op, status>>
  <2>1. at'[t] = "regDeclare"
    BY <1>0, <1>5 DEF Goto
  <2>2. CallOf(t)' = CallOf(t) /\ AnswerOf(t)' = AnswerOf(t)
    BY <1>0, <1>5, <2>1 DEF CallOf, AnswerOf
  <2>3. UNCHANGED KnownUris
    BY <1>0, <2>1, GoesOnFrame, KnownSame
  <2>4. QED
    BY <1>0, <1>1, <2>2, <2>3, HiddenStep
<1>6. QED
  BY <1>4, <1>5 DEF RegLock

(* registerListener() takes effect where it declares. *)
LEMMA DeclareRefined ==
  ASSUME BaseInv, OpenInv, NEW t \in Threads, RegDeclare(t)
  PROVE  Refined
<1> PICK u0, l0 : u0 = op[t].uri /\ l0 = op[t].listener
  OBVIOUS
<1>0. /\ op[t] \in Calls /\ u0 \in Uris /\ l0 \in Listeners /\ at[t] = "regDeclare"
      /\ GoesOn(t) /\ at \in [Threads -> {"idle"} \cup RegisterPcs \cup UnregisterPcs]
      /\ op \in [Threads -> {NoCall} \cup Calls]
      /\ status \in [Threads -> {"none", "OK", "INVALID_ARGUMENT", "INTERNAL"}]
      /\ UNCHANGED inMap
  BY DEF RegDeclare, BaseInv, CallInv, TypeOK, Calls, Busy, GoesOn, registry
<1>1. <<u0, l0>> \notin ServedPairs
  BY DeclaredIsNew, PairServed
<1>2. CallOf(t) = <<"register", u0, l0>>
  BY <1>0 DEF CallOf
<1>3. CASE Return(t, "INTERNAL") /\ UNCHANGED declared
  <2>1. at'[t] = "idle" /\ status'[t] = "INTERNAL" /\ UNCHANGED ServedPairs
    BY <1>0, <1>3 DEF Return, Goto, ServedPairs
  <2>2. CallOf(t)' = NoCall /\ AnswerOf(t)' = "INTERNAL"
    BY <2>1 DEF CallOf, AnswerOf, UnregisterPcs
  <2>3. UNCHANGED KnownUris
    BY <1>0, <2>1, GoesOnFrame, KnownSame
  <2>4. Atomic!Register(t, u0, l0)
    BY <1>0, <1>1, <1>2, <2>1, <2>2, <2>3, Effect, AtomicRegister
  <2>5. QED
    BY <1>0, <2>4, AtomicNext DEF Refined
<1>4. CASE /\ declared' = declared \cup {[handle |-> declares', uri |-> u0, listener |-> l0]}
           /\ op' = [op EXCEPT ![t].num = declares'] /\ Goto(t, "regStore")
  <2>1. at'[t] = "regStore" /\ op'[t].uri = u0
    BY <1>0, <1>4 DEF Goto, Calls
  <2>2. CallOf(t)' = NoCall /\ AnswerOf(t)' = "OK"
    BY <2>1 DEF CallOf, AnswerOf, UnregisterPcs
  <2>3. ServedPairs' = ServedPairs \cup {<<u0, l0>>}
    <3>1. PICK new : new.uri = u0 /\ new.listener = l0 /\ declared' = declared \cup {new}
      BY <1>4
    <3>2. QED
      BY <3>1 DEF ServedPairs
  <2>4. KnownUris' = KnownUris \cup {u0}
    <3>1. {x \in Threads : at'[x] = "regStore"} = {x \in Threads : at[x] = "regStore"} \cup {t}
      BY <1>0, <2>1, GoesOnFrame
    <3>2. \A x \in Threads : at[x] = "regStore" => op'[x] = op[x]
      BY <1>0, GoesOnFrame
    <3>3. QED
      BY <1>0, <2>1, <3>1, <3>2 DEF KnownUris
  <2>5. Atomic!Register(t, u0, l0)
    BY <1>0, <1>1, <1>2, <2>2, <2>3, <2>4, Effect, AtomicRegister
  <2>6. QED
    BY <1>0, <2>5, AtomicNext DEF Refined
<1>5. QED
  BY <1>3, <1>4 DEF RegDeclare

LEMMA StoreRefined ==
  ASSUME BaseInv, NEW t \in Threads, RegStore(t)
  PROVE  Refined
<1> PICK u0 : u0 = op[t].uri
  OBVIOUS
<1>0. /\ at[t] = "regStore" /\ GoesOn(t) /\ at \in [Threads -> {"idle"} \cup RegisterPcs \cup UnregisterPcs]
      /\ status \in [Threads -> {"none", "OK", "INVALID_ARGUMENT", "INTERNAL"}]
      /\ Return(t, "OK") /\ inMap' = inMap \cup {u0} /\ UNCHANGED declared
  BY DEF RegStore, BaseInv, TypeOK, GoesOn
<1>1. at'[t] = "idle" /\ status'[t] = "OK" /\ UNCHANGED ServedPairs
  BY <1>0 DEF Return, Goto, ServedPairs
<1>2. CallOf(t)' = CallOf(t) /\ AnswerOf(t)' = AnswerOf(t)
  BY <1>0, <1>1 DEF CallOf, AnswerOf, UnregisterPcs
<1>3. UNCHANGED KnownUris
  <2>1. {x \in Threads : at[x] = "regStore"} = {x \in Threads : at'[x] = "regStore"} \cup {t}
    BY <1>0, <1>1, GoesOnFrame
  <2>2. \A x \in Threads : at'[x] = "regStore" => op'[x] = op[x]
    BY <1>0, <1>1, GoesOnFrame
  <2>3. QED
    BY <1>0, <2>1, <2>2 DEF KnownUris
<1>4. QED
  BY <1>0, <1>1, <1>2, <1>3, HiddenStep

(* unregisterListener() takes effect where it undeclares, or finds nothing. *)
LEMMA FindRefined ==
  ASSUME BaseInv, OpenInv, NEW t \in Threads, UnregFind(t)
  PROVE  Refined
<1> PICK u0, l0 : u0 = op[t].uri /\ l0 = op[t].listener
  OBVIOUS
<1>0. /\ op[t] \in Calls /\ u0 \in Uris /\ l0 \in Listeners /\ Busy(t) /\ at[t] = "unregFind" /\ GoesOn(t)
      /\ at \in [Threads -> {"idle"} \cup RegisterPcs \cup UnregisterPcs]
      /\ status \in [Threads -> {"none", "OK", "INVALID_ARGUMENT", "INTERNAL"}]
      /\ UNCHANGED <<inMap, declared>>
  BY DEF UnregFind, BaseInv, CallInv, TypeOK, Calls, Busy, GoesOn, registry
<1>1. UNCHANGED ServedPairs /\ CallOf(t) = <<"unregister", u0, l0>>
  BY <1>0 DEF ServedPairs, CallOf, UnregisterPcs
<1>2. Paired(Served(u0), u0, handlesOf[u0], listenersOf[u0])
  BY <1>0, AloneBefore DEF OpenInv, WorkPcs, UnregisterPcs
<1>3. IsSet(u0, l0) <=> <<u0, l0>> \in ServedPairs
  BY <1>0, <1>2, IsSetServed, PairServed DEF OpenInv
<1>4. u0 \in KnownUris <=> u0 \in inMap
  <2>1. \A x \in Threads : at[x] = "regStore" => op[x].uri # u0
    BY <1>0, WorksAlone DEF OpenInv, Works, WorkPcs, UnregisterPcs
  <2>2. QED
    BY <2>1 DEF KnownUris
<1>5. CASE ~IsSet(u0, l0) /\ Return(t, IF u0 \in inMap THEN "OK" ELSE "INVALID_ARGUMENT")
  <2>1. at'[t] = "idle" /\ status'[t] = IF u0 \in inMap THEN "OK" ELSE "INVALID_ARGUMENT"
    BY <1>0, <1>5 DEF Return, Goto
  <2> PICK code : code = IF u0 \in KnownUris THEN "OK" ELSE "INVALID_ARGUMENT"
    OBVIOUS
  <2>2. CallOf(t)' = NoCall /\ AnswerOf(t)' = code
    BY <1>4, <2>1 DEF CallOf, AnswerOf, UnregisterPcs
  <2>3. UNCHANGED KnownUris
    BY <1>0, <2>1, GoesOnFrame, KnownSame
  <2>4. ServedPairs' = ServedPairs \ {<<u0, l0>>}
    BY <1>1, <1>3, <1>5
  <2>5. Asked[t] = <<"unregister", u0, l0>>
    BY <1>1 DEF Asked
  <2>6. Atomic!Answer(t, code)
    BY <1>0, <2>2, Effect
  <2>7. Atomic!Unregister(t, u0, l0)
    BY <2>3, <2>4, <2>5, <2>6, AtomicUnregister
  <2>8. QED
    BY <1>0, <2>7, AtomicNext DEF Refined
<1>6. CASE Goto(t, "unregErase") /\ UNCHANGED status
  <2>1. at'[t] = "unregErase" /\ op'[t].uri = u0 /\ op'[t].listener = l0
    BY <1>0, <1>6, CallGoesOn DEF Goto, Busy
  <2>2. CallOf(t)' = CallOf(t) /\ AnswerOf(t)' = AnswerOf(t)
    BY <1>0, <1>1, <1>6, <2>1 DEF CallOf, AnswerOf, UnregisterPcs
  <2>3. UNCHANGED KnownUris
    BY <1>0, <2>1, GoesOnFrame, KnownSame
  <2>4. QED
    BY <1>0, <1>1, <2>2, <2>3, HiddenStep
<1>7. QED
  BY <1>5, <1>6 DEF UnregFind

LEMMA QuietRefined ==
  ASSUME BaseInv, NEW t \in Threads, UnregErase(t) \/ UnregForget(t)
  PROVE  Refined
<1>0. /\ GoesOn(t) /\ at \in [Threads -> {"idle"} \cup RegisterPcs \cup UnregisterPcs]
      /\ status \in [Threads -> {"none", "OK", "INVALID_ARGUMENT", "INTERNAL"}]
      /\ UNCHANGED <<inMap, declared>>
  BY DEF UnregErase, UnregForget, BaseInv, TypeOK, GoesOn
<1>1. UNCHANGED ServedPairs
  BY <1>0 DEF ServedPairs
<1>2. CASE UnregErase(t)
  <2>1. at[t] = "unregErase" /\ at'[t] = "unregUndeclare" /\ UNCHANGED <<op, status>>
    BY <1>0, <1>2 DEF UnregErase, Goto
  <2>2. CallOf(t)' = CallOf(t) /\ AnswerOf(t)' = AnswerOf(t) /\ UNCHANGED KnownUris
    BY <1>0, <2>1, GoesOnFrame, KnownSame DEF CallOf, AnswerOf, UnregisterPcs
  <2>3. QED
    BY <1>0, <1>1, <2>2, HiddenStep
<1>3. CASE UnregForget(t)
  <2>1. at[t] = "unregForget" /\ at'[t] = "idle" /\ status'[t] = "OK"
    BY <1>0, <1>3 DEF UnregForget, Return, Goto
  <2>2. CallOf(t)' = CallOf(t) /\ AnswerOf(t)' = AnswerOf(t) /\ UNCHANGED KnownUris
    BY <1>0, <2>1, GoesOnFrame, KnownSame DEF CallOf, AnswerOf, UnregisterPcs
  <2>3. QED
    BY <1>0, <1>1, <2>2, HiddenStep
<1>4. QED
  BY <1>2, <1>3

LEMMA UndeclareRefined ==
  ASSUME BaseInv, OpenInv, NEW t \in Threads, UnregUndeclare(t)
  PROVE  Refined
<1> PICK u0, l0 : u0 = op[t].uri /\ l0 = op[t].listener
  OBVIOUS
<1> PICK n0 : n0 = op[t].num
  OBVIOUS
<1> DEFINE H0 == handlesOf[u0]
<1>0. /\ op[t] \in Calls /\ u0 \in Uris /\ l0 \in Listeners /\ Busy(t) /\ at[t] = "unregUndeclare" /\ GoesOn(t)
      /\ at \in [Threads -> {"idle"} \cup RegisterPcs \cup UnregisterPcs]
      /\ at'[t] = "unregForget" /\ u0 \in inMap /\ UNCHANGED inMap
  BY DEF UnregUndeclare, Goto, BaseInv, OpenInv, MapInv, CallInv, TypeOK, Calls, Busy, GoesOn, registry
<1>1. PICK K \in Seq(Listeners) : Paired(Served(u0), u0, H0, K) /\ n0 \in DOMAIN K /\ K[n0] = l0
  BY <1>0, AloneBefore DEF OpenInv, WorkPcs, UnregisterPcs, Claim
<1>2. n0 \in DOMAIN H0
  BY <1>1, LenProperties DEF Paired
<1>3. declared' = {e \in declared : e.handle # H0[n0]}
  <2>1. HandleAt(t) = {H0[n0]}
    BY <1>2 DEF HandleAt
  <2>2. QED
    BY <2>1 DEF UnregUndeclare, Undeclare
<1>4. \A e \in declared : e.handle = H0[n0] <=> e.uri = u0 /\ e.listener = l0
  <2>1. [handle |-> H0[n0], uri |-> u0, listener |-> l0] \in declared
    BY <1>1, <1>2 DEF Paired, Pairs, Served
  <2>2. QED
    BY <2>1 DEF OpenInv, OnceInv
<1>5. ServedPairs' = ServedPairs \ {<<u0, l0>>}
  BY <1>3, <1>4 DEF ServedPairs
<1>6. CallOf(t)' = NoCall /\ AnswerOf(t)' = "OK" /\ Asked[t] = <<"unregister", u0, l0>>
  BY <1>0 DEF CallOf, AnswerOf, Asked, UnregisterPcs
<1>7. UNCHANGED KnownUris /\ u0 \in KnownUris
  <2>1. UNCHANGED KnownUris
    BY <1>0, GoesOnFrame, KnownSame
  <2>2. QED
    BY <1>0, <2>1 DEF KnownUris
<1>8. Atomic!Answer(t, "OK")
  BY <1>0, <1>6, Effect
<1>9. Atomic!Unregister(t, u0, l0)
  BY <1>5, <1>6, <1>7, <1>8, AtomicUnregister
<1>10. QED
  BY <1>0, <1>9, AtomicNext DEF Refined

LEMMA ArriveRefined ==
  ASSUME BaseInv, NEW m \in Messages, NEW u \in Uris, Arrive(m, u)
  PROVE  Refined
<1>1. /\ m \notin arrived /\ arrived' = arrived \cup {m}
      /\ owed' = owed \cup {<<m, e>> : e \in {d \in declared : d.uri = u}}
      /\ UNCHANGED <<inMap, at, op, status, declared, heard, destroyed>>
  BY DEF Arrive, registry, calls
<1>2. UNCHANGED <<ServedPairs, KnownUris, Asked, Answered>>
  BY <1>1 DEF ServedPairs, KnownUris, Asked, Answered, CallOf, AnswerOf
<1>3. OwedCalls' = OwedCalls \cup {<<m, p[1], p[2]>> : p \in {q \in ServedPairs : q[1] = u}}
  <2> DEFINE new == {<<m, p[1], p[2]>> : p \in {q \in ServedPairs : q[1] = u}}
  <2>1. ASSUME NEW c \in OwedCalls' PROVE c \in OwedCalls \cup new
    <3>1. PICK o \in owed' : c = <<o[1], o[2].uri, o[2].listener>>
      BY <2>1 DEF OwedCalls
    <3>2. CASE o \in owed
      BY <3>1, <3>2 DEF OwedCalls
    <3>3. CASE o \notin owed
      <4>1. PICK e \in declared : e.uri = u /\ o = <<m, e>>
        BY <1>1, <3>3
      <4>2. <<u, e.listener>> \in ServedPairs /\ c = <<m, u, e.listener>>
        BY <3>1, <4>1 DEF ServedPairs
      <4>3. QED
        BY <4>2
    <3>4. QED
      BY <3>2, <3>3
  <2>2. ASSUME NEW c \in OwedCalls PROVE c \in OwedCalls'
    BY <1>1, <2>2 DEF OwedCalls
  <2>3. ASSUME NEW c \in new PROVE c \in OwedCalls'
    <3>1. PICK p \in ServedPairs : p[1] = u /\ c = <<m, p[1], p[2]>>
      BY <2>3
    <3>2. PICK e \in declared : p = <<e.uri, e.listener>>
      BY <3>1 DEF ServedPairs
    <3>3. <<m, e>> \in owed' /\ c = <<m, e.uri, e.listener>>
      BY <1>1, <3>1, <3>2
    <3>4. QED
      BY <3>3 DEF OwedCalls
  <2> HIDE DEF new
  <2>4. OwedCalls' = OwedCalls \cup new
    BY <2>1, <2>2, <2>3
  <2>5. QED
    BY <2>4 DEF new
<1>4. Atomic!Arrive(m, u)
  BY <1>1, <1>2, <1>3, AtomicArrive
<1>5. QED
  BY <1>4, AtomicNext DEF Refined

LEMMA HandleRefined ==
  ASSUME BaseInv, OwedInv, NEW o \in owed, Handle(o[1], o[2])
  PROVE  Refined
<1> PICK call : call = <<o[1], o[2].uri, o[2].listener>>
  OBVIOUS
<1>0. o = <<o[1], o[2]>>
  BY DEF BaseInv, TypeOK
<1>1. /\ owed' = owed \ {o} /\ heard' \in {heard, heard \cup {call}}
      /\ UNCHANGED <<inMap, at, op, status, declared, arrived, destroyed>>
  BY <1>0 DEF Handle, registry, calls
<1>2. UNCHANGED <<ServedPairs, KnownUris, Asked, Answered>>
  BY <1>1 DEF ServedPairs, KnownUris, Asked, Answered, CallOf, AnswerOf
<1>3. call \in OwedCalls
  BY DEF OwedCalls
<1>4. OwedCalls' = OwedCalls \ {call}
  <2>1. \A p \in owed : <<p[1], p[2].uri, p[2].listener>> = call <=> p = o
    BY DEF OwedInv
  <2>2. QED
    BY <1>1, <2>1 DEF OwedCalls
<1>5. \E c \in OwedCalls : Atomic!Deliver(c)
  BY <1>1, <1>2, <1>3, <1>4, AtomicDeliver
<1>6. QED
  BY <1>5, AtomicNext DEF Refined

LEMMA DestroyRefined ==
  ASSUME Destroy
  PROVE  Refined
<1>1. /\ \A t \in Threads : at[t] = "idle"
      /\ destroyed' = TRUE /\ inMap' = {} /\ declared' \subseteq declared
      /\ UNCHANGED <<at, op, status, arrived, owed, heard>>
  BY DEF Destroy, Undeclare, calls, traffic
<1>2. UNCHANGED <<Asked, Answered, OwedCalls>> /\ ServedPairs' \in SUBSET ServedPairs
  BY <1>1 DEF Asked, Answered, OwedCalls, CallOf, AnswerOf, ServedPairs
<1>3. KnownUris' = {}
  BY <1>1 DEF KnownUris
<1>4. Atomic!Leave
  BY <1>1, <1>2, <1>3, AtomicLeave
<1>5. QED
  BY <1>4, AtomicNext DEF Refined

LEMMA StepRefined ==
  ASSUME BaseInv, MatchInv, OwedInv, [Next]_vars
  PROVE  Refined
<1>1. ASSUME UNCHANGED <<inMap, at, op, status, declared, arrived, owed, heard, destroyed>> PROVE Refined
  <2>1. UNCHANGED <<ServedPairs, KnownUris, Asked, Answered, arrived, OwedCalls, heard, destroyed>>
    BY <1>1 DEF ServedPairs, KnownUris, Asked, Answered, CallOf, AnswerOf, OwedCalls
  <2>2. QED
    BY <2>1, AtomicVars DEF Refined
<1>2. CASE UNCHANGED vars
  BY <1>1, <1>2 DEF vars, registry, calls, traffic
<1>3. ASSUME NEW t \in Threads, GoesOn(t) PROVE Refined
  <2>1. OpenInv
    BY <1>3, CallGoesOn DEF MatchInv, AfterInv, OpenInv
  <2>2. QED
    BY <1>3, <2>1, LockRefined, DeclareRefined, StoreRefined, FindRefined, QuietRefined, UndeclareRefined DEF GoesOn
<1>4. QED
  BY <1>2, <1>3, NextCases, StartRefined, ArriveRefined, HandleRefined, DestroyRefined DEF GoesOn

LEMMA InitRefined == Init => Atomic!Init /\ OwedInv
  BY DEF Init, Atomic!Init, Atomic!NoCall, NoCall, OwedInv, UnregisterPcs

(* When calls do not race they are linearizable: the registry implements   *)
(* AtomicRegistry.                                                         *)
THEOREM Linearizes ==
  ASSUME ~RacesAllowed
  PROVE  Spec => Linearizable
<1>1. BaseInv /\ MatchInv /\ OwedInv /\ [Next]_vars => OwedInv'
  BY OwedStep DEF BaseInv, MatchInv
<1>2. BaseInv /\ MatchInv /\ OwedInv /\ [Next]_vars => [Atomic!Next]_(Atomic!vars)
  BY StepRefined DEF Refined
<1>3. QED
  BY <1>1, <1>2, InitRefined, MatchInductive, PTL DEF Spec, Linearizable, Atomic!Spec
=============================================================================
