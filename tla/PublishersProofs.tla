-------------------------- MODULE PublishersProofs --------------------------
(***************************************************************************)
(* Proofs about Publishers, for every finite set of threads, every set of  *)
(* URIs and every bound on declarations.                                   *)
(***************************************************************************)
EXTENDS Publishers, FiniteSetTheorems, TLAPS

(* Every call that may still declare has a number left for its handle. *)
RoomInv == declares + Cardinality(Undecided) <= MaxDeclares

(* Once the destructor runs no thread is in a call. *)
GoneInv == destroyed => \A t \in Threads : at[t] = "idle"

(* The map names declared publishers, each under its own URI, and handles  *)
(* are given out once.                                                     *)
HandleInv ==
  /\ \A u \in Uris : pubHandleMap[u] # NoHandle => <<pubHandleMap[u], u>> \in declared
  /\ \A d \in declared : d[1] <= declares /\ \A e \in declared : e[1] = d[1] => e = d

(* Without a lost race a thread that goes on to declare is alone with its  *)
(* URI, which has no publisher in the map yet.                             *)
AloneInv ==
  ~bothMissed /\ ~torn =>
    /\ \A t \in Threads : at[t] \in {"lock", "store"} => pubHandleMap[uri[t]] = NoHandle
    /\ ~BothMissing

(* Who may still declare for a URI: each of them, and each publisher it    *)
(* has, stands for one thread.                                             *)
Lockers(u) == {t \in Threads : at[t] = "lock" /\ uri[t] = u}

ShareInv ==
  ~torn => \A u \in Uris :
    /\ Cardinality(Of(u)) + Cardinality(Lockers(u)) <= Cardinality(Threads)
    /\ ~destroyed /\ pubHandleMap[u] = NoHandle =>
         \A d \in Of(u) : \E t \in Threads : at[t] = "store" /\ uri[t] = u /\ pub[t] = d[1]

IInv ==
  TypeOK /\ RoomInv /\ GoneInv /\ HandleInv /\ PutDeclared /\ AloneInv /\ NoPublisherLost /\ ShareInv

-----------------------------------------------------------------------------
(* Every step is one of the seven actions or stutters. *)
LEMMA NextCases ==
  ASSUME [Next]_vars
  PROVE  \/ \E t \in Threads :
              \/ \E u \in Uris : MayDeclare /\ Send(t, u)
              \/ Find(t) \/ Declare(t) \/ Store(t) \/ Put(t)
         \/ Destroy
         \/ UNCHANGED <<pubHandleMap, calls, zenoh, destroyed>>
  BY DEF Next, Step, Resting, vars

(* The history variables only ever become TRUE. *)
LEMMA HistoryStep ==
  ASSUME TypeOK, [Next]_vars
  PROVE  /\ bothMissed' \in BOOLEAN /\ torn' \in BOOLEAN
         /\ bothMissed => bothMissed'
         /\ torn => torn'
  BY DEF TypeOK, Next, vars

LEMMA FiniteThreads ==
  ASSUME NEW S \in SUBSET Threads
  PROVE  IsFiniteSet(S) /\ Cardinality(S) \in Nat
  BY ThreadsFinite, FS_Subset, FS_CardinalityType

(* A call declares only while a number is left. *)
LEMMA RoomStep ==
  ASSUME TypeOK, RoomInv, [Next]_vars
  PROVE  RoomInv'
<1> USE MaxDeclaresNat DEF TypeOK, RoomInv, Goto, Return
<1>0. /\ IsFiniteSet(Undecided) /\ Cardinality(Undecided) \in Nat
      /\ IsFiniteSet(Undecided') /\ Cardinality(Undecided') \in Nat
  BY FiniteThreads DEF Undecided
<1>1. ASSUME NEW t \in Threads, NEW u \in Uris, MayDeclare, Send(t, u) PROVE RoomInv'
  <2>1. CASE at' = [at EXCEPT ![t] = "find"]
    <3>1. Undecided' = Undecided \cup {t}
      BY <2>1 DEF Undecided
    <3>2. Cardinality(Undecided') <= Cardinality(Undecided) + 1
      BY <1>0, <3>1, FS_AddElement
    <3>3. QED
      BY <1>0, <1>1, <3>2 DEF Send, MayDeclare, zenoh
  <2>2. CASE at' = at
    BY <1>1, <2>2 DEF Send, Undecided, zenoh
  <2>3. QED
    BY <1>1, <2>1, <2>2 DEF Send
<1>2. ASSUME NEW t \in Threads, Find(t) PROVE RoomInv'
  <2>1. Undecided' \subseteq Undecided
    BY <1>2 DEF Find, Undecided
  <2>2. Cardinality(Undecided') <= Cardinality(Undecided)
    BY <1>0, <2>1, FS_Subset
  <2>3. QED
    BY <1>0, <1>2, <2>2 DEF Find, zenoh
<1>3. ASSUME NEW t \in Threads, Declare(t) PROVE RoomInv'
  <2>1. Undecided' = Undecided \ {t} /\ t \in Undecided
    BY <1>3 DEF Declare, Refused, Undecided
  <2>2. Cardinality(Undecided') = Cardinality(Undecided) - 1
    BY <1>0, <2>1, FS_RemoveElement
  <2>3. QED
    BY <1>0, <1>3, <2>2 DEF Declare
<1>4. ASSUME NEW t \in Threads, Store(t) \/ Put(t) PROVE RoomInv'
  <2>1. Undecided' = Undecided
    BY <1>4 DEF Store, Put, Undecided
  <2>2. QED
    BY <1>4, <2>1 DEF Store, Put, zenoh
<1>5. CASE Destroy
  BY <1>5 DEF Destroy, calls, Undecided
<1>6. CASE UNCHANGED <<pubHandleMap, calls, zenoh, destroyed>>
  BY <1>6 DEF calls, zenoh, Undecided
<1>7. QED
  BY <1>1, <1>2, <1>3, <1>4, <1>5, <1>6, NextCases

(* Types, and pubInitMutex_ being held exactly between declaring and       *)
(* storing.                                                                *)
LEMMA TypeOKStep ==
  ASSUME TypeOK, RoomInv, [Next]_vars
  PROVE  TypeOK'
<1> USE NoOneApart, MaxDeclaresNat DEF TypeOK, Handles, NoHandle, Goto, Return, Pcs
<1>h. bothMissed' \in BOOLEAN /\ torn' \in BOOLEAN
  BY HistoryStep
<1>1. ASSUME NEW t \in Threads, NEW u \in Uris, MayDeclare, Send(t, u) PROVE TypeOK'
  BY <1>1, <1>h DEF Send, zenoh
<1>2. ASSUME NEW t \in Threads, Find(t) PROVE TypeOK'
  BY <1>2, <1>h DEF Find, zenoh
<1>3. ASSUME NEW t \in Threads, Declare(t) PROVE TypeOK'
  <2>1. t \in Undecided
    BY <1>3 DEF Declare, Undecided
  <2>2. Cardinality(Undecided) # 0 /\ Cardinality(Undecided) \in Nat
    BY <2>1, FiniteThreads, FS_EmptySet DEF Undecided
  <2>3. declares' \in 1..MaxDeclares
    BY <1>3, <2>2 DEF Declare, RoomInv
  <2>4. QED
    BY <1>3, <2>3, <1>h DEF Declare, Refused, Holds
<1>4. ASSUME NEW t \in Threads, Store(t) PROVE TypeOK'
  BY <1>4, <1>h DEF Store, MapWith, zenoh
<1>5. ASSUME NEW t \in Threads, Put(t) PROVE TypeOK'
  BY <1>5, <1>h DEF Put, zenoh
<1>6. CASE Destroy
  BY <1>6, <1>h DEF Destroy, calls
<1>7. CASE UNCHANGED <<pubHandleMap, calls, zenoh, destroyed>>
  BY <1>7, <1>h DEF calls, zenoh
<1>8. QED
  BY <1>1, <1>2, <1>3, <1>4, <1>5, <1>6, <1>7, NextCases

(* The map and the calls only ever name declared publishers: the           *)
(* destructor, which undeclares, runs when no call is under way.           *)
LEMMA HandleStep ==
  ASSUME TypeOK, TypeOK', GoneInv, HandleInv, PutDeclared, [Next]_vars
  PROVE  GoneInv' /\ HandleInv' /\ PutDeclared'
<1> DEFINE Goal == GoneInv' /\ HandleInv' /\ PutDeclared'
<1> USE DEF TypeOK, Handles, NoHandle, Goto, Return, GoneInv, HandleInv, PutDeclared
<1>1. ASSUME NEW t \in Threads, NEW u \in Uris, MayDeclare, Send(t, u) PROVE Goal
  BY <1>1 DEF Send, zenoh
<1>2. ASSUME NEW t \in Threads, Find(t) PROVE Goal
  BY <1>2 DEF Find, zenoh
<1>3. ASSUME NEW t \in Threads, Declare(t) PROVE Goal
  BY <1>3 DEF Declare, Refused
<1>4. ASSUME NEW t \in Threads, Store(t) PROVE Goal
  BY <1>4 DEF Store, MapWith, zenoh
<1>5. ASSUME NEW t \in Threads, Put(t) PROVE Goal
  BY <1>5 DEF Put, zenoh
<1>6. CASE Destroy
  BY <1>6 DEF Destroy, calls
<1>7. CASE UNCHANGED <<pubHandleMap, calls, zenoh, destroyed>>
  BY <1>7 DEF calls, zenoh
<1>8. QED
  BY <1>1, <1>2, <1>3, <1>4, <1>5, <1>6, <1>7, NextCases

(* What a step that leaves the history variables FALSE did not do. *)
LEMMA HistoryKept ==
  ASSUME TypeOK, [Next]_vars
  PROVE  /\ ~torn' => ~torn /\ \A t \in Threads : Find(t) => ~Inserting
         /\ ~bothMissed' => ~bothMissed /\ (~BothMissing' \/ UNCHANGED vars)
<1>1. \A t \in Threads : Find(t) => at[t] = "find" /\ at'[t] # "find"
  BY DEF Find, TypeOK, Goto
<1>2. CASE Next
  BY <1>1, <1>2 DEF Next, TypeOK
<1>3. CASE UNCHANGED vars
  BY <1>1, <1>3 DEF vars, calls
<1>4. QED
  BY <1>2, <1>3

(* A thread that has missed its URI stays the only one that stores it. *)
LEMMA AloneStep ==
  ASSUME TypeOK, TypeOK', AloneInv, [Next]_vars
  PROVE  AloneInv'
<1> SUFFICES ASSUME ~bothMissed', ~torn'
             PROVE  /\ \A x \in Threads : at'[x] \in {"lock", "store"} => pubHandleMap'[uri'[x]] = NoHandle
                    /\ ~BothMissing'
  BY DEF AloneInv
<1> DEFINE Goal == \A x \in Threads : at'[x] \in {"lock", "store"} => pubHandleMap'[uri'[x]] = NoHandle
<1>0. ~BothMissing /\ ~BothMissing' /\ \A t \in Threads : Find(t) => ~Inserting
  BY HistoryKept DEF AloneInv, BothMissing, vars, calls
<1>a. \A x \in Threads : at[x] \in {"lock", "store"} => pubHandleMap[uri[x]] = NoHandle
  BY HistoryKept DEF AloneInv
<1> USE DEF TypeOK, Handles, NoHandle, Goto, Return
<1>1. ASSUME NEW t \in Threads, NEW u \in Uris, MayDeclare, Send(t, u) PROVE Goal
  BY <1>1, <1>a DEF Send, zenoh
<1>2. ASSUME NEW t \in Threads, Find(t) PROVE Goal
  BY <1>2, <1>0, <1>a DEF Find, zenoh
<1>3. ASSUME NEW t \in Threads, Declare(t) PROVE Goal
  BY <1>3, <1>a DEF Declare, Refused, Holds
<1>4. ASSUME NEW t \in Threads, Store(t) PROVE Goal
  <2>1. \A x \in Threads : x # t /\ at[x] \in {"lock", "store"} => uri[x] # uri[t]
    BY <1>4, <1>0 DEF Store, BothMissing
  <2>2. QED
    BY <1>4, <1>a, <2>1 DEF Store, MapWith, zenoh
<1>5. ASSUME NEW t \in Threads, Put(t) PROVE Goal
  BY <1>5, <1>a DEF Put, zenoh
<1>6. ASSUME Destroy PROVE Goal
  BY <1>6 DEF Destroy, calls
<1>7. ASSUME UNCHANGED <<pubHandleMap, calls, zenoh, destroyed>> PROVE Goal
  BY <1>7, <1>a DEF calls, zenoh
<1>8. QED
  BY <1>0, <1>1, <1>2, <1>3, <1>4, <1>5, <1>6, <1>7, NextCases

(* A publisher is stored before anybody else can store one for its URI,    *)
(* and the destructor finds every one of them in the map.                  *)
LEMMA LostStep ==
  ASSUME TypeOK, TypeOK', GoneInv, HandleInv, PutDeclared, AloneInv, NoPublisherLost, [Next]_vars
  PROVE  NoPublisherLost'
<1> DEFINE Kept(d) == pubHandleMap[d[2]] = d[1] \/ \E t \in Threads : at[t] = "store" /\ pub[t] = d[1]
<1> SUFFICES ASSUME ~bothMissed', ~torn', NEW d \in declared' PROVE Kept(d)'
  BY DEF NoPublisherLost
<1>0. /\ \A e \in declared : Kept(e)
      /\ \A x \in Threads : at[x] \in {"lock", "store"} => pubHandleMap[uri[x]] = NoHandle
  BY HistoryKept DEF NoPublisherLost, AloneInv
<1> USE DEF TypeOK, Handles, NoHandle, Goto, Return
<1>1. ASSUME NEW t \in Threads, NEW u \in Uris, MayDeclare, Send(t, u) PROVE Kept(d)'
  BY <1>1, <1>0 DEF Send, zenoh
<1>2. ASSUME NEW t \in Threads, Find(t) PROVE Kept(d)'
  BY <1>2, <1>0 DEF Find, zenoh
<1>3. ASSUME NEW t \in Threads, Declare(t) PROVE Kept(d)'
  <2>1. CASE d \in declared
    BY <1>3, <1>0, <2>1 DEF Declare, Refused, Holds
  <2>2. CASE d \notin declared
    BY <1>3, <2>2 DEF Declare, Refused, Holds
  <2>3. QED
    BY <2>1, <2>2
<1>4. ASSUME NEW t \in Threads, Store(t) PROVE Kept(d)'
  <2>1. d \in declared /\ d[2] \in Uris /\ d[1] # NoHandle
    BY <1>4 DEF Store, zenoh
  <2>2. CASE pubHandleMap[d[2]] = d[1]
    BY <1>4, <1>0, <2>1, <2>2 DEF Store, MapWith
  <2>3. CASE pub[t] = d[1]
    <3>1. <<pub[t], uri[t]>> \in declared
      BY <1>4 DEF Store, PutDeclared
    <3>2. d = <<pub[t], uri[t]>>
      BY <2>1, <2>3, <3>1 DEF HandleInv
    <3>3. QED
      BY <1>4, <3>2 DEF Store, MapWith
  <2>4. \A x \in Threads : at[x] = "store" => x = t
    BY <1>4 DEF Store
  <2>5. QED
    BY <1>0, <2>1, <2>2, <2>3, <2>4
<1>5. ASSUME NEW t \in Threads, Put(t) PROVE Kept(d)'
  BY <1>5, <1>0 DEF Put, zenoh
<1>6. CASE Destroy
  <2>1. d \in declared /\ d[2] \in Uris /\ d[1] \notin InMap
    BY <1>6 DEF Destroy
  <2>2. pubHandleMap[d[2]] = d[1]
    BY <1>0, <1>6, <2>1 DEF Destroy
  <2>3. QED
    BY <2>1, <2>2 DEF InMap
<1>7. CASE UNCHANGED <<pubHandleMap, calls, zenoh, destroyed>>
  BY <1>7, <1>0 DEF calls, zenoh
<1>8. QED
  BY <1>1, <1>2, <1>3, <1>4, <1>5, <1>6, <1>7, NextCases

-----------------------------------------------------------------------------
(* How many publishers a URI may get *)

LEMMA FiniteOf ==
  ASSUME TypeOK, NEW u
  PROVE  IsFiniteSet(Of(u)) /\ Cardinality(Of(u)) \in Nat
<1>1. IsFiniteSet(Handles)
  BY FS_Interval, MaxDeclaresNat DEF Handles
<1>2. IsFiniteSet(Handles \X {u})
  BY <1>1, FS_Singleton, FS_Product
<1>3. Of(u) \subseteq Handles \X {u}
  BY DEF Of, TypeOK
<1>4. QED
  BY <1>2, <1>3, FS_Subset, FS_CardinalityType

(* A thread that misses a URI in the map adds itself to those who may      *)
(* declare for it; the URI has at most the publisher of one other thread.  *)
LEMMA MissFits ==
  ASSUME TypeOK, ~destroyed, NEW u \in Uris, NEW L \in SUBSET Threads,
         \A x \in L : at[x] # "store",
         \A d \in Of(u) : \E t \in Threads : at[t] = "store" /\ pub[t] = d[1]
  PROVE  Cardinality(Of(u)) + Cardinality(L) <= Cardinality(Threads)
<1>1. IsFiniteSet(L) /\ Cardinality(L) <= Cardinality(Threads) /\ Cardinality(L) \in Nat
  BY ThreadsFinite, FS_Subset, FiniteThreads
<1>2. CASE Of(u) = {}
  BY <1>1, <1>2, FS_EmptySet, FiniteThreads
<1>3. CASE Of(u) # {}
  <2>1. PICK d \in Of(u) : TRUE
    BY <1>3
  <2>2. PICK s \in Threads : at[s] = "store" /\ pub[s] = d[1]
    BY <2>1
  <2>3. \A e \in Of(u) : e = <<pub[s], u>>
    BY <2>2 DEF TypeOK, Of
  <2>4. Of(u) = {<<pub[s], u>>}
    BY <1>3, <2>3
  <2>5. Cardinality(Of(u)) = 1
    BY <2>4, FS_Singleton
  <2>6. s \notin L /\ L \cup {s} \in SUBSET Threads
    BY <2>2
  <2>7. Cardinality(L \cup {s}) = Cardinality(L) + 1
    BY <1>1, <2>6, FS_AddElement
  <2>8. Cardinality(L \cup {s}) <= Cardinality(Threads)
    BY <2>6, ThreadsFinite, FS_Subset
  <2>9. QED
    BY <1>1, <2>5, <2>7, <2>8, FiniteThreads
<1>4. QED
  BY <1>2, <1>3

(* Declaring takes a thread from those who may declare and adds at most    *)
(* one publisher.                                                          *)
LEMMA ShareStep ==
  ASSUME TypeOK, TypeOK', GoneInv, HandleInv, PutDeclared, ShareInv, [Next]_vars
  PROVE  ShareInv'
<1> DEFINE Sum(u)    == Cardinality(Of(u)) + Cardinality(Lockers(u)) <= Cardinality(Threads)
           Storer(u) == ~destroyed /\ pubHandleMap[u] = NoHandle =>
             \A d \in Of(u) : \E t \in Threads : at[t] = "store" /\ uri[t] = u /\ pub[t] = d[1]
<1> SUFFICES ASSUME ~torn', NEW u \in Uris PROVE Sum(u)' /\ Storer(u)'
  BY DEF ShareInv
<1>0. Sum(u) /\ Storer(u) /\ \A t \in Threads : Find(t) => ~Inserting
  BY HistoryKept DEF ShareInv
<1>f. /\ IsFiniteSet(Of(u)) /\ Cardinality(Of(u)) \in Nat
      /\ IsFiniteSet(Lockers(u)) /\ Cardinality(Lockers(u)) \in Nat
      /\ Cardinality(Threads) \in Nat
  BY FiniteOf, FiniteThreads DEF Lockers
<1> USE DEF TypeOK, Handles, NoHandle, Goto, Return
<1>1. ASSUME NEW t \in Threads, NEW v \in Uris, MayDeclare, Send(t, v) PROVE Sum(u)' /\ Storer(u)'
  <2>1. Of(u)' = Of(u) /\ Lockers(u)' = Lockers(u)
    BY <1>1 DEF Send, zenoh, Of, Lockers
  <2>2. Storer(u)'
    BY <1>0, <1>1, <2>1 DEF Send
  <2>3. QED
    BY <1>0, <2>1, <2>2
<1>2. ASSUME NEW t \in Threads, Find(t) PROVE Sum(u)' /\ Storer(u)'
  <2>1. Of(u)' = Of(u)
    BY <1>2 DEF Find, zenoh, Of
  <2>2. Storer(u)'
    BY <1>0, <1>2, <2>1 DEF Find
  <2>3. CASE uri[t] = u /\ at'[t] = "lock"
    <3>1. pubHandleMap[u] = NoHandle /\ ~destroyed
      BY <1>0, <1>2, <2>3 DEF Find, GoneInv
    <3>2. Lockers(u)' \in SUBSET Threads /\ \A x \in Lockers(u)' : at[x] # "store"
      BY <1>2 DEF Find, Lockers
    <3>3. \A d \in Of(u) : \E s \in Threads : at[s] = "store" /\ pub[s] = d[1]
      BY <1>0, <3>1
    <3>4. Cardinality(Of(u)) + Cardinality(Lockers(u)') <= Cardinality(Threads)
      BY <3>1, <3>2, <3>3, MissFits
    <3>5. QED
      BY <2>1, <2>2, <3>4
  <2>4. CASE ~(uri[t] = u /\ at'[t] = "lock")
    <3>1. Lockers(u)' = Lockers(u)
      BY <1>2, <2>4 DEF Find, Lockers
    <3>2. QED
      BY <1>0, <2>1, <2>2, <3>1
  <2>5. QED
    BY <2>3, <2>4
<1>3. ASSUME NEW t \in Threads, Declare(t) PROVE Sum(u)' /\ Storer(u)'
  <2>0. \A s \in Threads : at[s] # "store"
    BY <1>3, NoOneApart DEF Declare
  <2>1. CASE uri[t] # u
    <3>1. Of(u)' = Of(u) /\ Lockers(u)' = Lockers(u)
      BY <1>3, <2>1 DEF Declare, Refused, Holds, Of, Lockers
    <3>2. Storer(u)'
      BY <1>0, <1>3, <2>0, <3>1 DEF Declare
    <3>3. QED
      BY <1>0, <3>1, <3>2
  <2>2. CASE uri[t] = u
    <3>1. t \in Lockers(u) /\ Lockers(u)' = Lockers(u) \ {t}
      BY <1>3, <2>2 DEF Declare, Refused, Holds, Lockers
    <3>2. Cardinality(Lockers(u)') = Cardinality(Lockers(u)) - 1
      BY <1>f, <3>1, FS_RemoveElement
    <3>3. Of(u)' = Of(u) \/ (Of(u)' = Of(u) \cup {<<declares', u>>} /\ pub'[t] = declares' /\ at'[t] = "store")
      BY <1>3, <2>2 DEF Declare, Refused, Holds, Of
    <3>4. Cardinality(Of(u)') <= Cardinality(Of(u)) + 1 /\ Cardinality(Of(u)') \in Nat
      <4>1. CASE Of(u)' = Of(u)
        BY <1>f, <4>1
      <4>2. CASE Of(u)' = Of(u) \cup {<<declares', u>>}
        <5> DEFINE New == Of(u) \cup {<<declares', u>>}
        <5>1. Cardinality(New) \in {Cardinality(Of(u)), Cardinality(Of(u)) + 1}
          BY <1>f, FS_AddElement
        <5>2. QED
          BY <1>f, <4>2, <5>1
      <4>3. QED
        BY <3>3, <4>1, <4>2
    <3>5. Storer(u)'
      <4>1. SUFFICES ASSUME ~destroyed', pubHandleMap'[u] = NoHandle, NEW d \in Of(u)'
                     PROVE  \E s \in Threads : at'[s] = "store" /\ uri'[s] = u /\ pub'[s] = d[1]
        OBVIOUS
      <4>2. Of(u) = {}
        BY <1>0, <1>3, <2>0, <4>1 DEF Declare
      <4>3. d = <<declares', u>> /\ pub'[t] = declares' /\ at'[t] = "store"
        BY <3>3, <4>1, <4>2
      <4>4. QED
        BY <1>3, <2>2, <4>3 DEF Declare
    <3>6. QED
      BY <1>0, <1>f, <3>2, <3>4, <3>5
  <2>3. QED
    BY <2>1, <2>2
<1>4. ASSUME NEW t \in Threads, Store(t) PROVE Sum(u)' /\ Storer(u)'
  <2>1. Of(u)' = Of(u) /\ Lockers(u)' = Lockers(u)
    BY <1>4 DEF Store, zenoh, Of, Lockers
  <2>2. pub[t] # NoHandle /\ \A s \in Threads : at[s] = "store" => s = t
    <3>1. <<pub[t], uri[t]>> \in Handles \X Uris
      BY <1>4 DEF Store, PutDeclared
    <3>2. QED
      BY <1>4, <3>1, NoOneApart, MaxDeclaresNat DEF Store
  <2>3. Storer(u)'
    BY <1>0, <1>4, <2>1, <2>2 DEF Store, MapWith
  <2>4. QED
    BY <1>0, <2>1, <2>3
<1>5. ASSUME NEW t \in Threads, Put(t) PROVE Sum(u)' /\ Storer(u)'
  <2>1. Of(u)' = Of(u) /\ Lockers(u)' = Lockers(u)
    BY <1>5 DEF Put, zenoh, Of, Lockers
  <2>2. Storer(u)'
    BY <1>0, <1>5, <2>1 DEF Put
  <2>3. QED
    BY <1>0, <2>1, <2>2
<1>6. CASE Destroy
  <2>1. Of(u)' \subseteq Of(u) /\ Lockers(u)' = Lockers(u)
    BY <1>6 DEF Destroy, calls, Of, Lockers
  <2>2. Cardinality(Of(u)') <= Cardinality(Of(u)) /\ Cardinality(Of(u)') \in Nat
    BY <1>f, <2>1, FS_Subset, FS_CardinalityType
  <2>3. QED
    BY <1>0, <1>6, <1>f, <2>1, <2>2 DEF Destroy
<1>7. CASE UNCHANGED <<pubHandleMap, calls, zenoh, destroyed>>
  <2>1. Of(u)' = Of(u) /\ Lockers(u)' = Lockers(u)
    BY <1>7 DEF calls, zenoh, Of, Lockers
  <2>2. QED
    BY <1>0, <1>7, <2>1 DEF calls, zenoh
<1>8. QED
  BY <1>1, <1>2, <1>3, <1>4, <1>5, <1>6, <1>7, NextCases

-----------------------------------------------------------------------------
LEMMA IInvInit == Init => IInv
<1> SUFFICES ASSUME Init PROVE IInv
  OBVIOUS
<1>0. (CHOOSE u \in Uris : TRUE) \in Uris
  BY SomeUri
<1>1. TypeOK
  <2>1. uri \in [Threads -> Uris]
    BY <1>0 DEF Init
  <2>2. /\ pubHandleMap \in [Uris -> Handles \cup {NoHandle}]
        /\ pub \in [Threads -> Handles \cup {NoHandle}]
        /\ at \in [Threads -> Pcs]
        /\ status \in [Threads -> {"none", "OK", "UNAVAILABLE", "INVALID_ARGUMENT", "INTERNAL"}]
    BY DEF Init, Pcs
  <2>3. /\ lock \in Threads \cup {NoOne} /\ declared \subseteq Handles \X Uris
        /\ declares \in 0..MaxDeclares
    BY MaxDeclaresNat DEF Init
  <2>4. destroyed \in BOOLEAN /\ bothMissed \in BOOLEAN /\ torn \in BOOLEAN
    BY Zenon DEF Init
  <2>5. \A t \in Threads : lock = t <=> at[t] = "store"
    BY NoOneApart DEF Init
  <2>6. QED
    BY <2>1, <2>2, <2>3, <2>4, <2>5 DEF TypeOK
<1>2. Undecided = {}
  BY DEF Init, Undecided
<1>3. RoomInv
  BY <1>2, FS_EmptySet, MaxDeclaresNat DEF Init, RoomInv
<1>4. GoneInv /\ HandleInv /\ PutDeclared /\ AloneInv /\ NoPublisherLost
  BY DEF Init, GoneInv, HandleInv, PutDeclared, AloneInv, BothMissing, NoPublisherLost
<1>5. \A u \in Uris : Of(u) = {} /\ Lockers(u) = {}
  BY DEF Init, Of, Lockers
<1>6. ShareInv
  BY <1>5, FS_EmptySet, FiniteThreads DEF ShareInv
<1>7. QED
  BY <1>1, <1>3, <1>4, <1>6 DEF IInv

LEMMA IInvStep == IInv /\ [Next]_vars => IInv'
<1> SUFFICES ASSUME IInv, [Next]_vars PROVE IInv'
  OBVIOUS
<1>1. TypeOK' /\ RoomInv'
  BY TypeOKStep, RoomStep DEF IInv
<1>2. GoneInv' /\ HandleInv' /\ PutDeclared'
  BY <1>1, HandleStep DEF IInv
<1>3. AloneInv' /\ NoPublisherLost' /\ ShareInv'
  BY <1>1, AloneStep, LostStep, ShareStep DEF IInv
<1>4. QED
  BY <1>1, <1>2, <1>3 DEF IInv

(* The inductive invariant of every behaviour. *)
LEMMA Inductive == Spec => []IInv
  BY IInvInit, IInvStep, PTL DEF Spec

(* pubInitMutex_ is held exactly from declaring to storing, and no call    *)
(* runs out of numbers.                                                    *)
THEOREM TypeCorrect == Spec => []TypeOK
<1>1. IInv => TypeOK
  BY DEF IInv
<1>2. QED
  BY Inductive, <1>1, PTL

(* Whatever races on the map, sendPublish() puts through a publisher that  *)
(* zenoh has and that was declared for the URI of the call.                *)
THEOREM PutIsDeclared == Spec => []PutDeclared
<1>1. IInv => PutDeclared
  BY DEF IInv
<1>2. QED
  BY Inductive, <1>1, PTL

(* When no two calls miss a URI together the destructor leaves nothing.    *)
THEOREM NoneLost == Spec => []NoPublisherLost
<1>1. IInv => NoPublisherLost
  BY DEF IInv
<1>2. QED
  BY Inductive, <1>1, PTL

(* The second look that sees nothing costs a publisher per thread and URI  *)
(* at most, however many messages are sent.                                *)
THEOREM LeakIsBounded == Spec => []LeakBounded
<1>1. IInv => LeakBounded
  <2> SUFFICES ASSUME IInv, ~torn, NEW u \in Uris
               PROVE  Cardinality(Of(u)) <= Cardinality(Threads)
    BY DEF LeakBounded
  <2>1. Cardinality(Of(u)) + Cardinality(Lockers(u)) <= Cardinality(Threads)
    BY DEF IInv, ShareInv
  <2>2. Cardinality(Of(u)) \in Nat /\ Cardinality(Lockers(u)) \in Nat /\ Cardinality(Threads) \in Nat
    BY FiniteOf, FiniteThreads DEF IInv, Lockers
  <2>3. QED
    BY <2>1, <2>2
<1>2. QED
  BY Inductive, <1>1, PTL
=============================================================================
