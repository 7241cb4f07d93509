---------------------------- MODULE QueriesProofs ----------------------------
(***************************************************************************)
(* Proofs about Queries, for any sets of requests, ids, listeners and      *)
(* responders and every bound on the responses.                            *)
(***************************************************************************)
EXTENDS Queries, SequenceTheorems, TLAPS

(* The handler is through with storing the clone. *)
Kept == {"stored", "told", "refused"}

(* The map names clones that were stored, each under its own id. *)
MapInv ==
  \A i \in Ids : queryMap[i] \in Clones => IdOf(queryMap[i]) = i /\ handler[queryMap[i]] \in Kept

(* A responder holds a clone of the id it answers, and erases the entry    *)
(* only of a clone that it has dropped.                                    *)
CopyInv ==
  \A p \in Responders :
    /\ query[p] \in Clones => IdOf(query[p]) = JobId(p) /\ handler[query[p]] \in Kept
    /\ at[p] \in {"drop", "erase"} => query[p] \in Clones
    /\ at[p] = "erase" => query[p] \notin live

(* A clone is made before it is stored, and dropped only after. *)
LiveInv ==
  \A c \in Clones :
    /\ handler[c] \in {"store", "storing"} => c \in live
    /\ c \in live => handler[c] # "no"

(* A query that lives on after it was stored is still in the map, unless   *)
(* operator[] missed it or another query of its id was stored too.         *)
StrandInv ==
  \A c \in live : handler[c] \in {"stored", "told"} =>
    \/ queryMap[IdOf(c)] = c \/ IdOf(c) \in torn
    \/ \E d \in Clones \ {c} : IdOf(d) = IdOf(c) /\ handler[d] \in Kept

(* Of the queries stored under one id the map has one, until one of them   *)
(* is answered: only then is its entry erased.                             *)
OneInv ==
  /\ \A c \in Clones : handler[c] \in Kept /\ IdOf(c) \notin torn =>
       \/ queryMap[IdOf(c)] \in Clones
       \/ \E d \in Clones : IdOf(d) = IdOf(c) /\ handler[d] \in Kept /\ answers[d] # <<>>
  /\ \A p \in Responders : at[p] \in {"drop", "erase"} => answers[query[p]] # <<>>

(* An id that is not shared has one responder at most, so the entry that   *)
(* it found is there when it fetches it.                                   *)
AloneInv ==
  /\ \A p, q \in Responders : p # q /\ at[p] # "idle" /\ at[q] # "idle" /\ JobId(p) = JobId(q) => JobId(p) \in shared
  /\ \A p \in Responders : at[p] = "fetch" /\ JobId(p) \notin shared => queryMap[JobId(p)] # NoClone

(* An answered query of such an id, unless a lookup missed it, is out of   *)
(* reach, or with the responder that goes on to drop and erase it.         *)
OnceInv ==
  \A c \in Clones : answers[c] # <<>> =>
    /\ handler[c] \in Kept
    /\ IdOf(c) \notin shared \cup torn =>
         /\ Len(answers[c]) = 1
         /\ \/ \E p \in Responders : at[p] \in {"drop", "erase"} /\ query[p] = c
            \/ queryMap[IdOf(c)] # c /\ \A p \in Responders : query[p] # c

IInv ==
  /\ TypeOK /\ MapInv /\ CopyInv /\ LiveInv /\ StrandInv /\ OneInv
  /\ AloneInv /\ OnceInv /\ QueriesLive /\ AnswerMatches

-----------------------------------------------------------------------------
(* The marks in the map are no clones. *)
LEMMA MarksApart == NoClone \notin Clones /\ NullClone \notin Clones /\ NoClone # NullClone
  BY DEF NoClone, NullClone, Clones

(* Every step is a step of a handler or of a responder, or stutters. *)
LEMMA NextCases ==
  ASSUME [Next]_vars
  PROVE  \/ \E c \in Clones : Clone(c) \/ StoreBegin(c) \/ Store(c) \/ Tell(c)
         \/ \E p \in Responders :
              \/ \E c \in Clones : Respond(p, c)
              \/ Find(p) \/ Fetch(p) \/ Reply(p) \/ Drop(p) \/ Erase(p)
         \/ UNCHANGED <<id, handler, live, queryMap, send, answers, torn>>
  BY DEF Next, HandlerStep, SendStep, vars

LEMMA IdsAreIds ==
  ASSUME TypeOK
  PROVE  /\ \A c \in Clones : IdOf(c) \in Ids
         /\ \A p \in Responders : at[p] # "idle" => job[p] \in Clones /\ JobId(p) \in Ids
  BY DEF TypeOK, IdOf, JobId, Clones

(* No step changes an id, and an id once shared or missed stays so. *)
LEMMA IdsKept ==
  ASSUME TypeOK, [Next]_vars
  PROVE  id' = id /\ shared \subseteq shared' /\ shared' \subseteq Ids
         /\ torn \subseteq torn' /\ torn' \subseteq Ids
<1>1. shared \subseteq shared' /\ shared' \subseteq Ids
  BY DEF TypeOK, Next, vars
<1>2. id' = id
  BY NextCases DEF Clone, StoreBegin, Store, Tell, Respond, Find, Fetch, Reply, Drop, Erase
<1>3. torn' = torn \/ \E p \in Responders : at[p] # "idle" /\ torn' = torn \cup {JobId(p)}
  BY NextCases DEF Clone, StoreBegin, Store, Tell, Respond, Find, Fetch, Reply, Drop, Erase
<1>4. torn \subseteq torn' /\ torn' \subseteq Ids
  BY <1>3, IdsAreIds DEF TypeOK
<1>5. QED
  BY <1>1, <1>2, <1>4

(* A clone that was stored stays so. *)
LEMMA KeptStays ==
  ASSUME TypeOK, [Next]_vars
  PROVE  \A d \in Clones : handler[d] \in Kept => handler'[d] \in Kept
<1> SUFFICES ASSUME NEW d \in Clones, handler[d] \in Kept PROVE handler'[d] \in Kept
  OBVIOUS
<1>1. \/ UNCHANGED handler
      \/ \E c \in Clones, from, to \in {"no", "store", "storing", "stored", "told", "unread", "refused"} :
           Goes(c, from, to) /\ (from \in Kept => to \in Kept)
  BY NextCases DEF Clone, StoreBegin, Store, Tell, Respond, Find, Fetch, Reply, Drop, Erase, Kept
<1>2. QED
  BY <1>1 DEF Goes, TypeOK

(* What a responder fetches is a clone of the map or the empty mark. *)
LEMMA FetchedType ==
  ASSUME TypeOK, NEW p \in Responders, at[p] = "fetch"
  PROVE  Fetched(p) \in Clones \cup {NullClone} /\ Fetched(p) # NoClone
  BY IdsAreIds, MarksApart DEF Fetched, TypeOK

(* The fetch finds its entry, or misses it and may hide it. *)
FetchOutcome(p) ==
  /\ at[p] = "fetch" /\ JobId(p) \in Ids /\ at' = [at EXCEPT ![p] = "reply"]
  /\ UNCHANGED <<id, handler, live, job, tries, answers>>
  /\ \/ /\ queryMap' = [queryMap EXCEPT ![JobId(p)] = Fetched(p)]
        /\ query' = [query EXCEPT ![p] = Fetched(p)]
        /\ torn' = torn
     \/ /\ queryMap' = queryMap \/ queryMap' = [queryMap EXCEPT ![JobId(p)] = NullClone]
        /\ queryMap[JobId(p)] # NoClone
        /\ query' = [query EXCEPT ![p] = NullClone]
        /\ torn' = torn \cup {JobId(p)}

LEMMA FetchCases ==
  ASSUME TypeOK
  PROVE  \A p \in Responders : Fetch(p) => FetchOutcome(p)
  BY IdsAreIds DEF Fetch, Misses, Goto, FetchOutcome

(* The entry is erased, or missed, by its key. *)
EraseOutcome(p) ==
  /\ at[p] = "erase" /\ JobId(p) \in Ids /\ at' = [at EXCEPT ![p] = "idle"]
  /\ job' = [job EXCEPT ![p] = NoClone] /\ query' = [query EXCEPT ![p] = NoClone]
  /\ UNCHANGED <<id, handler, live, tries, answers>>
  /\ \/ queryMap' = [queryMap EXCEPT ![JobId(p)] = NoClone] /\ torn' = torn
     \/ queryMap' = queryMap /\ torn' = torn \cup {JobId(p)}

LEMMA EraseCases ==
  ASSUME TypeOK
  PROVE  \A p \in Responders : Erase(p) => EraseOutcome(p)
  BY IdsAreIds DEF Erase, MapWithout, Leave, Goto, EraseOutcome

(* Appending to the answers of one query adds one to its answers and       *)
(* leaves those of the others alone.                                       *)
LEMMA Appended ==
  ASSUME NEW S, NEW s \in Seq(S), NEW d \in S
  PROVE  /\ Append(s, d) \in Seq(S) /\ Len(Append(s, d)) = Len(s) + 1 /\ Append(s, d) # <<>>
         /\ ToSet(Append(s, d)) = ToSet(s) \cup {d}
<1>1. /\ Append(s, d) \in Seq(S) /\ Len(Append(s, d)) = Len(s) + 1
      /\ \A i \in 1..Len(s) : Append(s, d)[i] = s[i]
      /\ Append(s, d)[Len(s) + 1] = d /\ Len(s) \in Nat
  BY AppendProperties, LenProperties
<1>2. DOMAIN s = 1..Len(s) /\ DOMAIN Append(s, d) = 1..(Len(s) + 1)
  BY <1>1, LenProperties
<1>3. ToSet(Append(s, d)) \subseteq ToSet(s) \cup {d}
  BY <1>1, <1>2 DEF ToSet
<1>4. ToSet(s) \cup {d} \subseteq ToSet(Append(s, d))
  BY <1>1, <1>2 DEF ToSet
<1>5. Append(s, d) # <<>>
  BY <1>1, EmptySeq
<1>6. QED
  BY <1>1, <1>3, <1>4, <1>5

-----------------------------------------------------------------------------
LEMMA TypeOKStep ==
  ASSUME TypeOK, [Next]_vars
  PROVE  TypeOK'
<1>f. \A p \in Responders : Fetch(p) => FetchOutcome(p)
  BY FetchCases
<1>e. \A p \in Responders : Erase(p) => EraseOutcome(p)
  BY EraseCases
<1> USE MarksApart DEF TypeOK, Goes, Goto, Leave, send
<1>0. shared' \subseteq Ids /\ torn' \subseteq Ids
  BY IdsKept
<1>1. ASSUME NEW c \in Clones, Clone(c) PROVE TypeOK'
  BY <1>0, <1>1 DEF Clone
<1>2. ASSUME NEW c \in Clones, StoreBegin(c) PROVE TypeOK'
  BY <1>0, <1>2 DEF StoreBegin
<1>3. ASSUME NEW c \in Clones, Store(c) PROVE TypeOK'
  BY <1>0, <1>3 DEF Store
<1>4. ASSUME NEW c \in Clones, Tell(c) PROVE TypeOK'
  BY <1>0, <1>4 DEF Tell
<1>5. ASSUME NEW p \in Responders, NEW c \in Clones, Respond(p, c) PROVE TypeOK'
  BY <1>0, <1>5, MaxAnswersNat DEF Respond
<1>6. ASSUME NEW p \in Responders, Find(p) PROVE TypeOK'
  BY <1>0, <1>6 DEF Find
<1>7. ASSUME NEW p \in Responders, Fetch(p) PROVE TypeOK'
  <2>1. Fetched(p) \in Clones \cup {NullClone} /\ Fetched(p) # NoClone /\ job[p] \in Clones
    BY <1>7, FetchedType, IdsAreIds DEF Fetch
  <2>2. queryMap' \in [Ids -> Clones \cup {NoClone, NullClone}]
    BY <1>7, <2>1, <1>f DEF FetchOutcome
  <2>a. query' = [query EXCEPT ![p] = Fetched(p)] \/ query' = [query EXCEPT ![p] = NullClone]
    BY <1>7, <1>f DEF FetchOutcome
  <2>3. /\ query' \in [Responders -> Clones \cup {NoClone, NullClone}] /\ query'[p] # NoClone
        /\ \A q \in Responders : q # p => query'[q] = query[q]
    BY <2>1, <2>a
  <2>4. QED
    BY <1>0, <1>7, <2>1, <2>2, <2>3, <1>f DEF FetchOutcome
<1>8. ASSUME NEW p \in Responders, Reply(p) PROVE TypeOK'
  <2>1. job[p] \in Clones
    BY <1>8 DEF Reply
  <2>2. \A s \in Seq(Clones) : Append(s, job[p]) \in Seq(Clones)
    BY <2>1, Appended
  <2>3. CASE GiveUp(p) /\ UNCHANGED answers
    BY <1>0, <1>8, <2>3 DEF Reply, GiveUp
  <2>4. CASE ~(GiveUp(p) /\ UNCHANGED answers)
    <3>1. query[p] \in Clones /\ answers' = [answers EXCEPT ![query[p]] = Append(@, job[p])]
      BY <1>8, <2>4 DEF Reply
    <3>2. answers' \in [Clones -> Seq(Clones)]
      BY <2>2, <3>1
    <3>3. QED
      BY <1>0, <1>8, <2>4, <3>2 DEF Reply
  <2>5. QED
    BY <2>3, <2>4
<1>9. ASSUME NEW p \in Responders, Drop(p) PROVE TypeOK'
  BY <1>0, <1>9 DEF Drop, LiveWithout
<1>10. ASSUME NEW p \in Responders, Erase(p) PROVE TypeOK'
  <2>1. queryMap' \in [Ids -> Clones \cup {NoClone, NullClone}]
    BY <1>10, <1>e DEF EraseOutcome
  <2>2. /\ at' = [at EXCEPT ![p] = "idle"] /\ job' = [job EXCEPT ![p] = NoClone]
        /\ query' = [query EXCEPT ![p] = NoClone]
        /\ UNCHANGED <<id, handler, live, tries, answers>>
    BY <1>10, <1>e DEF EraseOutcome
  <2>3. QED
    BY <1>0, <2>1, <2>2
<1>11. CASE UNCHANGED <<id, handler, live, queryMap, send, answers, torn>>
  BY <1>0, <1>11
<1>12. QED
  BY <1>1, <1>2, <1>3, <1>4, <1>5, <1>6, <1>7, <1>8, <1>9, <1>10, <1>11, NextCases

(* Storing a clone puts it under its own id; a responder copies what the   *)
(* map has for the id it answers.                                          *)
LEMMA MapStep ==
  ASSUME TypeOK, MapInv, CopyInv, LiveInv, [Next]_vars
  PROVE  MapInv' /\ CopyInv' /\ LiveInv'
<1>f. \A p \in Responders : Fetch(p) => FetchOutcome(p)
  BY FetchCases
<1>e. \A p \in Responders : Erase(p) => EraseOutcome(p)
  BY EraseCases
<1> USE MarksApart, IdsKept, IdsAreIds DEF Goes, Goto, Leave, send, IdOf, JobId, Kept
<1>1. ASSUME NEW c \in Clones, Clone(c) PROVE MapInv' /\ CopyInv' /\ LiveInv'
  <2>1. MapInv'
    BY <1>1 DEF Clone, MapInv, TypeOK
  <2>2. CopyInv'
    BY <1>1 DEF Clone, CopyInv, TypeOK
  <2>3. LiveInv'
    BY <1>1 DEF Clone, LiveInv, TypeOK
  <2>4. QED
    BY <2>1, <2>2, <2>3
<1>2. ASSUME NEW c \in Clones, StoreBegin(c) PROVE MapInv' /\ CopyInv' /\ LiveInv'
  BY <1>2 DEF StoreBegin, MapInv, CopyInv, LiveInv, TypeOK
<1>3. ASSUME NEW c \in Clones, Store(c) PROVE MapInv' /\ CopyInv' /\ LiveInv'
  BY <1>3 DEF Store, MapInv, CopyInv, LiveInv, TypeOK
<1>4. ASSUME NEW c \in Clones, Tell(c) PROVE MapInv' /\ CopyInv' /\ LiveInv'
  <2>1. MapInv'
    BY <1>4, KeptStays DEF Tell, MapInv
  <2>2. CopyInv'
    <3>1. UNCHANGED <<id, live, at, job, query>>
      BY <1>4 DEF Tell
    <3>2. QED
      BY <3>1, KeptStays DEF CopyInv
  <2>3. LiveInv'
    BY <1>4 DEF Tell, LiveInv, TypeOK
  <2>4. QED
    BY <2>1, <2>2, <2>3
<1>5. ASSUME NEW p \in Responders, NEW c \in Clones, Respond(p, c) PROVE MapInv' /\ CopyInv' /\ LiveInv'
  BY <1>5 DEF Respond, MapInv, CopyInv, LiveInv, TypeOK
<1>6. ASSUME NEW p \in Responders, Find(p) PROVE MapInv' /\ CopyInv' /\ LiveInv'
  BY <1>6 DEF Find, MapInv, CopyInv, LiveInv, TypeOK
<1>7. ASSUME NEW p \in Responders, Fetch(p) PROVE MapInv' /\ CopyInv' /\ LiveInv'
  <2>1. \A i \in Ids : queryMap'[i] \in {queryMap[i], NullClone}
    BY <1>7, <1>f DEF Fetched, TypeOK, FetchOutcome
  <2>2. query'[p] \in {queryMap[JobId(p)], NullClone} /\ \A q \in Responders : q # p => query'[q] = query[q]
    BY <1>7, <1>f DEF Fetched, TypeOK, FetchOutcome
  <2>3. MapInv' /\ LiveInv'
    BY <1>7, <2>1, <1>f DEF MapInv, LiveInv, FetchOutcome
  <2>4. CopyInv'
    BY <1>7, <2>2, <1>f DEF MapInv, CopyInv, TypeOK, FetchOutcome
  <2>5. QED
    BY <2>3, <2>4
<1>8. ASSUME NEW p \in Responders, Reply(p) PROVE MapInv' /\ CopyInv' /\ LiveInv'
  <2>1. MapInv' /\ LiveInv'
    BY <1>8 DEF Reply, GiveUp, MapInv, LiveInv
  <2>2. ASSUME GiveUp(p) PROVE CopyInv'
    BY <1>8, <2>2 DEF Reply, GiveUp, CopyInv, TypeOK
  <2>3. ASSUME query[p] \in Clones, Goto(p, "drop"), UNCHANGED <<live, queryMap, job, query>> PROVE CopyInv'
    BY <1>8, <2>3 DEF Reply, CopyInv, TypeOK
  <2>4. QED
    BY <1>8, <2>1, <2>2, <2>3 DEF Reply
<1>9. ASSUME NEW p \in Responders, Drop(p) PROVE MapInv' /\ CopyInv' /\ LiveInv'
  <2>1. MapInv'
    BY <1>9 DEF Drop, MapInv
  <2>2. CopyInv'
    BY <1>9 DEF Drop, LiveWithout, CopyInv, TypeOK
  <2>3. LiveInv'
    BY <1>9 DEF Drop, LiveWithout, LiveInv, CopyInv
  <2>4. QED
    BY <2>1, <2>2, <2>3
<1>10. ASSUME NEW p \in Responders, Erase(p) PROVE MapInv' /\ CopyInv' /\ LiveInv'
  <2>1. \A i \in Ids : queryMap'[i] \in {queryMap[i], NoClone}
    BY <1>10, <1>e DEF TypeOK, EraseOutcome
  <2>2. MapInv' /\ LiveInv'
    BY <1>10, <2>1, <1>e DEF MapInv, LiveInv, EraseOutcome
  <2>3. CopyInv'
    BY <1>10, <1>e DEF CopyInv, TypeOK, EraseOutcome
  <2>4. QED
    BY <2>2, <2>3
<1>11. CASE UNCHANGED <<id, handler, live, queryMap, send, answers, torn>>
  BY <1>11 DEF MapInv, CopyInv, LiveInv
<1>12. QED
  BY <1>1, <1>2, <1>3, <1>4, <1>5, <1>6, <1>7, <1>8, <1>9, <1>10, <1>11, NextCases

(* Only the responder that dropped a clone of the id, or the handler that  *)
(* stores another of it, takes a clone out of the map.                     *)
LEMMA StrandStep ==
  ASSUME TypeOK, MapInv, CopyInv, LiveInv, StrandInv, [Next]_vars
  PROVE  StrandInv'
<1>f. \A p \in Responders : Fetch(p) => FetchOutcome(p)
  BY FetchCases
<1>e. \A p \in Responders : Erase(p) => EraseOutcome(p)
  BY EraseCases
<1> USE MarksApart, IdsKept, IdsAreIds DEF Goes, Goto, Leave, send, IdOf, JobId, Kept
<1>1. ASSUME NEW c \in Clones, Clone(c) PROVE StrandInv'
  <2>1. \A d \in Clones : d # c => handler'[d] = handler[d] /\ (d \in live' => d \in live)
    BY <1>1 DEF Clone, TypeOK
  <2>2. handler'[c] \in {"store", "unread"} /\ UNCHANGED <<id, queryMap, torn>>
    BY <1>1 DEF Clone, TypeOK
  <2>3. live' \subseteq Clones
    BY TypeOKStep DEF TypeOK
  <2>4. QED
    BY <2>1, <2>2, <2>3, KeptStays DEF StrandInv
<1>2. ASSUME NEW c \in Clones, StoreBegin(c) PROVE StrandInv'
  BY <1>2 DEF StoreBegin, StrandInv, TypeOK
<1>3. ASSUME NEW c \in Clones, Store(c) PROVE StrandInv'
  BY <1>3 DEF Store, StrandInv, TypeOK
<1>4. ASSUME NEW c \in Clones, Tell(c) PROVE StrandInv'
  <2>1. \A d \in Clones : d # c => handler'[d] = handler[d]
    BY <1>4 DEF Tell, TypeOK
  <2>2. handler[c] = "stored" /\ handler'[c] \in {"told", "refused"} /\ UNCHANGED <<id, queryMap, live, torn>>
    BY <1>4 DEF Tell, TypeOK
  <2>3. live \subseteq Clones
    BY DEF TypeOK
  <2>4. QED
    BY <2>1, <2>2, <2>3, KeptStays DEF StrandInv
<1>5. ASSUME NEW p \in Responders, NEW c \in Clones, Respond(p, c) PROVE StrandInv'
  BY <1>5 DEF Respond, StrandInv
<1>6. ASSUME NEW p \in Responders, Find(p) PROVE StrandInv'
  BY <1>6 DEF Find, StrandInv
<1>7. ASSUME NEW p \in Responders, Fetch(p) PROVE StrandInv'
  <2>1. \A i \in Ids : queryMap'[i] = queryMap[i] \/ queryMap[i] = NoClone \/ i \in torn'
    BY <1>7, <1>f DEF Fetched, TypeOK, FetchOutcome
  <2>2. UNCHANGED <<id, handler, live>> /\ torn \subseteq torn' /\ live \subseteq Clones
    BY <1>7, <1>f DEF FetchOutcome, TypeOK
  <2>3. QED
    BY <2>1, <2>2 DEF StrandInv
<1>8. ASSUME NEW p \in Responders, Reply(p) PROVE StrandInv'
  BY <1>8 DEF Reply, GiveUp, StrandInv
<1>9. ASSUME NEW p \in Responders, Drop(p) PROVE StrandInv'
  BY <1>9 DEF Drop, LiveWithout, StrandInv
<1>10. ASSUME NEW p \in Responders, Erase(p) PROVE StrandInv'
  <2>1. \A i \in Ids : queryMap'[i] = queryMap[i] \/ i = JobId(p)
    BY <1>10, <1>e DEF TypeOK, EraseOutcome
  <2>2. query[p] \in Clones /\ query[p] \notin live /\ IdOf(query[p]) = JobId(p) /\ handler[query[p]] \in Kept
    BY <1>10, <1>e DEF CopyInv, EraseOutcome
  <2>3. UNCHANGED <<id, handler, live>> /\ torn \subseteq torn' /\ live \subseteq Clones
    BY <1>10, <1>e DEF EraseOutcome, TypeOK
  <2>4. ASSUME NEW c \in live, handler[c] \in {"stored", "told"}, IdOf(c) = JobId(p)
        PROVE  \E d \in Clones \ {c} : IdOf(d) = IdOf(c) /\ handler[d] \in Kept
    BY <2>2, <2>4
  <2>5. QED
    BY <2>1, <2>3, <2>4 DEF StrandInv
<1>11. CASE UNCHANGED <<id, handler, live, queryMap, send, answers, torn>>
  BY <1>11 DEF StrandInv
<1>12. QED
  BY <1>1, <1>2, <1>3, <1>4, <1>5, <1>6, <1>7, <1>8, <1>9, <1>10, <1>11, NextCases

(* Storing puts a clone in the map, and only a responder that has answered *)
(* a query of the id takes the entry away.                                 *)
LEMMA OneStep ==
  ASSUME TypeOK, TypeOK', MapInv, CopyInv, LiveInv, OneInv, [Next]_vars
  PROVE  OneInv'
<1> DEFINE Answered(i) == \E d \in Clones : IdOf(d) = i /\ handler[d] \in Kept /\ answers[d] # <<>>
           Entry(i)    == queryMap[i] \in Clones \/ Answered(i)
           Stores      == \A c \in Clones : handler[c] \in Kept /\ IdOf(c) \notin torn => Entry(IdOf(c))
           Replied     == \A p \in Responders : at[p] \in {"drop", "erase"} => answers[query[p]] # <<>>
<1>f. \A p \in Responders : Fetch(p) => FetchOutcome(p)
  BY FetchCases
<1>e. \A p \in Responders : Erase(p) => EraseOutcome(p)
  BY EraseCases
<1>0. /\ id' = id /\ torn \subseteq torn'
      /\ \A d \in Clones : IdOf(d) \in Ids /\ IdOf(d)' = IdOf(d)
      /\ \A d \in Clones : handler[d] \in Kept => handler'[d] \in Kept
      /\ Stores /\ Replied
  BY IdsKept, IdsAreIds, KeptStays DEF OneInv, IdOf
<1>a. \A d \in Clones : answers[d] # <<>> => answers'[d] # <<>>
  <2>1. ASSUME NEW p \in Responders, Reply(p) PROVE \A d \in Clones : answers[d] # <<>> => answers'[d] # <<>>
    <3>1. CASE UNCHANGED answers
      BY <3>1
    <3>2. CASE query[p] \in Clones /\ answers' = [answers EXCEPT ![query[p]] = Append(@, job[p])]
      <4>1. job[p] \in Clones
        BY <2>1, IdsAreIds DEF Reply
      <4>2. answers[query[p]] \in Seq(Clones)
        BY <3>2 DEF TypeOK
      <4>3. Append(answers[query[p]], job[p]) # <<>>
        BY <4>1, <4>2, Appended
      <4>4. QED
        BY <3>2, <4>3 DEF TypeOK
    <3>3. QED
      BY <2>1, <3>1, <3>2 DEF Reply
  <2>2. CASE UNCHANGED answers
    BY <2>2
  <2>3. QED
    BY <2>1, <2>2, NextCases DEF Clone, StoreBegin, Store, Tell, Respond, Find, Fetch, Drop, Erase
<1>b. \A i \in Ids : Answered(i) => Answered(i)'
  BY <1>0, <1>a
(* A clone newly kept is in the map; an entry lost was answered or missed. *)
<1>1. ASSUME \A c \in Clones : handler'[c] \in Kept => handler[c] \in Kept,
             \A i \in Ids : queryMap[i] \in Clones => queryMap'[i] \in Clones \/ i \in torn' \/ Answered(i)
      PROVE  Stores'
  BY <1>0, <1>1, <1>b
<1>2. ASSUME UNCHANGED answers,
             \A p \in Responders : at'[p] \in {"drop", "erase"} => at[p] \in {"drop", "erase"} /\ query'[p] = query[p]
      PROVE  Replied'
  BY <1>0, <1>2
<1>3. ASSUME NEW c \in Clones, Clone(c) \/ StoreBegin(c) \/ Tell(c) PROVE Stores' /\ Replied'
  <2>1. UNCHANGED <<queryMap, at, query, answers>>
    BY <1>3 DEF Clone, StoreBegin, Tell, send
  <2>2. \A d \in Clones : handler'[d] \in Kept => handler[d] \in Kept
    BY <1>3 DEF Clone, StoreBegin, Tell, Goes, Kept, TypeOK
  <2>3. QED
    BY <1>1, <1>2, <2>1, <2>2
<1>4. ASSUME NEW c \in Clones, Store(c) PROVE Stores' /\ Replied'
  <2>1. /\ queryMap' = [queryMap EXCEPT ![IdOf(c)] = c] /\ UNCHANGED <<at, query, answers>>
        /\ \A d \in Clones : d # c => handler'[d] = handler[d]
    BY <1>4 DEF Store, Goes, send, TypeOK
  <2>2. queryMap'[IdOf(c)] = c /\ \A i \in Ids : queryMap[i] \in Clones => queryMap'[i] \in Clones
    BY <1>0, <2>1 DEF TypeOK
  <2>3. Stores'
    BY <1>0, <1>b, <2>1, <2>2
  <2>4. QED
    BY <1>2, <2>1, <2>3
<1>5. ASSUME NEW p \in Responders, (\E c \in Clones : Respond(p, c)) \/ Find(p) PROVE Stores' /\ Replied'
  <2>1. UNCHANGED <<handler, queryMap, answers>>
    BY <1>5 DEF Respond, Find
  <2>2. at'[p] \in {"idle", "find", "fetch"}
    BY <1>5 DEF Respond, Find, Goto, Leave, TypeOK
  <2>3. \A q \in Responders : q # p => at'[q] = at[q] /\ query'[q] = query[q]
    BY <1>5 DEF Respond, Find, Goto, Leave, TypeOK
  <2>4. QED
    BY <1>1, <1>2, <2>1, <2>2, <2>3
<1>6. ASSUME NEW p \in Responders, Fetch(p) PROVE Stores' /\ Replied'
  <2>1. \A i \in Ids : queryMap[i] \in Clones => queryMap'[i] \in Clones \/ i \in torn'
    <3>1. CASE queryMap' = [queryMap EXCEPT ![JobId(p)] = Fetched(p)]
      BY <3>1, MarksApart DEF Fetched, TypeOK
    <3>2. CASE queryMap' = queryMap
      BY <3>2
    <3>3. CASE queryMap' = [queryMap EXCEPT ![JobId(p)] = NullClone] /\ torn' = torn \cup {JobId(p)}
      BY <3>3 DEF TypeOK
    <3>4. QED
      BY <1>6, <1>f, <3>1, <3>2, <3>3 DEF FetchOutcome
  <2>a. at' = [at EXCEPT ![p] = "reply"]
        /\ (query' = [query EXCEPT ![p] = Fetched(p)] \/ query' = [query EXCEPT ![p] = NullClone])
    BY <1>6, <1>f DEF FetchOutcome
  <2>2. \A q \in Responders : q # p => at'[q] = at[q] /\ query'[q] = query[q]
    BY <2>a DEF TypeOK
  <2>3. UNCHANGED <<handler, answers>> /\ at'[p] = "reply"
    BY <1>6, <1>f DEF FetchOutcome, TypeOK
  <2>4. QED
    BY <1>1, <1>2, <2>1, <2>2, <2>3
<1>7. ASSUME NEW p \in Responders, Reply(p) PROVE Stores' /\ Replied'
  <2>1. UNCHANGED <<handler, queryMap>>
    BY <1>7 DEF Reply, GiveUp
  <2>2. \A q \in Responders : q # p => at'[q] = at[q] /\ query'[q] = query[q]
    BY <1>7 DEF Reply, GiveUp, Goto, Leave, TypeOK
  <2>3. \A q \in Responders : q # p /\ at[q] \in {"drop", "erase"} => answers'[query[q]] # <<>>
    BY <1>0, <1>a DEF CopyInv
  <2>4. at'[p] \in {"drop", "erase"} => answers'[query'[p]] # <<>>
    <3>1. CASE GiveUp(p)
      BY <3>1 DEF GiveUp, Goto, Leave, TypeOK
    <3>2. CASE ~GiveUp(p)
      <4>1. query[p] \in Clones /\ answers' = [answers EXCEPT ![query[p]] = Append(@, job[p])] /\ query' = query
        BY <1>7, <3>2 DEF Reply
      <4>2. job[p] \in Clones /\ answers[query[p]] \in Seq(Clones)
        BY <1>7, <4>1, IdsAreIds DEF Reply, TypeOK
      <4>3. Append(answers[query[p]], job[p]) # <<>>
        BY <4>2, Appended
      <4>4. QED
        BY <4>1, <4>3 DEF TypeOK
    <3>3. QED
      BY <3>1, <3>2
  <2>5. QED
    BY <1>1, <2>1, <2>2, <2>3, <2>4
<1>8. ASSUME NEW p \in Responders, Drop(p) PROVE Stores' /\ Replied'
  <2>1. UNCHANGED <<handler, queryMap, query, answers>> /\ at[p] = "drop"
    BY <1>8 DEF Drop
  <2>2. \A q \in Responders : q # p => at'[q] = at[q]
    BY <1>8 DEF Drop, Goto, TypeOK
  <2>3. QED
    BY <1>1, <1>2, <2>1, <2>2
<1>9. ASSUME NEW p \in Responders, Erase(p) PROVE Stores' /\ Replied'
  <2>1. Answered(JobId(p))
    <3>1. at[p] = "erase"
      BY <1>9, <1>e DEF EraseOutcome
    <3>2. QED
      BY <1>0, <3>1 DEF CopyInv
  <2>a. queryMap' = queryMap \/ queryMap' = [queryMap EXCEPT ![JobId(p)] = NoClone]
    BY <1>9, <1>e DEF EraseOutcome
  <2>2. \A i \in Ids : i # JobId(p) => queryMap'[i] = queryMap[i]
    BY <2>a DEF TypeOK
  <2>3. \A q \in Responders : q # p => at'[q] = at[q] /\ query'[q] = query[q]
    BY <1>9, <1>e DEF EraseOutcome, TypeOK
  <2>4. UNCHANGED <<handler, answers>> /\ at'[p] = "idle"
    BY <1>9, <1>e DEF EraseOutcome, TypeOK
  <2>5. QED
    BY <1>1, <1>2, <2>1, <2>2, <2>3, <2>4
<1>10. ASSUME UNCHANGED <<id, handler, live, queryMap, send, answers, torn>> PROVE Stores' /\ Replied'
  BY <1>1, <1>2, <1>10 DEF send
<1>11. Stores' /\ Replied'
  BY <1>3, <1>4, <1>5, <1>6, <1>7, <1>8, <1>9, <1>10, NextCases
<1>12. QED
  BY <1>11 DEF OneInv

(* Who shares an id is noted in the step that makes it so. *)
LEMMA AloneStep ==
  ASSUME TypeOK, TypeOK', MapInv, CopyInv, AloneInv, [Next]_vars
  PROVE  AloneInv'
<1>f. \A p \in Responders : Fetch(p) => FetchOutcome(p)
  BY FetchCases
<1>e. \A p \in Responders : Erase(p) => EraseOutcome(p)
  BY EraseCases
<1> USE MarksApart DEF Goes, Goto, Leave, send, IdOf, JobId
<1>0. shared \subseteq shared' /\ id' = id
  BY IdsKept
<1>a. ASSUME NEW i \in Ids, NEW p \in Responders, NEW q \in Responders, p # q, (Busy(p, i) /\ Busy(q, i))'
      PROVE  i \in shared'
  <2>1. CASE Next
    BY <1>a, <2>1 DEF Next
  <2>2. CASE UNCHANGED vars
    BY <1>a, <2>2 DEF AloneInv, Busy, vars
  <2>3. QED
    BY <2>1, <2>2
<1>b. \A p \in Responders : at'[p] # "idle" => JobId(p)' \in Ids
  BY DEF TypeOK, Clones
<1> DEFINE Found == \A p \in Responders : at[p] = "fetch" /\ JobId(p) \notin shared => queryMap[JobId(p)] # NoClone
<1>1. ASSUME NEW c \in Clones, Clone(c) \/ StoreBegin(c) \/ Tell(c) PROVE Found'
  BY <1>0, <1>1 DEF Clone, StoreBegin, Tell, AloneInv
<1>3. ASSUME NEW c \in Clones, Store(c) PROVE Found'
  <2>1. \A i \in Ids : queryMap[i] # NoClone => queryMap'[i] # NoClone
    BY <1>3 DEF Store, TypeOK
  <2>2. QED
    BY <1>0, <1>3, <2>1, IdsAreIds DEF Store, AloneInv
<1>5. ASSUME NEW p \in Responders, NEW c \in Clones, Respond(p, c) PROVE Found'
  BY <1>0, <1>5 DEF Respond, AloneInv, TypeOK
<1>6. ASSUME NEW p \in Responders, Find(p) PROVE Found'
  BY <1>0, <1>6 DEF Find, AloneInv, TypeOK
<1>7. ASSUME NEW p \in Responders, Fetch(p) PROVE Found'
  <2>1. Fetched(p) # NoClone
    BY <1>7, FetchedType DEF Fetch
  <2>2. \A i \in Ids : queryMap[i] # NoClone => queryMap'[i] # NoClone
    BY <1>7, <2>1, <1>f DEF TypeOK, FetchOutcome
  <2>3. \A q \in Responders : at'[q] = "fetch" => at[q] = "fetch"
    BY <1>7, <1>f DEF TypeOK, FetchOutcome
  <2>4. QED
    BY <1>0, <1>7, <2>2, <2>3, IdsAreIds, <1>f DEF AloneInv, FetchOutcome
<1>8. ASSUME NEW p \in Responders, Reply(p) PROVE Found'
  <2>1. \A q \in Responders : at'[q] = "fetch" => at[q] = "fetch" /\ job'[q] = job[q]
    BY <1>8 DEF Reply, GiveUp, TypeOK
  <2>2. QED
    BY <1>0, <1>8, <2>1 DEF Reply, GiveUp, AloneInv
<1>9. ASSUME NEW p \in Responders, Drop(p) PROVE Found'
  BY <1>0, <1>9 DEF Drop, AloneInv, TypeOK
<1>10. ASSUME NEW p \in Responders, Erase(p) PROVE Found'
  <2>1. \A q \in Responders : q # p => at'[q] = at[q] /\ job'[q] = job[q]
    BY <1>10 DEF Erase, TypeOK
  <2>2. \A q \in Responders : q # p /\ at[q] = "fetch" /\ JobId(q) \notin shared => JobId(q) # JobId(p)
    BY <1>10 DEF Erase, AloneInv
  <2>3. \A i \in Ids : i # JobId(p) => queryMap'[i] = queryMap[i]
    BY <1>10, <1>e DEF TypeOK, EraseOutcome
  <2>4. at'[p] = "idle"
    BY <1>10, <1>e DEF TypeOK, EraseOutcome
  <2>5. QED
    BY <1>0, <1>10, <2>1, <2>2, <2>3, <2>4, IdsAreIds DEF AloneInv
<1>11. ASSUME UNCHANGED <<id, handler, live, queryMap, send, answers, torn>> PROVE Found'
  BY <1>0, <1>11 DEF AloneInv
<1>12. Found'
  BY <1>1, <1>3, <1>5, <1>6, <1>7, <1>8, <1>9, <1>10, <1>11, NextCases
<1>13. QED
  BY <1>a, <1>b, <1>12 DEF AloneInv, Busy

(* Of an id that is not shared the map has the live query until its        *)
(* responder has dropped it, and that responder has it until then.         *)
LEMMA QueriesLiveStep ==
  ASSUME TypeOK, TypeOK', MapInv, CopyInv, LiveInv, AloneInv, QueriesLive, [Next]_vars
  PROVE  QueriesLive'
<1>f. \A p \in Responders : Fetch(p) => FetchOutcome(p)
  BY FetchCases
<1>e. \A p \in Responders : Erase(p) => EraseOutcome(p)
  BY EraseCases
<1> DEFINE Entry(i) == i \in Ids \ (shared \cup torn) =>
             \/ queryMap[i] \in live \cup {NoClone}
             \/ \E p \in Responders : at[p] = "erase" /\ query[p] = queryMap[i]
           Has(r)   == r \in Responders =>
             (at[r] \in {"reply", "drop"} /\ JobId(r) \notin shared \cup torn => query[r] \in live)
<1> SUFFICES ASSUME NEW i, NEW r
             PROVE  Entry(i)' /\ Has(r)'
  BY DEF QueriesLive
<1>0. /\ shared \subseteq shared' /\ torn \subseteq torn' /\ id' = id
      /\ Entry(i)
      /\ Has(r)
  BY IdsKept DEF QueriesLive
<1> USE MarksApart DEF Goes, Goto, Leave, send, IdOf, JobId
<1>1. ASSUME NEW c \in Clones, Clone(c) PROVE Entry(i)' /\ Has(r)'
  <2>1. live \subseteq live' /\ UNCHANGED <<at, job, query, queryMap>>
    BY <1>1 DEF Clone
  <2>2. QED
    BY <1>0, <2>1
<1>2. ASSUME NEW c \in Clones, StoreBegin(c) \/ Tell(c) PROVE Entry(i)' /\ Has(r)'
  BY <1>0, <1>2 DEF StoreBegin, Tell
<1>3. ASSUME NEW c \in Clones, Store(c) PROVE Entry(i)' /\ Has(r)'
  <2>1. c \in live
    BY <1>3 DEF Store, LiveInv
  <2>2. QED
    BY <1>0, <1>3, <2>1 DEF Store, TypeOK
<1>4. ASSUME NEW p \in Responders, NEW c \in Clones, Respond(p, c) PROVE Entry(i)' /\ Has(r)'
  <2>1. \A q \in Responders : q # p => at'[q] = at[q] /\ job'[q] = job[q]
    BY <1>4 DEF Respond, TypeOK
  <2>2. at[p] = "idle" /\ at'[p] = "find" /\ UNCHANGED <<live, queryMap, query>>
    BY <1>4 DEF Respond, TypeOK
  <2>3. QED
    BY <1>0, <2>1, <2>2
<1>5. ASSUME NEW p \in Responders, Find(p) PROVE Entry(i)' /\ Has(r)'
  <2>1. \A q \in Responders : q # p => at'[q] = at[q] /\ job'[q] = job[q] /\ query'[q] = query[q]
    BY <1>5 DEF Find, TypeOK
  <2>2. at[p] = "find" /\ at'[p] \in {"idle", "fetch"} /\ UNCHANGED <<live, queryMap>>
    BY <1>5 DEF Find, TypeOK
  <2>3. QED
    BY <1>0, <2>1, <2>2
<1>6. ASSUME NEW p \in Responders, Fetch(p) PROVE Entry(i)' /\ Has(r)'
  <2>1. \A q \in Responders : q # p => at'[q] = at[q] /\ job'[q] = job[q] /\ query'[q] = query[q]
    BY <1>6, <1>f DEF TypeOK, FetchOutcome
  <2>2. at[p] = "fetch" /\ at'[p] = "reply" /\ UNCHANGED <<live, job>> /\ JobId(p) \in Ids
    BY <1>6, <1>f DEF TypeOK, FetchOutcome
  <2>3. \A j \in Ids \ (shared' \cup torn') : queryMap'[j] = queryMap[j]
    BY <1>0, <1>6, <2>2, <1>f DEF Fetched, AloneInv, TypeOK, FetchOutcome
  <2>4. ASSUME JobId(p) \notin shared' \cup torn' PROVE query'[p] \in live
    <3>1. queryMap[JobId(p)] = query'[p] /\ query'[p] # NoClone
      BY <1>0, <1>6, <2>2, <2>4, <1>f DEF AloneInv, Fetched, TypeOK, FetchOutcome
    <3>2. \A q \in Responders : at[q] = "erase" => query[q] # query'[p]
      BY <1>0, <2>2, <2>4, <3>1 DEF AloneInv, CopyInv, MapInv
    <3>3. QED
      BY <1>0, <2>2, <2>4, <3>1, <3>2 DEF QueriesLive
  <2>5. QED
    BY <1>0, <2>1, <2>2, <2>3, <2>4
<1>7. ASSUME NEW p \in Responders, Reply(p) PROVE Entry(i)' /\ Has(r)'
  <2>1. \A q \in Responders : q # p => at'[q] = at[q] /\ job'[q] = job[q] /\ query'[q] = query[q]
    BY <1>7 DEF Reply, GiveUp, TypeOK
  <2>2. /\ at[p] = "reply" /\ UNCHANGED <<live, queryMap>>
        /\ at'[p] = "idle" \/ (at'[p] = "drop" /\ UNCHANGED <<job, query>>)
    <3>1. at[p] = "reply"
      BY <1>7 DEF Reply
    <3>2. CASE GiveUp(p)
      BY <3>1, <3>2 DEF GiveUp, TypeOK
    <3>3. CASE Goto(p, "drop") /\ UNCHANGED <<live, queryMap, job, query>>
      BY <3>1, <3>3 DEF TypeOK
    <3>4. QED
      BY <1>7, <3>2, <3>3 DEF Reply
  <2>3. QED
    BY <1>0, <2>1, <2>2
<1>8. ASSUME NEW p \in Responders, Drop(p) PROVE Entry(i)' /\ Has(r)'
  <2>1. \A q \in Responders : q # p => at'[q] = at[q]
    BY <1>8 DEF Drop, TypeOK
  <2>2. /\ at[p] = "drop" /\ at'[p] = "erase" /\ UNCHANGED <<job, query, queryMap>>
        /\ live' = live \ {query[p]}
    BY <1>8 DEF Drop, LiveWithout, TypeOK
  <2>3. ASSUME r \in Responders, r # p, at[r] \in {"reply", "drop"}, JobId(r) \notin shared' \cup torn',
               query[r] = query[p]
        PROVE  FALSE
    <3>1. JobId(r) = JobId(p)
      BY <2>2, <2>3 DEF CopyInv
    <3>2. QED
      BY <1>0, <2>2, <2>3, <3>1 DEF AloneInv
  <2>4. QED
    BY <1>0, <2>1, <2>2, <2>3
<1>9. ASSUME NEW p \in Responders, Erase(p) PROVE Entry(i)' /\ Has(r)'
  <2>1. \A q \in Responders : q # p => at'[q] = at[q] /\ job'[q] = job[q] /\ query'[q] = query[q]
    BY <1>9, <1>e DEF TypeOK, EraseOutcome
  <2>2. /\ at[p] = "erase" /\ at'[p] = "idle" /\ UNCHANGED live
        /\ JobId(p) \in Ids /\ query[p] \in Clones
    BY <1>9, <1>e DEF CopyInv, TypeOK, EraseOutcome
  <2>3. i \in Ids /\ query[p] = queryMap[i] => i = JobId(p)
    BY <2>2 DEF CopyInv, MapInv
  <2>4. i \in Ids => IF i # JobId(p) THEN queryMap'[i] = queryMap[i] ELSE queryMap'[i] = NoClone \/ i \in torn'
    BY <1>9, <1>e DEF TypeOK, EraseOutcome
  <2>5. QED
    BY <1>0, <2>1, <2>2, <2>3, <2>4
<1>10. CASE UNCHANGED <<id, handler, live, queryMap, send, answers, torn>>
  BY <1>0, <1>10
<1>11. QED
  BY <1>1, <1>2, <1>3, <1>4, <1>5, <1>6, <1>7, <1>8, <1>9, <1>10, NextCases

(* An id that is not shared: its query is answered by the one responder    *)
(* that has it, which goes on to drop and erase it.                        *)
LEMMA OnceStep ==
  ASSUME TypeOK, TypeOK', MapInv, MapInv', CopyInv, LiveInv, AloneInv, OnceInv, [Next]_vars
  PROVE  OnceInv'
<1>f. \A p \in Responders : Fetch(p) => FetchOutcome(p)
  BY FetchCases
<1>e. \A p \in Responders : Erase(p) => EraseOutcome(p)
  BY EraseCases
<1> DEFINE Spent(c) == \/ \E p \in Responders : at[p] \in {"drop", "erase"} /\ query[p] = c
                       \/ queryMap[IdOf(c)] # c /\ \A p \in Responders : query[p] # c
<1> SUFFICES ASSUME NEW c \in Clones, answers'[c] # <<>>
             PROVE  handler'[c] \in Kept /\ (IdOf(c) \notin shared' \cup torn' => Len(answers'[c]) = 1 /\ Spent(c)')
  <2>1. id' = id
    BY IdsKept
  <2>2. QED
    BY <2>1 DEF OnceInv, IdOf
<1> DEFINE Once == handler'[c] \in Kept /\ (IdOf(c) \notin shared' \cup torn' => Len(answers'[c]) = 1 /\ Spent(c)')
<1>0. /\ shared \subseteq shared' /\ torn \subseteq torn' /\ id' = id /\ IdOf(c) \in Ids
      /\ answers[c] # <<>> => /\ handler[c] \in Kept /\ handler'[c] \in Kept
                              /\ IdOf(c) \notin shared \cup torn => Len(answers[c]) = 1 /\ Spent(c)
  BY IdsKept, IdsAreIds, KeptStays DEF OnceInv
<1> USE MarksApart DEF Goes, Goto, Leave, send, IdOf, JobId
<1>1. ASSUME NEW d \in Clones, Clone(d) \/ StoreBegin(d) \/ Tell(d) PROVE Once
  <2>1. UNCHANGED <<id, queryMap, at, query, answers>>
    BY <1>1 DEF Clone, StoreBegin, Tell
  <2>2. QED
    BY <1>0, <2>1
<1>2. ASSUME NEW d \in Clones, Store(d) PROVE Once
  <2>1. d # c
    BY <1>0, <1>2 DEF Store, Kept
  <2>2. QED
    BY <1>0, <1>2, <2>1 DEF Store, TypeOK
<1>3. ASSUME NEW p \in Responders, NEW d \in Clones, Respond(p, d) PROVE Once
  <2>1. \A q \in Responders : q # p => at'[q] = at[q]
    BY <1>3 DEF Respond, TypeOK
  <2>2. at[p] = "idle" /\ UNCHANGED <<queryMap, query, answers>>
    BY <1>3 DEF Respond
  <2>3. QED
    BY <1>0, <2>1, <2>2
<1>4. ASSUME NEW p \in Responders, Find(p) PROVE Once
  <2>1. \A q \in Responders : q # p => at'[q] = at[q] /\ query'[q] = query[q]
    BY <1>4 DEF Find, TypeOK
  <2>2. at[p] = "find" /\ query'[p] \in {query[p], NoClone} /\ UNCHANGED <<queryMap, answers>>
    BY <1>4 DEF Find, TypeOK
  <2>3. QED
    BY <1>0, <2>1, <2>2
<1>5. ASSUME NEW p \in Responders, Fetch(p) PROVE Once
  <2>1. \A q \in Responders : q # p => at'[q] = at[q] /\ query'[q] = query[q]
    BY <1>5 DEF Fetch, TypeOK
  <2>2. at[p] = "fetch" /\ query'[p] \in {Fetched(p), NullClone} /\ JobId(p) \in Ids /\ UNCHANGED answers
    BY <1>5, <1>f DEF TypeOK, FetchOutcome
  <2>3. Fetched(p) = c => queryMap[IdOf(c)] = c
    BY <2>2 DEF Fetched, MapInv
  <2>4. queryMap[IdOf(c)] # c => queryMap'[IdOf(c)] # c
    BY <1>0, <1>5, <2>2, <2>3, <1>f DEF TypeOK, FetchOutcome
  <2>5. QED
    BY <1>0, <2>1, <2>2, <2>3, <2>4
<1>6. ASSUME NEW p \in Responders, Reply(p) PROVE Once
  <2>1. \A q \in Responders : q # p => at'[q] = at[q] /\ query'[q] = query[q]
    BY <1>6 DEF Reply, GiveUp, TypeOK
  <2>2. at[p] = "reply" /\ UNCHANGED <<queryMap, id>>
    BY <1>6 DEF Reply, GiveUp
  <2>3. ASSUME answers'[c] = answers[c], query'[p] \in {query[p], NoClone} PROVE Once
    BY <1>0, <2>1, <2>2, <2>3
  <2>4. ASSUME query[p] = c, answers'[c] = Append(answers[c], job[p]), at'[p] = "drop", query'[p] = query[p]
        PROVE  Once
    <3>1. handler[c] \in Kept /\ IdOf(c) = JobId(p) /\ job[p] \in Clones
      BY <2>2, <2>4, IdsAreIds DEF CopyInv
    <3>2. IdOf(c) \notin shared' \cup torn' => ~Spent(c)
      BY <1>0, <2>2, <2>4, <3>1 DEF AloneInv, CopyInv
    <3>3. IdOf(c) \notin shared' \cup torn' => answers[c] = <<>>
      BY <1>0, <3>2
    <3>4. Len(Append(<<>>, job[p])) = 1
      OBVIOUS
    <3>5. QED
      BY <1>0, <2>4, <3>1, <3>3, <3>4, KeptStays
  <2>5. CASE GiveUp(p) /\ UNCHANGED answers
    <3>1. answers'[c] = answers[c] /\ query'[p] = NoClone
      BY <2>5 DEF GiveUp, TypeOK
    <3>2. QED
      BY <2>3, <3>1
  <2>6. CASE ~(GiveUp(p) /\ UNCHANGED answers)
    <3>1. /\ query[p] \in Clones /\ answers' = [answers EXCEPT ![query[p]] = Append(@, job[p])]
          /\ at' = [at EXCEPT ![p] = "drop"] /\ UNCHANGED query
      BY <1>6, <2>6 DEF Reply
    <3>2. at'[p] = "drop" /\ query'[p] = query[p]
      BY <3>1 DEF TypeOK
    <3>3. query[p] = c => answers'[c] = Append(answers[c], job[p])
      BY <3>1 DEF TypeOK
    <3>4. query[p] # c => answers'[c] = answers[c]
      BY <3>1 DEF TypeOK
    <3>5. QED
      BY <2>3, <2>4, <3>2, <3>3, <3>4
  <2>7. QED
    BY <2>5, <2>6
<1>7. ASSUME NEW p \in Responders, Drop(p) PROVE Once
  <2>1. \A q \in Responders : q # p => at'[q] = at[q]
    BY <1>7 DEF Drop, TypeOK
  <2>2. at'[p] = "erase" /\ UNCHANGED <<queryMap, query, answers>>
    BY <1>7 DEF Drop, TypeOK
  <2>3. QED
    BY <1>0, <2>1, <2>2
<1>8. ASSUME NEW p \in Responders, Erase(p) PROVE Once
  <2>1. \A q \in Responders : q # p => at'[q] = at[q] /\ query'[q] = query[q]
    BY <1>8 DEF Erase, TypeOK
  <2>2. at[p] = "erase" /\ query'[p] = NoClone /\ JobId(p) \in Ids /\ UNCHANGED answers
    BY <1>8, <1>e DEF TypeOK, EraseOutcome
  <2>3. queryMap[IdOf(c)] # c => queryMap'[IdOf(c)] # c
    <3>1. \A i \in Ids : queryMap'[i] \in {queryMap[i], NoClone}
      BY <1>8, <1>e DEF TypeOK, EraseOutcome
    <3>2. QED
      BY <1>0, <3>1
  <2>4. ASSUME query[p] = c, IdOf(c) \notin shared' \cup torn'
        PROVE  queryMap'[IdOf(c)] # c /\ \A q \in Responders : query'[q] # c
    <3>1. IdOf(c) = JobId(p)
      BY <2>4 DEF CopyInv
    <3>2. \A q \in Responders : q # p => query[q] # c
      BY <1>0, <2>2, <2>4, <3>1 DEF AloneInv, CopyInv, TypeOK
    <3>3. queryMap'[IdOf(c)] = NoClone
      BY <1>0, <1>8, <2>4, <3>1, <1>e DEF TypeOK, EraseOutcome
    <3>4. QED
      BY <2>1, <2>2, <3>2, <3>3
  <2>5. QED
    BY <1>0, <2>1, <2>2, <2>3, <2>4
<1>9. ASSUME UNCHANGED <<id, handler, live, queryMap, send, answers, torn>> PROVE Once
  BY <1>0, <1>9
<1>10. QED
  BY <1>1, <1>2, <1>3, <1>4, <1>5, <1>6, <1>7, <1>8, <1>9, NextCases

(* A responder has a clone of the id its response was made for. *)
LEMMA AnswerStep ==
  ASSUME TypeOK, CopyInv, AnswerMatches, [Next]_vars
  PROVE  AnswerMatches'
<1>0. id' = id
  BY IdsKept
<1>1. ASSUME NEW p \in Responders, Reply(p) PROVE AnswerMatches'
  <2>1. CASE UNCHANGED answers
    BY <1>0, <2>1 DEF AnswerMatches, IdOf
  <2>2. CASE query[p] \in Clones /\ answers' = [answers EXCEPT ![query[p]] = Append(@, job[p])]
    <3>1. job[p] \in Clones /\ IdOf(job[p]) = IdOf(query[p])
      BY <1>1, <2>2, IdsAreIds DEF Reply, CopyInv, JobId
    <3>2. answers[query[p]] \in Seq(Clones)
      BY <2>2 DEF TypeOK
    <3>3. ToSet(answers'[query[p]]) = ToSet(answers[query[p]]) \cup {job[p]}
      BY <2>2, <3>1, <3>2, Appended DEF TypeOK
    <3>4. \A c \in Clones : c # query[p] => answers'[c] = answers[c]
      BY <2>2 DEF TypeOK
    <3>5. QED
      BY <1>0, <3>1, <3>3, <3>4 DEF AnswerMatches, IdOf
  <2>3. QED
    BY <1>1, <2>1, <2>2 DEF Reply
<1>2. CASE UNCHANGED answers
  BY <1>0, <1>2 DEF AnswerMatches, IdOf
<1>3. QED
  BY <1>1, <1>2, NextCases DEF Clone, StoreBegin, Store, Tell, Respond, Find, Fetch, Drop, Erase

-----------------------------------------------------------------------------
LEMMA IInvInit == Init => IInv
<1> SUFFICES ASSUME Init PROVE IInv
  OBVIOUS
<1>1. TypeOK
  BY MarksApart, MaxAnswersNat DEF Init, TypeOK
<1>2. MapInv /\ CopyInv /\ LiveInv /\ StrandInv /\ OneInv
  BY MarksApart DEF Init, MapInv, CopyInv, LiveInv, StrandInv, OneInv, Kept
<1>3. AloneInv /\ OnceInv /\ QueriesLive
  BY DEF Init, AloneInv, OnceInv, QueriesLive
<1>4. AnswerMatches
  BY DEF Init, AnswerMatches, ToSet
<1>5. QED
  BY <1>1, <1>2, <1>3, <1>4 DEF IInv

LEMMA IInvStep == IInv /\ [Next]_vars => IInv'
<1> SUFFICES ASSUME IInv, [Next]_vars PROVE IInv'
  OBVIOUS
<1>1. TypeOK' /\ MapInv' /\ CopyInv' /\ LiveInv'
  BY TypeOKStep, MapStep DEF IInv
<1>2. StrandInv' /\ OneInv' /\ AloneInv'
  BY <1>1, StrandStep, OneStep, AloneStep DEF IInv
<1>3. QueriesLive' /\ OnceInv' /\ AnswerMatches'
  BY <1>1, QueriesLiveStep, OnceStep, AnswerStep DEF IInv
<1>4. QED
  BY <1>1, <1>2, <1>3 DEF IInv

(* The inductive invariant of every behaviour. *)
LEMMA Inductive == Spec => []IInv
  BY IInvInit, IInvStep, PTL DEF Spec

(* A responder holds a query only between fetching it and leaving, and the *)
(* response it was called with throughout.                                 *)
THEOREM TypeCorrect == Spec => []TypeOK
<1>1. IInv => TypeOK
  BY DEF IInv
<1>2. QED
  BY Inductive, <1>1, PTL

(* sendQueryable() never answers a query with a response to another id,    *)
(* however calls of it and of QueryHandler() race on queryMap_.            *)
THEOREM AnswersMatch == Spec => []AnswerMatches
<1>1. IInv => AnswerMatches
  BY DEF IInv
<1>2. QED
  BY Inductive, <1>1, PTL

(* Only a missed lookup or the reuse of an id keeps a stored, readable     *)
(* request from being found by the responder it waits for.                 *)
THEOREM NoneStranded == Spec => []NoQueryStranded
<1>1. IInv => NoQueryStranded
  <2>1. SUFFICES ASSUME IInv, NEW c \in live
                 PROVE  \/ handler[c] \in {"store", "storing", "unread", "refused"}
                        \/ queryMap[IdOf(c)] = c \/ IdOf(c) \in torn
                        \/ \E d \in Clones \ {c} : IdOf(d) = IdOf(c) /\ handler[d] \in Kept
    BY DEF NoQueryStranded, Kept
  <2>2. handler[c] \in {"store", "storing", "stored", "told", "unread", "refused"}
    BY <2>1 DEF IInv, TypeOK, LiveInv
  <2>3. QED
    BY <2>1, <2>2 DEF IInv, StrandInv
<1>2. QED
  BY Inductive, <1>1, PTL

(* As long as no lookup missed an id, of the queries stored under it one   *)
(* was answered or has the entry, whatever stores, sends and erases race.  *)
THEOREM OneIsAnswerable == Spec => []OneAnswerable
<1>1. IInv => OneAnswerable
  <2>1. SUFFICES ASSUME IInv, NEW i \in Ids \ torn, NEW c \in Clones, IdOf(c) = i, handler[c] \in Kept
                 PROVE  \/ queryMap[i] \in {d \in Clones : IdOf(d) = i /\ handler[d] \in Kept}
                        \/ \E d \in Clones : IdOf(d) = i /\ handler[d] \in Kept /\ answers[d] # <<>>
    BY DEF OneAnswerable, Kept
  <2>2. \/ queryMap[i] \in Clones
        \/ \E d \in Clones : IdOf(d) = i /\ handler[d] \in Kept /\ answers[d] # <<>>
    BY <2>1 DEF IInv, OneInv
  <2>3. queryMap[i] \in Clones => IdOf(queryMap[i]) = i /\ handler[queryMap[i]] \in Kept
    BY <2>1 DEF IInv, MapInv
  <2>4. QED
    BY <2>2, <2>3
<1>2. QED
  BY Inductive, <1>1, PTL

(* sendQueryable() replies once to each query of an id that one responder  *)
(* at a time works on and no lookup missed.                                *)
THEOREM OneReplyAlone == Spec => []RepliedOnceAlone
<1>1. IInv => RepliedOnceAlone
  <2>1. SUFFICES ASSUME IInv, NEW c \in Clones, IdOf(c) \notin shared \cup torn PROVE Len(answers[c]) <= 1
    BY DEF RepliedOnceAlone
  <2>2. CASE answers[c] = <<>>
    BY <2>2
  <2>3. CASE answers[c] # <<>>
    <3>1. Len(answers[c]) = 1
      BY <2>1, <2>3 DEF IInv, OnceInv
    <3>2. QED
      BY <3>1
  <2>4. QED
    BY <2>2, <2>3
<1>2. QED
  BY Inductive, <1>1, PTL

(* For such an id what the map names and what a responder replies to has   *)
(* not been dropped.                                                       *)
THEOREM NoDroppedQuery == Spec => []QueriesLive
<1>1. IInv => QueriesLive
  BY DEF IInv
<1>2. QED
  BY Inductive, <1>1, PTL
==============================================================================
