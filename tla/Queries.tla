------------------------------- MODULE Queries -------------------------------
(***************************************************************************)
(* The answering side of a request in ZenohUTransport: QueryHandler()      *)
(* keeps a clone of the query in queryMap_ under the id of the request,    *)
(* and send() of a response (sendQueryable) finds it there, replies to it, *)
(* drops it and erases the entry.  Nothing guards queryMap_.               *)
(***************************************************************************)
EXTENDS Integers, Sequences, FiniteSets, SequencesExt

CONSTANTS
  Requests,     (* the queries that arrive in a behaviour                  *)
  Ids,          (* the ids they carry: a caller may use one twice          *)
  Queryables,   (* the listeners registered for the method                 *)
  Responders,   (* the application threads that send responses             *)
  MaxAnswers    (* bounds the responses tried in a behaviour               *)

ASSUME MaxAnswersNat == MaxAnswers \in Nat

Clones    == Requests \X Queryables   (* external: those zenoh makes       *)
NoClone   == <<"none">>
NullClone == <<"null">>               (* what operator[] inserts           *)

VARIABLES
  id,        (* the id of each request                                     *)
  handler,   (* where QueryHandler is with each clone                      *)
  live,      (* external: the clones made and not dropped                  *)
  queryMap,  (* queryMap_, by id                                           *)
  at,        (* where each responder is in sendQueryable()                 *)
  job,       (* the clone its response was made for                        *)
  query,     (* its copy of the map's handle                               *)
  tries,     (* bounds: the responses tried                                *)
  answers,   (* history: the responses sent through each clone             *)
  shared,    (* history: ids two responders were busy with at once         *)
  torn       (* history: ids whose key operator[] or erase() missed        *)

send == <<at, job, query, tries>>
vars == <<id, handler, live, queryMap, send, answers, shared, torn>>

IdOf(c)  == id[c[1]]
JobId(p) == IdOf(job[p])

TypeOK ==
  /\ id \in [Requests -> Ids]
  /\ handler \in [Clones -> {"no", "store", "storing", "stored", "told", "unread", "refused"}]
  /\ live \subseteq Clones
  /\ queryMap \in [Ids -> Clones \cup {NoClone, NullClone}]
  /\ at \in [Responders -> {"idle", "find", "fetch", "reply", "drop", "erase"}]
  /\ job \in [Responders -> Clones \cup {NoClone}]
  /\ query \in [Responders -> Clones \cup {NoClone, NullClone}]
  /\ tries \in 0..MaxAnswers
  /\ answers \in [Clones -> Seq(Clones)]
  /\ shared \subseteq Ids /\ torn \subseteq Ids
  /\ \A p \in Responders :
       /\ job[p] = NoClone <=> at[p] = "idle"
       /\ query[p] = NoClone <=> at[p] \in {"idle", "find", "fetch"}

Init ==
  /\ id \in [Requests -> Ids]
  /\ handler = [c \in Clones |-> "no"]
  /\ live = {}
  /\ queryMap = [i \in Ids |-> NoClone]
  /\ at = [p \in Responders |-> "idle"]
  /\ job = [p \in Responders |-> NoClone]
  /\ query = [p \in Responders |-> NoClone]
  /\ tries = 0
  /\ answers = [c \in Clones |-> <<>>]
  /\ shared = {} /\ torn = {}

-----------------------------------------------------------------------------
(* QueryHandler(), in a thread of zenoh *)

Goes(c, from, to) == handler[c] = from /\ handler' = [handler EXCEPT ![c] = to]

(* A query without the header is left alone; otherwise it is cloned, and   *)
(* the clone is forgotten when the header cannot be read.                  *)
Clone(c) ==
  /\ \/ Goes(c, "no", "unread") /\ live' \in {live, live \cup {c}}
     \/ Goes(c, "no", "store") /\ live' = live \cup {c}
  /\ UNCHANGED <<id, queryMap, send, answers, torn>>

StoreBegin(c) ==
  /\ Goes(c, "store", "storing")
  /\ UNCHANGED <<id, live, queryMap, send, answers, torn>>

(* Whatever the entry held is overwritten. *)
Store(c) ==
  /\ Goes(c, "storing", "stored")
  /\ queryMap' = [queryMap EXCEPT ![IdOf(c)] = c]
  /\ UNCHANGED <<id, live, send, answers, torn>>

(* A message that is no request is refused only after it was stored. *)
Tell(c) ==
  /\ Goes(c, "stored", "told") \/ Goes(c, "stored", "refused")
  /\ UNCHANGED <<id, live, queryMap, send, answers, torn>>

-----------------------------------------------------------------------------
(* sendQueryable(), in a thread of the application *)

Goto(p, l) == at' = [at EXCEPT ![p] = l]

(* Mutant: the copy of the handle survives the call. *)
LeaveHolding(p) == Goto(p, "idle") /\ job' = [job EXCEPT ![p] = NoClone] /\ UNCHANGED query

Leave(p) ==
  /\ Goto(p, "idle")
  /\ job' = [job EXCEPT ![p] = NoClone]
  /\ query' = [query EXCEPT ![p] = NoClone]

Respond(p, c) ==
  /\ at[p] = "idle" /\ handler[c] = "told" /\ tries < MaxAnswers
  /\ Goto(p, "find")
  /\ job' = [job EXCEPT ![p] = c]
  /\ tries' = tries + 1
  /\ UNCHANGED <<id, handler, live, queryMap, query, answers, torn>>

(* Beside an insertion a lookup may miss a key that is there. *)
Misses(i) == queryMap[i] # NoClone /\ \E c \in Clones : handler[c] = "storing"

Find(p) ==
  /\ at[p] = "find"
  /\ \/ queryMap[JobId(p)] # NoClone /\ Goto(p, "fetch") /\ UNCHANGED <<job, query>>
     \/ (queryMap[JobId(p)] = NoClone \/ Misses(JobId(p))) /\ Leave(p)
  /\ UNCHANGED <<id, handler, live, queryMap, tries, answers, torn>>

(* Mutant: the entry at begin(), whatever its key. *)
FetchedAny(p) ==
  LET held == {queryMap[i] : i \in Ids} \cap Clones
  IN  IF held = {} THEN NullClone ELSE CHOOSE c \in held : TRUE

(* operator[] inserts an empty entry when the key has gone since. *)
Fetched(p) == IF queryMap[JobId(p)] = NoClone THEN NullClone ELSE queryMap[JobId(p)]

(* When it misses the key it inserts an empty entry beside the one that is *)
(* there; later lookups find one of the two, whichever it is.              *)
Fetch(p) ==
  /\ at[p] = "fetch"
  /\ \/ /\ queryMap' = [queryMap EXCEPT ![JobId(p)] = Fetched(p)]
        /\ query' = [query EXCEPT ![p] = Fetched(p)]
        /\ UNCHANGED torn
     \/ /\ Misses(JobId(p))
        /\ queryMap' \in {queryMap, [queryMap EXCEPT ![JobId(p)] = NullClone]}
        /\ query' = [query EXCEPT ![p] = NullClone]
        /\ torn' = torn \cup {JobId(p)}
  /\ Goto(p, "reply")
  /\ UNCHANGED <<id, handler, live, job, tries, answers>>

(* Mutant: the entry is kept. *)
MapWith(i) == queryMap

(* The entry is erased by its key, whatever it holds by now. *)
MapWithout(i) == [queryMap EXCEPT ![i] = NoClone]

(* Mutant: a reply that failed drops the query all the same. *)
GiveUpDropping(p) == live' = live \ {query[p]} /\ UNCHANGED queryMap /\ Leave(p)

(* Mutant: a reply that failed erases the entry all the same. *)
GiveUpErasing(p) == queryMap' = MapWithout(JobId(p)) /\ UNCHANGED live /\ Leave(p)

(* The encoding, the header or zenoh may refuse: the entry stays. *)
GiveUp(p) == UNCHANGED <<live, queryMap>> /\ Leave(p)

Reply(p) ==
  /\ at[p] = "reply"
  /\ \/ GiveUp(p) /\ UNCHANGED answers
     \/ /\ query[p] \in Clones
        /\ answers' = [answers EXCEPT ![query[p]] = Append(@, job[p])]
        /\ Goto(p, "drop")
        /\ UNCHANGED <<live, queryMap, job, query>>
  /\ UNCHANGED <<id, handler, tries, torn>>

(* Mutant: the query is replied to and not dropped. *)
StillLive(p) == live

(* z_drop of the copy drops the clone, which the map still names. *)
LiveWithout(p) == live \ {query[p]}

Drop(p) ==
  /\ at[p] = "drop"
  /\ live' = LiveWithout(p)
  /\ Goto(p, "erase")
  /\ UNCHANGED <<id, handler, queryMap, job, query, tries, answers, torn>>

Erase(p) ==
  /\ at[p] = "erase"
  /\ \/ queryMap' = MapWithout(JobId(p)) /\ UNCHANGED torn
     \/ Misses(JobId(p)) /\ torn' = torn \cup {JobId(p)} /\ UNCHANGED queryMap
  /\ Leave(p)
  /\ UNCHANGED <<id, handler, live, tries, answers>>

-----------------------------------------------------------------------------
HandlerStep(c) == Clone(c) \/ StoreBegin(c) \/ Store(c) \/ Tell(c)
SendStep(p) ==
  \/ \E c \in Clones : Respond(p, c)
  \/ Find(p) \/ Fetch(p) \/ Reply(p) \/ Drop(p) \/ Erase(p)

Busy(p, i) == at[p] # "idle" /\ JobId(p) = i

Next ==
  /\ (\E c \in Clones : HandlerStep(c)) \/ (\E p \in Responders : SendStep(p))
  /\ shared' = shared \cup
       {i \in Ids : \E p, q \in Responders : p # q /\ (Busy(p, i) /\ Busy(q, i))'}

Spec == Init /\ [][Next]_vars

-----------------------------------------------------------------------------
(* Properties *)

(* sendQueryable(), line 250: once replied the uuid cannot be reused.      *)
RepliedOnce == \A c \in Clones : Len(answers[c]) <= 1

(* It is so when no two responders work on one id at the same time, nor a  *)
(* lookup missed it, however often responses are tried and refused.        *)
RepliedOnceAlone == \A c \in Clones : IdOf(c) \notin shared \cup torn => Len(answers[c]) <= 1

(* Then, too, a responder replies to and drops a query that lives, and so  *)
(* does what the map holds, unless its responder is about to erase it.     *)
QueriesLive ==
  /\ \A i \in Ids \ (shared \cup torn) :
       queryMap[i] \in live \cup {NoClone} \/ \E p \in Responders : at[p] = "erase" /\ query[p] = queryMap[i]
  /\ \A p \in Responders :
       at[p] \in {"reply", "drop"} /\ JobId(p) \notin shared \cup torn => query[p] \in live

(* A query that nobody can answer or drop any more was unreadable, was no  *)
(* request, was missed, or lost its entry to another query of the same id. *)
NoQueryStranded ==
  \A c \in live :
    \/ handler[c] \in {"store", "storing", "unread", "refused"} \/ IdOf(c) \in torn
    \/ queryMap[IdOf(c)] = c \/ \E p \in Responders : query[p] = c
    \/ \E d \in Clones \ {c} : IdOf(d) = IdOf(c) /\ handler[d] \in {"stored", "told", "refused"}

(* However queries of one id overwrite each other (line 491), are erased   *)
(* under one another (line 251) or are fought over by responders, one of   *)
(* those stored was answered or still has the entry.                       *)
OneAnswerable ==
  \A i \in Ids \ torn :
    LET kept == {c \in Clones : IdOf(c) = i /\ handler[c] \in {"stored", "told", "refused"}} IN
    kept # {} => queryMap[i] \in kept \/ \E c \in kept : answers[c] # <<>>

(* Whoever races, what a query is answered with was meant for its id.      *)
AnswerMatches == \A c \in Clones : \A d \in ToSet(answers[c]) : IdOf(d) = IdOf(c)
==============================================================================
