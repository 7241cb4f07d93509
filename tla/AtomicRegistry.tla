--------------------------- MODULE AtomicRegistry ---------------------------
(***************************************************************************)
(* What registerListener() and unregisterListener() promise: each takes    *)
(* effect at one moment between its call and its return, and a listener    *)
(* hears the messages that arrived while it was served, and no others.     *)
(***************************************************************************)
CONSTANTS Threads, Uris, Listeners, Messages

VARIABLES
  served,   (* the pairs of a URI and a listener registered for it         *)
  known,    (* the URIs for which a listener was ever registered           *)
  asked,    (* the call of each thread that has not taken effect           *)
  answer,   (* the status of its latest call, from the moment of effect    *)
  arrived,  (* the messages that have arrived                              *)
  owed,     (* the calls of onReceive still due                            *)
  heard,    (* those made                                                  *)
  gone      (* the transport is destroyed                                  *)

vars   == <<served, known, asked, answer, arrived, owed, heard, gone>>
NoCall == <<>>

Init ==
  /\ served = {} /\ known = {} /\ arrived = {} /\ owed = {} /\ heard = {}
  /\ asked = [t \in Threads |-> NoCall]
  /\ answer = [t \in Threads |-> "none"]
  /\ gone = FALSE

Ask(t, call) ==
  /\ asked[t] = NoCall /\ ~gone
  /\ asked' = [asked EXCEPT ![t] = call]
  /\ answer' = [answer EXCEPT ![t] = "none"]
  /\ UNCHANGED <<served, known, arrived, owed, heard, gone>>

Answer(t, code) ==
  /\ asked' = [asked EXCEPT ![t] = NoCall]
  /\ answer' = [answer EXCEPT ![t] = code]
  /\ UNCHANGED <<arrived, owed, heard, gone>>

Register(t, u, l) ==
  /\ asked[t] = <<"register", u, l>>
  /\ \/ <<u, l>> \in served /\ Answer(t, "INVALID_ARGUMENT") /\ UNCHANGED <<served, known>>
     \/ <<u, l>> \notin served /\ Answer(t, "INTERNAL") /\ UNCHANGED <<served, known>>
     \/ /\ <<u, l>> \notin served /\ Answer(t, "OK")
        /\ served' = served \cup {<<u, l>>}
        /\ known' = known \cup {u}

Unregister(t, u, l) ==
  /\ asked[t] = <<"unregister", u, l>>
  /\ Answer(t, IF u \in known THEN "OK" ELSE "INVALID_ARGUMENT")
  /\ served' = served \ {<<u, l>>}
  /\ UNCHANGED known

Arrive(m, u) ==
  /\ m \notin arrived
  /\ arrived' = arrived \cup {m}
  /\ owed' = owed \cup {<<m, p[1], p[2]>> : p \in {q \in served : q[1] = u}}
  /\ UNCHANGED <<served, known, asked, answer, heard, gone>>

(* A message whose header cannot be read is passed over. *)
Deliver(call) ==
  /\ call \in owed
  /\ owed' = owed \ {call}
  /\ heard' \in {heard, heard \cup {call}}
  /\ UNCHANGED <<served, known, asked, answer, arrived, gone>>

Leave ==
  /\ gone' = TRUE
  /\ served' \in SUBSET served
  /\ known' = {}
  /\ UNCHANGED <<asked, answer, arrived, owed, heard>>

Next ==
  \/ \E t \in Threads, u \in Uris, l \in Listeners :
       \/ Ask(t, <<"register", u, l>>) \/ Ask(t, <<"unregister", u, l>>)
       \/ Register(t, u, l) \/ Unregister(t, u, l)
  \/ \E m \in Messages, u \in Uris : Arrive(m, u)
  \/ \E call \in owed : Deliver(call)
  \/ Leave

Spec == Init /\ [][Next]_vars
=============================================================================
