------------------------------ MODULE RpcClient ------------------------------
(***************************************************************************)
(* The asking side of ZenohRpcClient.  invokeMethod() sends a query and    *)
(* has a thread of the pool collect the replies (handleReply) from a       *)
(* channel of bounded size.  zenoh hands over replies in one thread, which *)
(* waits while a channel is full, and closes the channel of a query when   *)
(* it is over or has timed out.                                            *)
(***************************************************************************)
EXTENDS Integers, Sequences, FiniteSets, SequencesExt

CONSTANTS
  Requests,     (* the calls of invokeMethod()                             *)
  Workers,      (* maxNumOfCuncurrentRequests_, the threads of the pool    *)
  ChannelSize,  (* the replies a channel holds                             *)
  MaxReplies    (* bounds the replies sent in a behaviour                  *)

ASSUME SizesPositive == Workers \in Nat \ {0} /\ ChannelSize \in Nat \ {0}
ASSUME MaxRepliesNat == MaxReplies \in Nat

VARIABLES
  at,       (* where invokeMethod() and handleReply() are with each request *)
  queue,    (* external: the calls of handleReply that wait for a thread   *)
  result,   (* the number of the reply the future will have, 0 for none    *)
  wire,     (* external: the replies zenoh has yet to hand over            *)
  channel,  (* external: those in the channel of each request              *)
  closed,   (* external: zenoh has closed the channel                      *)
  sent,     (* external: the replies sent                                  *)
  entered   (* history: the replies that got into each channel             *)

asking == <<at, queue, result>>
zenoh  == <<wire, channel, closed, sent, entered>>
vars   == <<asking, zenoh>>

Replies == [num : 1..MaxReplies, good : BOOLEAN]
Working == {r \in Requests : at[r] = "working"}

TypeOK ==
  /\ at \in [Requests -> {"idle", "failed", "sent", "queued", "working", "done"}]
  /\ \A r \in Requests : Cardinality({i \in DOMAIN queue : queue[i] = r}) = IF at[r] = "queued" THEN 1 ELSE 0
  /\ Cardinality(Working) <= Workers
  /\ result \in [Requests -> 0..MaxReplies]
  /\ wire \in Seq(Requests \X Replies)
  /\ channel \in [Requests -> Seq(Replies)] /\ entered \in [Requests -> Seq(Replies)]
  /\ \A r \in Requests : Len(channel[r]) <= ChannelSize
  /\ closed \in [Requests -> BOOLEAN]
  /\ sent \in 0..MaxReplies

Init ==
  /\ at = [r \in Requests |-> "idle"]
  /\ queue = <<>>
  /\ result = [r \in Requests |-> 0]
  /\ wire = <<>>
  /\ channel = [r \in Requests |-> <<>>]
  /\ closed = [r \in Requests |-> FALSE]
  /\ sent = 0
  /\ entered = [r \in Requests |-> <<>>]

Goto(r, l) == at' = [at EXCEPT ![r] = l]

-----------------------------------------------------------------------------
(* The future is returned empty when the call is refused or z_get fails.   *)
Invoke(r) ==
  /\ at[r] = "idle"
  /\ Goto(r, "failed") \/ Goto(r, "sent")
  /\ UNCHANGED <<queue, result, zenoh>>

Submit(r) ==
  /\ at[r] = "sent"
  /\ Goto(r, "queued")
  /\ queue' = Append(queue, r)
  /\ UNCHANGED <<result, zenoh>>

(* Mutant: the queue is read and not popped. *)
SameQueue == queue

(* What is left in the queue when a thread has taken a call from it. *)
RestOfQueue == Tail(queue)

(* External: a free thread of the pool takes the next call. *)
Take ==
  /\ queue # <<>> /\ Cardinality(Working) < Workers
  /\ Goto(Head(queue), "working")
  /\ queue' = RestOfQueue
  /\ UNCHANGED <<result, zenoh>>

(* Mutant: a channel that is closed is left unread. *)
EndsEarly(r) == closed[r] \/ (channel[r] # <<>> /\ ~Head(channel[r]).good)

(* Mutant: the loop waits for a reply that it can use. *)
EndsWithResult(r) == channel[r] = <<>> /\ closed[r] /\ result[r] # 0

(* The loop ends with the channel, or with an error, or with a reply that  *)
(* handleReply() cannot read.                                              *)
Ends(r) == IF channel[r] = <<>> THEN closed[r] ELSE ~Head(channel[r]).good

(* handleReply(): of the good replies the last one counts. *)
Collect(r) ==
  /\ at[r] = "working"
  /\ \/ /\ channel[r] # <<>> /\ Head(channel[r]).good
        /\ result' = [result EXCEPT ![r] = Head(channel[r]).num]
        /\ channel' = [channel EXCEPT ![r] = Tail(@)]
        /\ UNCHANGED at
     \/ Ends(r) /\ Goto(r, "done") /\ UNCHANGED <<result, channel>>
  /\ UNCHANGED <<queue, wire, closed, sent, entered>>

-----------------------------------------------------------------------------
(* External: zenoh *)

(* A queryable, here or elsewhere, replies; perhaps too late. *)
Reply(r, good) ==
  /\ at[r] \notin {"idle", "failed"} /\ sent < MaxReplies
  /\ sent' = sent + 1
  /\ wire' = Append(wire, <<r, [num |-> sent', good |-> good]>>)
  /\ UNCHANGED <<asking, channel, closed, entered>>

(* A channel without a reader, or closed, takes no reply. *)
Listens(r) == at[r] # "done" /\ ~closed[r]
Stuck(r)   == wire # <<>> /\ Head(wire)[1] = r /\ Listens(r) /\ Len(channel[r]) = ChannelSize

Deliver ==
  LET r == Head(wire)[1]  reply == Head(wire)[2] IN
  /\ wire # <<>> /\ ~Stuck(r)
  /\ wire' = Tail(wire)
  /\ IF Listens(r)
     THEN /\ channel' = [channel EXCEPT ![r] = Append(@, reply)]
          /\ entered' = [entered EXCEPT ![r] = Append(@, reply)]
     ELSE UNCHANGED <<channel, entered>>
  /\ UNCHANGED <<asking, closed, sent>>

(* After requestTimeoutMs_ at the latest; but a delivery that waits for    *)
(* room in the channel keeps it from closing.                              *)
Close(r) ==
  /\ at[r] \in {"sent", "queued", "working"} /\ ~closed[r] /\ ~Stuck(r)
  /\ closed' = [closed EXCEPT ![r] = TRUE]
  /\ UNCHANGED <<asking, wire, channel, sent, entered>>

-----------------------------------------------------------------------------
Next ==
  \/ \E r \in Requests :
       \/ Invoke(r) \/ Submit(r) \/ Collect(r) \/ Close(r)
       \/ \E good \in BOOLEAN : Reply(r, good)
  \/ Take \/ Deliver

(* Threads of the application and the pool run on, zenoh hands over what   *)
(* it can and times out every query; nobody need ever reply.               *)
Fairness ==
  /\ WF_vars(Take) /\ WF_vars(Deliver)
  /\ \A r \in Requests : WF_vars(Submit(r)) /\ WF_vars(Collect(r)) /\ WF_vars(Close(r))

Spec == Init /\ [][Next]_vars /\ Fairness

-----------------------------------------------------------------------------
(* Properties *)

(* The payload of a future is that of the last reply before the first one  *)
(* that is an error or cannot be read, of those that got into the channel  *)
(* in time: neither the timeout, nor the wait for a thread of the pool, nor *)
(* a full channel loses a reply that got in.                               *)
GoodPrefix(s) == {i \in DOMAIN s : \A j \in 1..i : s[j].good}
PrefixDecides ==
  \A r \in Requests : at[r] = "done" =>
    result[r] = IF GoodPrefix(entered[r]) = {} THEN 0
                ELSE entered[r][Cardinality(GoodPrefix(entered[r]))].num

(* Every future completes, although nobody need answer, requests wait for  *)
(* a thread of the pool, and a full channel of one that waits holds up the *)
(* replies to all: the timeouts of those that have a thread free it.       *)
FutureCompletes == \A r \in Requests : at[r] = "sent" ~> at[r] = "done"

==============================================================================
