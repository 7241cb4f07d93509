--------------------------- MODULE RpcClientProofs ---------------------------
(***************************************************************************)
(* Proofs about RpcClient, for any set of requests, every size of the pool *)
(* and of a channel, and every bound on the replies.                       *)
(***************************************************************************)
EXTENDS RpcClient, FiniteSetTheorems, SequenceTheorems, TLAPS

(* The sequence q lists each member of S once. *)
Lists(q, S) ==
  /\ q \in Seq(S)
  /\ \A i, j \in 1..Len(q) : q[i] = q[j] => i = j
  /\ \A x \in S : \E i \in 1..Len(q) : q[i] = x

(* The replies c waiting in a channel are the end of those, e, that got    *)
(* into it; the others were good, and the last of them gave the result x.  *)
Decided(e, c, x) ==
  LET taken == Len(e) - Len(c) IN
  /\ taken \in Nat
  /\ \A i \in 1..Len(c) : c[i] = e[taken + i]
  /\ \A i \in 1..taken : e[i].good
  /\ x = IF taken = 0 THEN 0 ELSE e[taken].num

Queued == {r \in Requests : at[r] = "queued"}

(* The pool's queue has each call that waits for a thread once, and no     *)
(* more calls run than the pool has threads.                               *)
PoolInv == Lists(queue, Queued) /\ IsFiniteSet(Working)

(* A call ends with its channel read or at a reply that is not good.       *)
ResultInv ==
  \A r \in Requests :
    /\ Decided(entered[r], channel[r], result[r])
    /\ at[r] = "done" => channel[r] = <<>> \/ ~Head(channel[r]).good

IInv == TypeOK /\ PoolInv /\ ResultInv

-----------------------------------------------------------------------------
(* Lemmas about the operators on sequences *)

LEMMA ListsAppend ==
  ASSUME NEW S, NEW q, Lists(q, S), NEW x, x \notin S
  PROVE  Lists(Append(q, x), S \cup {x})
<1> DEFINE T == S \cup {x}
<1>1. q \in Seq(T)
  BY SeqMonotonic DEF Lists
<1>2. /\ Append(q, x) \in Seq(T) /\ Len(Append(q, x)) = Len(q) + 1
      /\ \A i \in 1..Len(q) : Append(q, x)[i] = q[i]
      /\ Append(q, x)[Len(q) + 1] = x /\ Len(q) \in Nat
  BY <1>1, AppendProperties, LenProperties
<1>3. \A i \in 1..Len(q) : q[i] \in S
  BY ElementOfSeq DEF Lists
<1>4. \A i, j \in 1..Len(Append(q, x)) : Append(q, x)[i] = Append(q, x)[j] => i = j
  <2>1. SUFFICES ASSUME NEW i \in 1..(Len(q) + 1), NEW j \in 1..(Len(q) + 1), Append(q, x)[i] = Append(q, x)[j]
                 PROVE  i = j
    BY <1>2
  <2>2. \A k \in 1..Len(q) : Append(q, x)[k] # x
    BY <1>2, <1>3
  <2>3. CASE i \in 1..Len(q) /\ j \in 1..Len(q)
    BY <1>2, <2>1, <2>3 DEF Lists
  <2>4. CASE ~(i \in 1..Len(q) /\ j \in 1..Len(q))
    <3>1. i = Len(q) + 1 \/ j = Len(q) + 1
      BY <1>2, <2>4
    <3>2. i = Len(q) + 1 /\ j = Len(q) + 1
      BY <1>2, <2>1, <2>2, <3>1
    <3>3. QED
      BY <3>2
  <2>5. QED
    BY <2>3, <2>4
<1>5. \A y \in T : \E i \in 1..Len(Append(q, x)) : Append(q, x)[i] = y
  BY <1>2 DEF Lists
<1>6. QED
  BY <1>2, <1>4, <1>5 DEF Lists

LEMMA ListsTail ==
  ASSUME NEW S, NEW q, Lists(q, S), q # <<>>
  PROVE  Head(q) \in S /\ Lists(Tail(q), S \ {Head(q)})
<1>1. /\ Head(q) \in S /\ Head(q) = q[1] /\ Len(q) \in Nat \ {0}
      /\ Tail(q) \in Seq(S) /\ Len(Tail(q)) = Len(q) - 1
      /\ \A i \in 1..Len(Tail(q)) : Tail(q)[i] = q[i + 1]
  BY HeadTailProperties, EmptySeq DEF Lists
<1>2. \A i \in 1..Len(Tail(q)) : Tail(q)[i] \in S /\ Tail(q)[i] # Head(q)
  BY <1>1, ElementOfSeq DEF Lists
<1>3. Tail(q) \in Seq(S \ {Head(q)})
  <2>1. Tail(q) \in [1..Len(Tail(q)) -> S \ {Head(q)}]
    BY <1>1, <1>2, LenProperties
  <2>2. Len(Tail(q)) \in Nat
    BY <1>1
  <2>3. QED
    BY <2>1, <2>2, SeqDef
<1>4. \A i, j \in 1..Len(Tail(q)) : Tail(q)[i] = Tail(q)[j] => i = j
  BY <1>1 DEF Lists
<1>5. ASSUME NEW y \in S \ {Head(q)} PROVE \E i \in 1..Len(Tail(q)) : Tail(q)[i] = y
  <2>1. PICK i \in 1..Len(q) : q[i] = y
    BY DEF Lists
  <2>2. i # 1
    BY <1>1, <2>1
  <2>3. i - 1 \in 1..Len(Tail(q)) /\ Tail(q)[i - 1] = y
    BY <1>1, <2>1, <2>2
  <2>4. QED
    BY <2>3
<1>6. QED
  BY <1>1, <1>3, <1>4, <1>5 DEF Lists

LEMMA ListsCount ==
  ASSUME NEW S, NEW q, Lists(q, S), NEW x
  PROVE  Cardinality({i \in DOMAIN q : q[i] = x}) = IF x \in S THEN 1 ELSE 0
<1>1. DOMAIN q = 1..Len(q) /\ \A i \in 1..Len(q) : q[i] \in S
  BY LenProperties, ElementOfSeq DEF Lists
<1>2. CASE x \in S
  <2>1. PICK k \in 1..Len(q) : q[k] = x
    BY <1>2 DEF Lists
  <2>2. {i \in DOMAIN q : q[i] = x} = {k}
    BY <1>1, <2>1 DEF Lists
  <2>3. QED
    BY <1>2, <2>2, FS_Singleton
<1>3. CASE x \notin S
  <2>1. {i \in DOMAIN q : q[i] = x} = {}
    BY <1>1, <1>3
  <2>2. QED
    BY <1>3, <2>1, FS_EmptySet
<1>4. QED
  BY <1>2, <1>3

(* A reply that gets into the channel changes nothing of the result. *)
LEMMA DecidedAppend ==
  ASSUME NEW S, NEW e \in Seq(S), NEW c \in Seq(S), NEW x, Decided(e, c, x), NEW m \in S
  PROVE  Decided(Append(e, m), Append(c, m), x)
<1>1. /\ Len(Append(e, m)) = Len(e) + 1 /\ Len(Append(c, m)) = Len(c) + 1
      /\ \A i \in 1..Len(e) : Append(e, m)[i] = e[i]
      /\ \A i \in 1..Len(c) : Append(c, m)[i] = c[i]
      /\ Append(e, m)[Len(e) + 1] = m /\ Append(c, m)[Len(c) + 1] = m
      /\ Len(e) \in Nat /\ Len(c) \in Nat
  BY AppendProperties, LenProperties
<1>2. Len(Append(e, m)) - Len(Append(c, m)) = Len(e) - Len(c)
  BY <1>1
<1> DEFINE taken == Len(e) - Len(c)
<1>3. ASSUME NEW i \in 1..Len(Append(c, m)) PROVE Append(c, m)[i] = Append(e, m)[taken + i]
  <2>1. CASE i \in 1..Len(c)
    <3>1. c[i] = e[taken + i] /\ taken + i \in 1..Len(e)
      BY <1>1, <2>1 DEF Decided
    <3>2. QED
      BY <1>1, <2>1, <3>1
  <2>2. CASE i = Len(c) + 1
    <3>1. taken + i = Len(e) + 1
      BY <1>1, <2>2
    <3>2. QED
      BY <1>1, <2>2, <3>1
  <2>3. i \in 1..Len(c) \/ i = Len(c) + 1
    BY <1>1
  <2>4. QED
    BY <2>1, <2>2, <2>3
<1>4. \A i \in 1..taken : Append(e, m)[i] = e[i]
  BY <1>1 DEF Decided
<1>5. taken # 0 => Append(e, m)[taken] = e[taken]
  BY <1>4 DEF Decided
<1>6. QED
  BY <1>2, <1>3, <1>4, <1>5 DEF Decided

(* A good reply that is taken from the channel becomes the result. *)
LEMMA DecidedTail ==
  ASSUME NEW S, NEW e \in Seq(S), NEW c \in Seq(S), NEW x, Decided(e, c, x), c # <<>>, Head(c).good
  PROVE  Decided(e, Tail(c), Head(c).num)
<1>1. /\ Head(c) = c[1] /\ Len(c) \in Nat \ {0} /\ Len(e) \in Nat
      /\ Len(Tail(c)) = Len(c) - 1
      /\ \A i \in 1..Len(Tail(c)) : Tail(c)[i] = c[i + 1]
  BY HeadTailProperties, EmptySeq, LenProperties
<1> DEFINE taken == Len(e) - Len(c)
<1>2. Len(e) - Len(Tail(c)) = taken + 1 /\ taken \in Nat
  BY <1>1 DEF Decided
<1>3. Head(c) = e[taken + 1]
  BY <1>1 DEF Decided
<1>4. ASSUME NEW i \in 1..Len(Tail(c)) PROVE Tail(c)[i] = e[(taken + 1) + i]
  <2>1. c[i + 1] = e[taken + (i + 1)]
    BY <1>1 DEF Decided
  <2>2. taken + (i + 1) = (taken + 1) + i
    BY <1>2
  <2>3. QED
    BY <1>1, <2>1, <2>2
<1>5. \A i \in 1..(taken + 1) : e[i].good
  BY <1>2, <1>3 DEF Decided
<1>6. QED
  BY <1>2, <1>3, <1>4, <1>5 DEF Decided

(* With the channel read, or at a reply that is not good, the result is    *)
(* that of the last reply of the good prefix.                              *)
LEMMA DecidedPrefix ==
  ASSUME NEW S, NEW e \in Seq(S), NEW c \in Seq(S), NEW x, Decided(e, c, x),
         c = <<>> \/ ~Head(c).good
  PROVE  x = IF GoodPrefix(e) = {} THEN 0 ELSE e[Cardinality(GoodPrefix(e))].num
<1> DEFINE taken == Len(e) - Len(c)
<1>1. taken \in Nat /\ Len(e) \in Nat /\ Len(c) \in Nat /\ DOMAIN e = 1..Len(e)
  BY LenProperties DEF Decided
<1>2. taken < Len(e) => ~e[taken + 1].good
  <2>1. SUFFICES ASSUME taken < Len(e) PROVE ~e[taken + 1].good
    OBVIOUS
  <2>2. 1 \in 1..Len(c) /\ c # <<>>
    BY <1>1, <2>1, EmptySeq
  <2>3. c[1] = e[taken + 1] /\ Head(c) = c[1]
    BY <2>2 DEF Decided
  <2>4. QED
    BY <2>2, <2>3
<1>3. GoodPrefix(e) = 1..taken
  <2>1. \A i \in 1..taken : i \in GoodPrefix(e)
    BY <1>1 DEF GoodPrefix, Decided
  <2>2. ASSUME NEW i \in GoodPrefix(e) PROVE i \in 1..taken
    <3>1. i \in 1..Len(e) /\ \A j \in 1..i : e[j].good
      BY <1>1 DEF GoodPrefix
    <3>2. i > taken => taken + 1 \in 1..i /\ taken < Len(e)
      BY <1>1, <3>1
    <3>3. QED
      BY <1>1, <1>2, <3>1, <3>2
  <2>3. QED
    BY <2>1, <2>2
<1>4. Cardinality(1..taken) = taken
  BY <1>1, FS_Interval
<1>5. 1..taken = {} <=> taken = 0
  <2>1. taken # 0 => 1 \in 1..taken
    BY <1>1
  <2>2. taken = 0 => \A i \in 1..taken : FALSE
    BY <1>1
  <2>3. QED
    BY <2>1, <2>2
<1>6. QED
  BY <1>3, <1>4, <1>5 DEF Decided

-----------------------------------------------------------------------------
LEMMA NextCases ==
  ASSUME [Next]_vars
  PROVE  \/ \E r \in Requests :
              \/ Invoke(r) \/ Submit(r) \/ Collect(r) \/ Close(r)
              \/ \E good \in BOOLEAN : Reply(r, good)
         \/ Take \/ Deliver
         \/ UNCHANGED vars
  BY DEF Next

(* The pool's queue gains a call that is submitted and loses the one that  *)
(* a free thread takes.                                                    *)
LEMMA PoolStep ==
  ASSUME TypeOK, PoolInv, [Next]_vars
  PROVE  /\ PoolInv' /\ Cardinality(Working)' <= Workers
         /\ at' \in [Requests -> {"idle", "failed", "sent", "queued", "working", "done"}]
<1> DEFINE Goal == /\ PoolInv' /\ Cardinality(Working)' <= Workers
                   /\ at' \in [Requests -> {"idle", "failed", "sent", "queued", "working", "done"}]
<1>0. /\ at \in [Requests -> {"idle", "failed", "sent", "queued", "working", "done"}]
      /\ Lists(queue, Queued) /\ IsFiniteSet(Working) /\ Cardinality(Working) <= Workers
      /\ Cardinality(Working) \in Nat /\ Workers \in Nat
  BY SizesPositive, FS_CardinalityType DEF TypeOK, PoolInv
<1> USE DEF Goto
<1>1. ASSUME NEW r \in Requests, Invoke(r) PROVE Goal
  <2>1. Queued' = Queued /\ Working' = Working
    BY <1>0, <1>1 DEF Invoke, Queued, Working
  <2>2. QED
    BY <1>0, <1>1, <2>1 DEF Invoke, PoolInv
<1>2. ASSUME NEW r \in Requests, Submit(r) PROVE Goal
  <2>1. Queued' = Queued \cup {r} /\ Working' = Working /\ r \notin Queued
    BY <1>0, <1>2 DEF Submit, Queued, Working
  <2>2. Lists(Append(queue, r), Queued \cup {r})
    BY <1>0, <2>1, ListsAppend
  <2>3. QED
    BY <1>0, <1>2, <2>1, <2>2 DEF Submit, PoolInv
<1>3. ASSUME NEW r \in Requests, Collect(r) PROVE Goal
  <2>1. CASE UNCHANGED at
    <3>1. Queued' = Queued /\ Working' = Working
      BY <2>1 DEF Queued, Working
    <3>2. QED
      BY <1>0, <1>3, <2>1, <3>1 DEF Collect, PoolInv
  <2>2. CASE Goto(r, "done")
    <3>1. Queued' = Queued /\ Working' = Working \ {r}
      BY <1>0, <1>3, <2>2 DEF Collect, Queued, Working
    <3>2. IsFiniteSet(Working \ {r}) /\ Cardinality(Working \ {r}) <= Cardinality(Working)
      BY <1>0, FS_Subset
    <3>3. Cardinality(Working \ {r}) \in Nat
      BY <3>2, FS_CardinalityType
    <3>4. QED
      BY <1>0, <1>3, <2>2, <3>1, <3>2, <3>3 DEF Collect, PoolInv
  <2>3. QED
    BY <1>3, <2>1, <2>2 DEF Collect
<1>4. CASE Take
  <2>1. Head(queue) \in Queued /\ Lists(Tail(queue), Queued \ {Head(queue)})
    BY <1>0, <1>4, ListsTail DEF Take
  <2>2. Queued' = Queued \ {Head(queue)} /\ Working' = Working \cup {Head(queue)} /\ Head(queue) \notin Working
    BY <1>0, <1>4, <2>1 DEF Take, Queued, Working
  <2>3. /\ IsFiniteSet(Working \cup {Head(queue)})
        /\ Cardinality(Working \cup {Head(queue)}) = Cardinality(Working) + 1
    BY <1>0, <2>2, FS_AddElement
  <2>4. PoolInv' /\ at' \in [Requests -> {"idle", "failed", "sent", "queued", "working", "done"}]
    BY <1>0, <1>4, <2>1, <2>2, <2>3 DEF Take, RestOfQueue, PoolInv
  <2>5. Cardinality(Working') <= Workers
    BY <1>0, <1>4, <2>2, <2>3 DEF Take
  <2>6. QED
    BY <2>4, <2>5
<1>5. ASSUME UNCHANGED <<at, queue>> PROVE Goal
  <2>1. Queued' = Queued /\ Working' = Working
    BY <1>5 DEF Queued, Working
  <2>2. QED
    BY <1>0, <1>5, <2>1 DEF PoolInv
<1>6. QED
  BY <1>1, <1>2, <1>3, <1>4, <1>5, NextCases DEF Close, Reply, Deliver, asking, vars

LEMMA TypeOKStep ==
  ASSUME TypeOK, PoolInv, [Next]_vars
  PROVE  TypeOK'
<1> DEFINE Rest == /\ result \in [Requests -> 0..MaxReplies]
                   /\ wire \in Seq(Requests \X Replies)
                   /\ channel \in [Requests -> Seq(Replies)] /\ entered \in [Requests -> Seq(Replies)]
                   /\ \A r \in Requests : Len(channel[r]) <= ChannelSize
                   /\ closed \in [Requests -> BOOLEAN]
                   /\ sent \in 0..MaxReplies
<1>0. Rest
  BY DEF TypeOK
<1>1. ASSUME NEW r \in Requests, Invoke(r) \/ Submit(r) PROVE Rest'
  BY <1>0, <1>1 DEF Invoke, Submit, zenoh
<1>2. ASSUME NEW r \in Requests, Collect(r) PROVE Rest'
  <2>1. CASE UNCHANGED <<result, channel>>
    BY <1>0, <1>2, <2>1 DEF Collect
  <2>2. CASE /\ channel[r] # <<>> /\ channel' = [channel EXCEPT ![r] = Tail(@)]
             /\ result' = [result EXCEPT ![r] = Head(channel[r]).num]
    <3>1. /\ Head(channel[r]) \in Replies /\ Tail(channel[r]) \in Seq(Replies)
          /\ Len(Tail(channel[r])) <= Len(channel[r]) /\ Len(channel[r]) \in Nat
          /\ Len(Tail(channel[r])) \in Nat
      BY <1>0, <2>2, HeadTailProperties, LenProperties
    <3>2. Head(channel[r]).num \in 0..MaxReplies
      BY <3>1, MaxRepliesNat DEF Replies
    <3>3. result' \in [Requests -> 0..MaxReplies] /\ channel' \in [Requests -> Seq(Replies)]
      BY <1>0, <2>2, <3>1, <3>2
    <3>4. \A x \in Requests : Len(channel'[x]) <= ChannelSize
      BY <1>0, <2>2, <3>1, SizesPositive
    <3>5. QED
      BY <1>0, <1>2, <3>3, <3>4 DEF Collect
  <2>3. QED
    BY <1>2, <2>1, <2>2 DEF Collect
<1>3. ASSUME Take PROVE Rest'
  BY <1>0, <1>3 DEF Take, zenoh
<1>4. ASSUME NEW r \in Requests, NEW good \in BOOLEAN, Reply(r, good) PROVE Rest'
  <2>1. sent' \in 1..MaxReplies
    BY <1>0, <1>4, MaxRepliesNat DEF Reply
  <2>2. <<r, [num |-> sent', good |-> good]>> \in Requests \X Replies
    BY <2>1 DEF Replies
  <2>3. wire' \in Seq(Requests \X Replies)
    BY <1>0, <1>4, <2>2, AppendProperties DEF Reply
  <2>4. QED
    BY <1>0, <1>4, <2>1, <2>3, MaxRepliesNat DEF Reply, asking
<1>5. ASSUME Deliver PROVE Rest'
  <2> DEFINE r == Head(wire)[1]  reply == Head(wire)[2]
  <2>1. r \in Requests /\ reply \in Replies /\ Tail(wire) \in Seq(Requests \X Replies)
    <3>1. Head(wire) \in Requests \X Replies /\ Tail(wire) \in Seq(Requests \X Replies)
      BY <1>0, <1>5, HeadTailProperties DEF Deliver
    <3>2. QED
      BY <3>1
  <2>2. CASE UNCHANGED <<channel, entered>>
    BY <1>0, <1>5, <2>1, <2>2 DEF Deliver, asking
  <2>3. CASE /\ Listens(r)
             /\ channel' = [channel EXCEPT ![r] = Append(@, reply)]
             /\ entered' = [entered EXCEPT ![r] = Append(@, reply)]
    <3>1. Len(channel[r]) # ChannelSize /\ Len(channel[r]) <= ChannelSize /\ Len(channel[r]) \in Nat
      BY <1>0, <1>5, <2>1, <2>3, LenProperties DEF Deliver, Stuck
    <3>2. \A x \in Requests : /\ Append(channel[x], reply) \in Seq(Replies)
                              /\ Len(Append(channel[x], reply)) = Len(channel[x]) + 1
                              /\ Append(entered[x], reply) \in Seq(Replies)
      BY <1>0, <2>1, AppendProperties
    <3>3. channel' \in [Requests -> Seq(Replies)] /\ entered' \in [Requests -> Seq(Replies)]
      BY <1>0, <2>1, <2>3, <3>2
    <3>4. \A x \in Requests : Len(channel'[x]) <= ChannelSize
      <4>1. SUFFICES ASSUME NEW x \in Requests PROVE Len(channel'[x]) <= ChannelSize
        OBVIOUS
      <4>2. CASE x = r
        <5>1. Len(channel'[x]) = Len(channel[r]) + 1
          BY <1>0, <2>1, <2>3, <3>2, <4>2
        <5>2. QED
          BY <3>1, <5>1, SizesPositive
      <4>3. CASE x # r
        BY <1>0, <2>1, <2>3, <4>3
      <4>4. QED
        BY <4>2, <4>3
    <3>5. QED
      BY <1>0, <1>5, <2>1, <3>3, <3>4 DEF Deliver, asking
  <2>4. QED
    BY <1>5, <2>2, <2>3 DEF Deliver
<1>6. ASSUME NEW r \in Requests, Close(r) PROVE Rest'
  BY <1>0, <1>6 DEF Close, asking
<1>7. ASSUME UNCHANGED vars PROVE Rest'
  BY <1>0, <1>7 DEF vars, asking, zenoh
<1>8. Rest'
  BY <1>1, <1>2, <1>3, <1>4, <1>5, <1>6, <1>7, NextCases
<1>9. /\ at' \in [Requests -> {"idle", "failed", "sent", "queued", "working", "done"}]
      /\ Lists(queue', Queued') /\ Cardinality(Working') <= Workers
  BY PoolStep DEF PoolInv
<1>10. \A r \in Requests : Cardinality({i \in DOMAIN queue' : queue'[i] = r}) = IF r \in Queued' THEN 1 ELSE 0
  BY <1>9, ListsCount
<1>11. \A r \in Requests : r \in Queued' <=> at'[r] = "queued"
  BY DEF Queued
<1>12. QED
  BY <1>8, <1>9, <1>10, <1>11 DEF TypeOK

(* Replies enter a channel at its end and are taken from its front, until  *)
(* the call is over; then none enters any more.                            *)
LEMMA ResultStep ==
  ASSUME TypeOK, ResultInv, [Next]_vars
  PROVE  ResultInv'
<1> SUFFICES ASSUME NEW r \in Requests
             PROVE  /\ Decided(entered'[r], channel'[r], result'[r])
                    /\ at'[r] = "done" => channel'[r] = <<>> \/ ~Head(channel'[r]).good
  BY DEF ResultInv
<1> DEFINE Goal == /\ Decided(entered'[r], channel'[r], result'[r])
                   /\ at'[r] = "done" => channel'[r] = <<>> \/ ~Head(channel'[r]).good
<1>0. /\ Decided(entered[r], channel[r], result[r])
      /\ at[r] = "done" => channel[r] = <<>> \/ ~Head(channel[r]).good
      /\ entered[r] \in Seq(Replies) /\ channel[r] \in Seq(Replies)
      /\ entered \in [Requests -> Seq(Replies)] /\ channel \in [Requests -> Seq(Replies)]
      /\ result \in [Requests -> 0..MaxReplies]
      /\ at \in [Requests -> {"idle", "failed", "sent", "queued", "working", "done"}]
  BY DEF ResultInv, TypeOK
<1>1. ASSUME UNCHANGED <<entered, channel, result>>, at'[r] = "done" => at[r] = "done" PROVE Goal
  BY <1>0, <1>1
<1>2. ASSUME NEW x \in Requests, Invoke(x) \/ Submit(x) PROVE Goal
  BY <1>0, <1>1, <1>2 DEF Invoke, Submit, Goto, zenoh
<1>3. ASSUME NEW x \in Requests, Collect(x) PROVE Goal
  <2>1. CASE x # r
    BY <1>0, <1>3, <2>1 DEF Collect, Goto
  <2>2. CASE /\ x = r /\ channel[r] # <<>> /\ Head(channel[r]).good /\ at[r] = "working" /\ UNCHANGED <<at, entered>>
             /\ channel' = [channel EXCEPT ![r] = Tail(@)]
             /\ result' = [result EXCEPT ![r] = Head(channel[r]).num]
    <3>1. channel'[r] = Tail(channel[r]) /\ result'[r] = Head(channel[r]).num
      BY <1>0, <2>2
    <3>2. Decided(entered[r], Tail(channel[r]), Head(channel[r]).num)
      BY <1>0, <2>2, DecidedTail
    <3>3. QED
      BY <2>2, <3>1, <3>2
  <2>3. CASE x = r /\ Ends(r) /\ UNCHANGED <<result, channel, entered>>
    BY <1>0, <2>3 DEF Ends
  <2>4. QED
    BY <1>3, <2>1, <2>2, <2>3 DEF Collect
<1>4. CASE Take
  <2>1. UNCHANGED <<entered, channel, result>>
    BY <1>4 DEF Take, zenoh
  <2>2. at'[r] = "done" => at[r] = "done"
    BY <1>0, <1>4 DEF Take, Goto
  <2>3. QED
    BY <1>1, <2>1, <2>2
<1>5. ASSUME NEW x \in Requests, Close(x) \/ \E good \in BOOLEAN : Reply(x, good) PROVE Goal
  BY <1>1, <1>5 DEF Close, Reply, asking
<1>6. CASE Deliver
  <2> DEFINE x == Head(wire)[1]  reply == Head(wire)[2]
  <2>1. reply \in Replies
    <3>1. Head(wire) \in Requests \X Replies
      BY <1>6, HeadTailProperties DEF Deliver, TypeOK
    <3>2. QED
      BY <3>1
  <2>2. UNCHANGED <<at, result>>
    BY <1>6 DEF Deliver, asking
  <2>3. CASE x # r \/ ~Listens(x)
    BY <1>0, <1>6, <2>2, <2>3 DEF Deliver
  <2>4. CASE x = r /\ Listens(x)
    <3>1. /\ channel'[r] = Append(channel[r], reply) /\ entered'[r] = Append(entered[r], reply)
          /\ at[r] # "done"
      BY <1>0, <1>6, <2>4 DEF Deliver, Listens
    <3>2. Decided(Append(entered[r], reply), Append(channel[r], reply), result[r])
      BY <1>0, <2>1, DecidedAppend
    <3>3. QED
      BY <2>2, <3>1, <3>2
  <2>5. QED
    BY <2>3, <2>4
<1>7. CASE UNCHANGED vars
  BY <1>1, <1>7 DEF vars, asking, zenoh
<1>8. QED
  BY <1>2, <1>3, <1>4, <1>5, <1>6, <1>7, NextCases

-----------------------------------------------------------------------------
LEMMA IInvInit == Init => IInv
<1> SUFFICES ASSUME Init PROVE IInv
  OBVIOUS
<1>1. Queued = {} /\ Working = {}
  BY DEF Init, Queued, Working
<1>2. PoolInv
  BY <1>1, EmptySeq, FS_EmptySet DEF Init, PoolInv, Lists
<1>3. \A r \in Requests : Cardinality({i \in DOMAIN queue : queue[i] = r}) = 0
  BY <1>1, <1>2, ListsCount DEF PoolInv
<1>4. Cardinality(Working) <= Workers
  BY <1>1, FS_EmptySet, SizesPositive
<1>5. TypeOK
  BY <1>3, <1>4, EmptySeq, SizesPositive, MaxRepliesNat DEF Init, TypeOK
<1>6. ResultInv
  BY EmptySeq DEF Init, ResultInv, Decided
<1>7. QED
  BY <1>2, <1>5, <1>6 DEF IInv

LEMMA IInvStep == IInv /\ [Next]_vars => IInv'
  BY PoolStep, TypeOKStep, ResultStep DEF IInv

(* The inductive invariant of every behaviour. *)
LEMMA Inductive == Spec => []IInv
  BY IInvInit, IInvStep, PTL DEF Spec

(* The queue of the pool has each waiting call of handleReply() once, no   *)
(* more of them run than maxNumOfCuncurrentRequests_, and no channel has   *)
(* more replies than it is made for.                                       *)
THEOREM TypeCorrect == Spec => []TypeOK
<1>1. IInv => TypeOK
  BY DEF IInv
<1>2. QED
  BY Inductive, <1>1, PTL

(* handleReply() gives the future the payload of the last reply before the *)
(* first bad one, of all that got into the channel, whatever timeouts, the *)
(* pool and full channels do.                                              *)
THEOREM ResultDecided == Spec => []PrefixDecides
<1>1. IInv => PrefixDecides
  <2>1. SUFFICES ASSUME IInv, NEW r \in Requests, at[r] = "done"
                 PROVE  result[r] = IF GoodPrefix(entered[r]) = {} THEN 0
                                    ELSE entered[r][Cardinality(GoodPrefix(entered[r]))].num
    BY DEF PrefixDecides
  <2>2. /\ entered[r] \in Seq(Replies) /\ channel[r] \in Seq(Replies)
        /\ Decided(entered[r], channel[r], result[r])
        /\ channel[r] = <<>> \/ ~Head(channel[r]).good
    BY <2>1 DEF IInv, TypeOK, ResultInv
  <2>3. QED
    BY <2>2, DecidedPrefix
<1>2. QED
  BY Inductive, <1>1, PTL
==============================================================================
