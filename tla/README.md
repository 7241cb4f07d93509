# A verification project for up-client-zenoh-cpp

This directory holds TLA+ models of the uProtocol client library for zenoh
(`src/lib`), the TLC configurations that check them, and TLAPS proofs that every
safety property these runs check holds for all values of the constants.

## 1. The system

The library lets one process publish and subscribe, and call and serve methods,
over a single zenoh session. It has about a thousand lines of C++, no tests of
its classes (`test/src/main_test.cpp` tests nothing of them), and most of its
difficulty is in threads: the application's, zenoh's callback threads and those
of a thread pool all run through the same objects.

| Component | State | Operations | Talks to |
|---|---|---|---|
| `ZenohSessionManager` (static object) | `session_`, atomic `refCount_`, `mutex_` | `init`, `term`, `getSession` | zenoh (open, close); called by both bases |
| `upZenohClient` | static `weak_ptr w_handle`, `construction_mtx` | `instance`, construction, destruction | its bases `ZenohUTransport` and `ZenohRpcClient`, through them the manager |
| `ZenohUTransport`, listeners | `listenerMap_` of containers (two handle vectors and a listener vector), `subInitMutex_` | `registerListener`, `unregisterListener`, `SubHandler`, `OnSubscriberClose`, `OnQueryClose`, destructor | zenoh declares, undeclares, calls back |
| `ZenohUTransport`, publishers | `pubHandleMap_`, `pubInitMutex_` | `send` / `sendPublish`, destructor | zenoh declares, puts |
| `ZenohUTransport`, queries | `queryMap_` (no mutex) | `QueryHandler`, `send` / `sendQueryable` | zenoh delivers queries, takes replies |
| `ZenohRpcClient` | `threadPool_`, a reply channel per request | `invokeMethod`, `handleReply` | zenoh's `z_get`, timeout of 5 s |
| `MessageBuilder`, `MessageParser` | none (pure) | `buildHeader`, `getAllTlv`, `getAttributes` | every message's attachment |

What is hard, and what makes each part correct:

* **Session manager.** The first test of `refCount_` and the `fetch_add` of the
  fast path run without `mutex_`. Correct: the count is the number of users, no
  open session is overwritten, the last user closes it, a user has an open session.
* **Client.** Two bases count themselves separately, constructors and
  destructors of successive clients overlap, opening may fail half way, and
  destructors call `term()` even when their `init()` did not count. Correct: one
  client at a time, nothing left at the end, its session open while it is used.
* **Listeners.** Registration is under a mutex, unregistration is not; listeners and
  handles are matched by index; callbacks come late. Correct: the container says
  what zenoh serves, and the calls are linearizable.
* **Publishers.** The map is searched without the mutex it is written under.
  Correct: a put uses a declared publisher, and none is lost.
* **Queries.** A query is parked by id until somebody responds, in any thread,
  perhaps twice or too late. Correct: it is answered at most once, only by a response to its
  id, while it lives, and never lost.
* **Requests.** A pool of two threads collects replies from bounded channels that
  one thread of zenoh fills. Correct: the replies that got in decide the future,
  and every future completes.
* **Headers.** Three hand-written lists of fields (sized, written, read) must
  agree. Correct: no access outside the buffer, and the attributes survive.

## 2. Modules

Each module is one component; `MC...` modules only add symmetry sets,
concrete sizes or initial states for TLC. A variable of a model has the name of the
member it stands for (`refCount` is `refCount_`); variables marked `external` in
their comment stand for zenoh, those marked `history` exist for the properties only.
An operator whose comment begins with "Mutant:" is not part of the model: it is a
plausible mistake in the operator after it, used to see that a property notices.

**`SessionManager`** has one action per access to shared state: the unlocked load
(`InitLoad`) and add (`InitFastAdd`), the test under the mutex (`InitRecheck`),
opening with its three failures (`InitOpen`), the add under the mutex
(`InitCount`), and in `term()` the test, the `fetch_sub`, the second test and the
close (`TermCheck`, `TermSub`, `TermZero`, `TermClose`). The second test is apart
from the `fetch_sub` because the unlocked add can come between. `StartInit`,
`StartTerm` and `Read` are callers that keep to the header: they pair `init()` and
`term()`. `OverlapAllowed` says whether an `init()` may run beside a `term()`.

**`SharedSession`** is the abstract promise: a session that is opened and closed
only while nobody holds it. `SharesOneSession` in
`SessionManager` maps the manager to it (holders: counted in; current session: the open one).

**`UpClient`** composes an instance of `SessionManager`, whose callers are the two
bases of every client, with `instance()`, the constructors (transport first) and
the destructors (in reverse). Here nothing makes callers pair their calls: the
destructors call `term()` whatever `init()` did. `Look` and `Lock` are the two halves
of the `weak_ptr::lock()` outside the mutex. `busy` has the clients whose pool is
still working on a request (`Invoke`, `Completed`); between the body of
`~ZenohRpcClient()`, which calls `term()`, and the base's destructor the pool is
joined (`RpcTermed`): that a `ThreadPool` joins its threads when it is destroyed is
assumed, for its code is in another repository. `ended` is how the process died, if it did.

**`ListenerRegistry`** has a step per piece of `registerListener` (under the mutex)
and of `unregisterListener` (find, erase the listener, undeclare, erase the handle),
the destructor, and messages that arrive and the callbacks they cause, which are
delivered later (`Arrive`, `Handle`). A handle is the number of its declaration, of
which `declares` is the last. A topic and a method are told apart only where it shows,
in the destructor.

**`AtomicRegistry`** is what that promises: a set of pairs (URI, listener) that each
call changes in one step, with the answers the calls may give, and callbacks
that zenoh owes to those who were served when a message arrived. It knows no
container, index, handle or mutex. `Linearizable` maps `ListenerRegistry` to it:
`registerListener` takes effect where zenoh declares, `unregisterListener`
where it undeclares.

**`Publishers`** has the steps of `sendPublish` and the destructor. The second
look under the mutex compares an iterator with `end()` that was compared before,
so it cannot find anything: `Declare` always declares.

**`Queries`** is the answering end of a request: `QueryHandler`, which clones a
query, stores the clone under its id and tells the listener, for every listener
of the method, and the five steps of `sendQueryable`. Ids are chosen freely, so
two queries may share one, by a retry or by a caller's mistake. A response
carries the query it was made for, so that a mix-up shows. Beside an insertion each
lookup of `sendQueryable` may miss a key (`Misses`): `find()` gives the response up,
`operator[]` adds an empty entry, `erase()` leaves the entry; `torn` remembers the ids
of the last two.

**`RpcClient`** is the asking end: `invokeMethod`, the pool's threads running
`handleReply`, a channel of `ChannelSize` replies for each request, and zenoh, which
hands over replies in one thread that waits while the channel at its turn is
full, and closes a channel when the query is over or timed out, but not while it waits.
The client lives as long as its requests; `UpClient` has what destroying it does.

**`MessageHeader`** builds a header cell by cell from every set of attributes and
parses it. A cell holds a number or "byte i of field f"; of the cells of a length
the first carries it whole. `next` is the field the builder looks at: a field that
is not set is passed over, as by the `if (...has_value())` of the code.

The `...Proofs` modules extend the module they are about and are in section 4.

## 3. Runs

| Run | Question | Bounds | Answer |
|---|---|---|---|
| `session_overlap` | Is counting safe under every overlap? | 3 callers, 2 sessions | Yes: the count is exact, no session leaks, the last one closes. |
| `session_serial` | Has every user an open session? | same, no `init()` beside a `term()` | Yes, and the manager implements `SharedSession`. |
| `client` | One client, destroyed once, nothing left, mutex given back? | 2 threads, 3 clients, opens may fail | Yes. |
| `client_served` | Is a client in use always connected? | 2 threads, 2 clients | **No** (finding): fast path of `init()` against the last `term()`. |
| `client_throws` | Can a constructor throw? | same, opens may fail | **Yes** (finding): an unmatched `term()` between two `getSession()`. |
| `listeners` | Does the container say what is served, is the registry linearizable? | 2 threads, 3 listeners, a topic, a method, 1 message, 3 declarations | Yes, unless two calls race for a container. |
| `listeners_race` | And if they race? | 2 threads, 1 topic | **No** (finding): a listener stays served. |
| `publish` | Are publishers declared and kept? | 3 threads, 2 topics, 5 declarations | Yes; a lost race leaks one publisher per thread and topic at most. |
| `header` | Is the buffer respected, do attributes survive? | every set of attributes, tokens of 0 and 5 bytes, sinks of 0, 8 and 36 | Yes without a sink, but for TTL's value. With one the parser refuses the header unless the sink's length is a multiple of nine (finding). |
| `queries` | Do answers match, does what is answered live, can an id still be answered? | 2 queries, 2 ids, 2 listeners, 2 responders, 3 responses | Answers match. A query lives, and is answered once, while no two responders share its id. One query of each id was answered or still can be, and one is stranded for the named reasons only. |
| `rpc_reply_twice` | Is a query answered once? | 1 query, 2 listeners, 2 responders | **No** (finding): two responders both find it. |
| `rpc_client` | Do futures complete, with the right reply? | 2 requests, 1 pool thread, channels of 1 reply, 4 replies | Yes, with a fair zenoh. |

The bounds let every interesting case happen: three callers allow one in the
fast path, one closing and one opening; three clients one that fails, one being
destroyed and one being built; three listeners an index that shifts in a container, and
three declarations a re-registration while a callback of the first is due; three
threads that all miss a topic, five declarations a topic declared by each and more; two listeners and two queries of
one id an entry overwritten and one erased under a newer query, and three
responses a retry after a failure; one pool thread and two requests one
that waits, and a channel of one reply one that fills and blocks zenoh's thread:
the code has two threads and 16 places, and the case is the same. In `queries`
requests, ids, listeners and responders are interchangeable. Coverage shows that every action fires.

Deadlock is checked wherever a model has a resting state to stutter in; `Queries`
and `RpcClient` simply stop once all requests are over (`CHECK_DEADLOCK FALSE`).

**Provisos.** Several properties hold only while something has not happened, and
say so: two publications missed a topic together (`bothMissed`), a `find()` of
`Publishers` ran beside an insertion, or an `operator[]` or `erase()` of `Queries`
missed its key (`torn`), two responders shared an id (`shared`), an `init()`
overlapped a `term()` (`overlap`). `ListenerRegistry` has a constant instead:
without `RacesAllowed` a call does not start while it would race with another on
a container or on the table. The violation runs check what the documentation says
without the proviso.

**Undefined behaviour.** Data races are modelled by outcomes that the build can
produce and that the properties can tell apart: a lookup beside an insertion
misses a key, a control block read after it was freed looks expired or ends the
process. An index past the end (`HandleAt`, `ErasedAt`) finds a handle that an earlier
`erase()` left there, which may be served still, or none, and erases the last element
or none. A hash table half rehashed is not modelled.

**Fairness.** `UpClient`: a thread that is inside a call goes on
(`WF_vars(Working(t))`): the code never waits for anything but the two mutexes and,
in a destructor, the pool. No thread need call `instance()`, drop a handle or send a request.
`RpcClient`: the thread in `invokeMethod` and those of the pool go on (`Submit`,
`Take`, `Collect`), zenoh delivers what it can (`Deliver`) and ends every query in
time (`Close`), which is what `requestTimeoutMs_` asks of it; nobody need ever
reply. That the futures complete nevertheless is not plain: a request that waits for a
thread of the pool can have a full channel, which blocks zenoh's one thread and keeps that
channel from closing; it is the timeout of the requests that have a thread that
frees it. No other run checks liveness.

## 4. Proofs

Every invariant of the passing runs and both refinements are proved; liveness is
not. The theorems hold for all values of the constants that meet the
assumptions below, so also for the sizes of the code (two pool threads, channels of
16) that the runs stay below. All follow one pattern: an inductive
invariant, one lemma per action or per part of it that the action can disturb, and
a theorem per property. Each inductive invariant was first checked as an invariant of
the run it belongs to.

| Module | Theorem | States |
|---|---|---|
| `SessionManagerProofs` | `TypeCorrect` | `Spec => []TypeOK` |
| | `CountIsExact` | `Spec => []RefCountExact` |
| | `NoLeak` | `Spec => []NoSessionLeak` |
| | `LastCloses` | `Spec => []ClosedWhenUnused` |
| | `HolderIsServed` | `~OverlapAllowed` implies `Spec => []HolderHasOpenSession` |
| | `CopyIsCurrent` | `~OverlapAllowed` implies `Spec => []CopyNotStale` |
| | `Implements` | `~OverlapAllowed` implies `Spec => SharesOneSession`, the refinement of `SharedSession` |
| `UpClientProofs` | `TypeCorrect` | `Spec => []TypeOK` |
| | `AtMostOneClient` | `Spec => []OneClient` |
| | `DestroysAlone` | `Spec => []DestroyedAlone` |
| | `LeavesNothing` | `Spec => []NothingLeft` |
| `UpClientServedProofs` | `ValuesStay` | `Spec => []ValueStays` |
| | `BothServed` | `Spec => []BothBasesServed` |
| | `RequestsServed` | `Spec => []RequestHasSession` |
| `ListenerRegistryProofs` | `TypeCorrect` | `Spec => []TypeOK` |
| | `ContainersMatch` | `~RacesAllowed` implies `Spec => []RegistryMatchesZenoh` |
| | `SubscribersGone` | `~RacesAllowed` implies `Spec => []NoSubscriberOutlives` |
| | `Linearizes` | `~RacesAllowed` implies `Spec => Linearizable`, the refinement of `AtomicRegistry` |
| `PublishersProofs` | `TypeCorrect` | `Spec => []TypeOK` |
| | `PutIsDeclared` | `Spec => []PutDeclared` |
| | `NoneLost` | `Spec => []NoPublisherLost` |
| | `LeakIsBounded` | `Spec => []LeakBounded` |
| `QueriesProofs` | `TypeCorrect` | `Spec => []TypeOK` |
| | `AnswersMatch` | `Spec => []AnswerMatches` |
| | `NoneStranded` | `Spec => []NoQueryStranded` |
| | `OneIsAnswerable` | `Spec => []OneAnswerable` |
| | `OneReplyAlone` | `Spec => []RepliedOnceAlone` |
| | `NoDroppedQuery` | `Spec => []QueriesLive` |
| `RpcClientProofs` | `TypeCorrect` | `Spec => []TypeOK` |
| | `ResultDecided` | `Spec => []PrefixDecides` |
| `MessageHeaderProofs` | `TypeCorrect` | `Spec => []TypeOK` |
| | `BuilderInBounds` | `Spec => []WritesInBounds` |
| | `BufferFilled` | `Spec => []HeaderFilled` |
| | `ParserInBounds` | `Spec => []ReadsInBounds` |
| | `RoundTrips` | `Spec => []RoundTrip` |
| | `SinkRefused` | `Spec => []SinkDecides` |

**Assumptions.** Threads and callers are finitely many; `NoOne` and `NoCaller` are none of them
(nor, in `UpClient`, a base: it stands for an unlocked mutex in both modules); outcomes
are known ones; bounds (`MaxOpens`, `MaxClients`, `MaxDeclares`, `MaxAnswers`,
`MaxReplies`) are natural numbers, of any size; the pool has a thread and a channel a
place (`handleReply()` needs both, the code has two and 16); topics and methods are
apart, as the URIs of the code are by their resource; there is a URI to publish on; `size_t` has at
least a byte, lengths are natural numbers, and `PLEVEL` and `COMMSTATUS` have the four
bytes of the `int32_t` they are read back as. The provisos `~OverlapAllowed` and
`~RacesAllowed` are those of the runs: `client_served` and `listeners_race` show what
happens without them. Other provisos are part of the properties.

**`SessionManager`.** None of the properties is inductive. `IInv` adds: who holds
`mutex_` is exactly who is at a step under it (`MutexInv`); at which steps a caller
counts (`PhaseInv`); a session is open only if somebody is counted, or the owner of the
mutex has just opened it or is about to decide on closing it (`UsedInv`); nothing is
open when `z_open` is about to run (`OpeningInv`). The third disjunct of `UsedInv` is
the heart of `LastCloses`: between the `fetch_sub` and the close the session is open
without a user, but then the mutex is held. `OpeningInv` gives `NoLeak`.
`HolderIsServed` uses the second invariant `SerialInv`: while no `init()` is beside a
`term()`, a count above zero means an open session, also for a caller that has read it
and not yet added itself. With it, `z_open` and `z_close` run only while nobody is
counted in: that is why a holder's copy stays current (`CopyInv`), and why opening and
closing map to `Open` and `Close` of `SharedSession`, the two ways of counting in to
`Acquire`, the `fetch_sub` to `Release`, and all other steps to stutters
(`RefinementStep`).

**`UpClient`.** `ControlInv` is about threads alone: handles in hand are to the client
`w_handle` names, whoever builds or destroys a client is alone with it, and no number
is used twice. Of the session manager only what survives unmatched calls of `term()`
carries over (`ManagerInv`: in place of the exact count, `SubInv` says that who is about
to count out finds a count). `NothingLeft` is the hard one, for a failed base takes away
a count that is not its own: `CountInv` bounds `refCount` from above by the bases whose
`term()` is still to come (`Due`), `LifeInv` says that a base counts in once, so that an
idle process has none due, no count, and by `UsedInv` no session.
`UpClientServedProofs` adds what holds until a session fails to open (`PaidInv`: every
`term()` is due, the count is exact) and until an `init()` overlaps a `term()`
(`ServedInv`: `SerialInv` of the manager, and each base's copy is the session).
`BusyInv` ties a request in flight to a client in hand, or to one whose destructor
waits for the pool with the transport still counted in.

**`ListenerRegistry`.** `BaseInv` holds whatever races: each call may use its own
handle only, and what is declared, or has a callback due, has a number already given
out (`NumberInv`), so that the next one is new.
`MatchInv` describes, for each step of `registerListener()` and `unregisterListener()`,
how far the two vectors of a container are from what zenoh serves (`Claim`): in step,
one listener short, or one handle too many, always at the index the call has in hand. The
proof needs lemmas on what `Append` and `RemoveAt` do to a pairing of two sequences
(`PairedAppend` and its kin). That calls do not race enters through `RaceFree` alone.
`Linearizes` maps the declaration and the undeclaration to the steps of
`AtomicRegistry` and everything else to stutters; `OwedInv` says that a callback due
is known by message, URI and listener, so that owing it in the abstract is the same.

**`Publishers`.** `ShareInv` charges every publisher of a URI, and every thread about to declare
one, to a different thread: a URI that is in the map is not missed again, so no thread
pays twice. `AloneInv` is what a URI without a common miss looks like; `HandleInv` says
that the map names declared publishers under their own URI.

**`Queries`.** `MapInv` and `CopyInv` (what an entry names, and what a responder holds, is of
its id) hold whatever races and give `AnswerMatches`. `StrandInv` follows a stored
query until it is out of the map. `OneInv` is `OneAnswerable` with the fact
that a responder past its reply has answered the query in its hands: only then does it
erase the entry of that id. `AloneInv` and `OnceInv` are about ids that no two
responders share: an answered query is out of reach, or with the responder that goes on to
drop and erase it, which is why a retry cannot reply again.

**`RpcClient`.** `ResultInv` splits what entered a channel into what was taken out and what is
still in it: the taken part is good throughout and the result is its last payload. The
call ends with the channel empty, or at a bad reply, and in both cases the taken part is the
longest good prefix. `PoolInv` keeps the pool's queue free of repetitions.

**`MessageHeader`.** `Begin(k)` and `Sized(k)` are the sums of what the fields before the
k-th of either order take. `SizingInv` and `AddingInv` say that size and position are these
sums; that the last `Sized` is the last `Begin` and the sink's record on top is the
agreement of the two functions. `Layout` says that the records written lie at their
`Begin`, with zeros behind them. `ParsingInv` says that the parser stands at a `Begin`
or in the zeros, and has every record behind it under its own tag (`TagsApart`);
that gives `RoundTrips`. In the zeros it reads whole empty records, each of
which leaves the remainder of the division by their size as it is (`ModShift`, `SinkInv`): what
is left over decides whether the parser accepts.

**Only model-checked.** The two liveness properties, `ConstructionEnds` and
`FutureCompletes`, which are beyond the proof system. The four violation runs have nothing to prove.

## 5. Left out

* `receive()` is a stub, `mapEncoding()` a pure table (its failure is an outcome of
  `Put` and `Reply`), `getPayload()` has no caller, `authorized_` no use.
* What happens to a listener object that is destroyed after `unregisterListener`
  returned while a callback is due: the object is the application's, and whether
  zenoh waits for callbacks is not in the repository. The model lets them come late.
* Memory: the arguments of callbacks, which `OnSubscriberClose()` and `OnQueryClose()`
  delete, and `registerListener()` a second time when a declaration fails (a finding);
  the reply channel that leaks when `z_get` fails; the reply that is not dropped after
  an error.
* The bound of 20 on calls that wait for the pool: what `ThreadPool` does with the
  21st is in another repository, and the runs stay below it.
* Headers that a foreign peer wrote: the parser is run on what the builder builds.
* Build files, packaging, the empty test.

## 6. Plan

Done so far: the modules above, their runs, the two refinements, and the proofs
of section 4. The order was: session manager (everything rests on it), client,
listeners, publishers, headers, queries, requests.

What could come next:

1. `instance()` without the provisos of `BothBasesServed`: which sessions a client
   may still have after an overlap, as a weaker property that always holds.
2. An abstract specification of `Queries` (a query is parked, answered at most once,
   dropped) that the module implements while no two responders share an id.
3. A progress measure for `RpcClient`, so that at least the safety part of
   `FutureCompletes` (some step is always possible while a request is open) is proved.
