# A specification of the PeppyOS shared node libraries

The repository holds the libraries that PeppyOS nodes are built from: a Rust
messaging library with topics, services and actions (`peppyos-shared/peppylib-rs`),
its Python binding (`peppylib-py`), the transport interface under it
(`peppy-messaging-interface`, "pmi" below, with a zenoh and an in-process mock
adapter), configuration models, and a few robot libraries (simulation bridge,
control loop pacer, kinematics, collision, arm driver).

This directory specifies in TLA+ what of them keeps state, runs concurrently or
has to agree across processes: modules with the
state and the steps of a component, TLC configurations that check them on small
instances, and TLAPS proofs of what matters most for instances of every size.
Paths below are relative to `src/peppyos-shared` unless they start with `src/`;
`actions.rs`, `services.rs`, `discovery.rs`, ... are files of
`peppylib-rs/src/messaging`.

## 1. Inventory

| component | state it keeps | operations | hard behaviour | what makes it correct |
|---|---|---|---|---|
| action server engine (`actions.rs` 907-1782) | goal registry, a slot per goal (Pending with parked polls, Terminal, window), early polls, tombstones, `terminal` race flag | accept, reject, complete, complete_cancelled, drop of a context; result, cancel and retention loops | four tasks with short critical sections between awaits; polls that arrive before, during and after a goal; futures dropped half way | each poll gets the one outcome or a definite refusal, no wakeup is lost, no result is evicted early |
| action client (`actions.rs` 303-905) | feedback subscription, liveliness watch, producer-gone latch | send_goal, cancel, request_result, next feedback | producer death and restart, a probe that times out while the producer lives | the feedback stream ends when the producer is gone and not before |
| service calls (`messaging.rs` 476-624, `services.rs`, `discovery.rs`) | per call: deadline, attempt, acknowledged?; per endpoint: bounded request queue | poll, is_reachable, listen, recv_next_request | retry of unacknowledged attempts, deadlines against late answers, discovery race of several producers | a call is handled by one producer, a caller can tell unreachable from slow |
| consumer filters, topics (`filter.rs`, `topics.rs`, `messaging.rs`) | slot bindings, reservations of from_any topics | resolve a binding, subscribe, receive, drop | slots of one type share producers, two subscriptions race for one reservation | a slot gets the messages of its own producers, one from_any subscription per type |
| node lifecycle (`runtime/builder.rs`, `runtime/node_runner.rs`, `services/shutdown.rs`) | cancellation token, hooks, handles | run, on_shutdown, shutdown request | a select over setup, signals and services | hooks run once, whatever ends the node |
| daemon watchdog (`services/daemon_watchdog.rs`) | time of the last heartbeat | heartbeat, tick | heartbeat and expiry ready together | a node is cancelled only when its daemon is silent for the grace period |
| clock (`clock.rs`) | offset, simulated time | synchronize, now | stamps of two machines, zero as "not ticked" | bounded error, monotonic simulated time |
| mock transport (pmi `adapters/mock.rs`) | queryables, subscriptions, liveliness counts | declare, call, publish, watch, stop | guards that outlive a session, key expression matching, full channels under a lock | liveliness equals the tokens that are held, a call and a publish keep the protocol of zenoh's |
| zenoh transport (pmi `adapters/zenoh.rs`) | session, bounded queues | same, over the zenoh library | callbacks on the library's threads must not block, congestion by quality of service | probes are answered while the node is busy, a message promised arrives |
| router process, session (pmi `zenohd/facade.rs`, `zenoh_config.rs`) | child process, session configuration | build, start, stop, refederate, drop | not ready in time, died before stop; overrides and reconnection | no child without a handle, tenants stay apart |
| Python futures, bindings (`peppylib-py`) | exit gate, event loop | future_into_py, deliver, quiesce | cancellation of an asyncio future, interpreter exit | no thread enters a finalizing interpreter |
| Python messaging objects (`peppylib-py/src/messaging/`, `clock.rs`) | a lock per stream, endpoint, action, goal | receive, handle, accept, reject, publish, poll | several tasks of one object, each of which may be cancelled wherever it waits | nothing that arrives is lost or decided twice |
| control loop pacer (`src/control_core`) | next deadline | pace | overruns | no burst after an overrun |
| simulation bridge (`src/sim_bridge_core`) | joint command vector, where each pipeline is | update_and_merge, two kinds of pipelines, run | failures, back-off and panics against a cancelled token | no command takes another arm back, run ends and reports |
| wire names (pmi `wire.rs`, `zenoh_format.rs`) | none | build and parse key expressions | one key space of wildcards for everything | a message meets whom its address means |
| launch configuration (`runtime/processor.rs`) | manifest, launch file, fingerprint | parse, fill in defaults, validate | two reads, two validations, edits in between | a node runs with what its manifest and its launch say |
| configuration model (`peppy-config-model`) | a stack of manifests, launch files | read, write, compare, validate against each other | untagged variants, defaults left out, files of older daemons | what is written is read for what it was; a report names what is wrong |
| core node API (`core-node-api`) | none | encode, decode of 66 messages | absent against empty, older peers, values that have no meaning | what is encoded is decoded; whatever arrives is refused or sound |
| datastore client (`datastore.rs`, `core_node/transport.rs`) | none of its own | store, get, list, remove, node_stop | a call that gave up and is carried out later, several daemons | what is told was so at the own daemon |
| kinematics, collision, CAN driver, build helpers | none of interest | floating point or foreign code | none | out of reach of TLA+ (no floating point) |

How they interact. A node declares services and actions on a transport; a
service endpoint hands each request with a one-shot responder to its handler;
an action server is three services (goal, cancel, result), a feedback topic per
goal and a liveliness token, and its engine *is* the code that owns those
responders until they are answered. The client polls those services and
subscribes to the feedback. The node lifecycle starts and cancels all of it; a
daemon watchdog may cancel it from outside. Python calls the same objects
through futures that can be cancelled at any await.

The behaviours that are hard to test are listed, each at its line, under
`hazards` in `PROJECT.json`.

## 2. Modules, runs and proofs at a glance

| module | models | checked by | proofs |
|---|---|---|---|
| `ActionEngine`, abstract `ActionGoal` | the server of an action | `EngineOneGoal`, `EngineTwoGoals`, `EngineLiveness`; `EngineSweepGap`, `EngineCutOrphans` | `ActionEngineProofs` |
| `ActionClient` | its client, and the watch on the producer | `Clients`; `ClientColdStart` | `ClientProofs` |
| `ServiceCall` | calls, retries, discovery, endpoints over zenoh | `Messaging`, `CallLiveness` | `ServiceCallProofs` |
| `MockCalls` | the same through the mock adapter | `Messaging` | `ServiceCallProofs` |
| `Transport` | subscriptions and publishers of both adapters | `Messaging` | `MessagingProofs` |
| `WireFormat`, `WireRouting` | addresses, key expressions, matching | `Messaging` | `RoutingProofs` |
| `MockLiveliness` | tokens, guards and watches of the mock transport | `Messaging` | `RoutingProofs` |
| `PyHandles` | messaging objects that Python tasks share | `Messaging` | `MessagingProofs` |
| `CoreNodeFields`, `CoreNodeApi` | the messages of the core node | `Clients` | |
| `CoreNodeClient` | the datastore and other services of a core node | `Clients` | `ClientProofs` |
| `Manifests` | peppy.json5, the stack, the launch file | `Clients` | |
| `NodeLifecycle` | how a node starts and ends, hooks, watchdog | `Library` | `NodeProofs` |
| `PyNode` | a Python node's event loop and its teardown | `Library`; `PyMonitorRace` | `NodeProofs` |
| `PyFutures` | results on their way to Python, the exit gate | `Library` | `NodeProofs` |
| `Topics` | slots, filters, subscriptions, reservations | `Library`; `TopicsPython` | `LibraryProofs` |
| `RouterSession` | a session's configuration, the zenohd process | `Messaging` | `LibraryProofs` |
| `NodeArguments` | parameters, defaults, arguments, fingerprint | `Library` | `NodeProofs` |
| `ClockSync` | clock exchange, simulated clock | `Library` | `LibraryProofs` |
| `Pacer` | the pace of a control loop | `Library` | `LibraryProofs` |
| `SimBridge` | the pipelines between simulator and nodes | `Library` | `LibraryProofs` |

`MCActionEngine`, `MCServiceCall`, `MCMessaging`, `MCClients` and `MCLibrary`
instantiate them for TLC. The runs after a semicolon show where a comment and the
code disagree; each is expected to find its property violated.

The runs `Messaging`, `Clients` and `Library` put parts side by side: `MCMessaging`
seven (call, mock call, transport, wire, liveliness, handles, router), `MCClients`
six (action, core, api, formats, stack, launch), `MCLibrary` eight. The parts of a run
share no state, so nothing is composed: a behaviour picks one part at the start and
the others stay as they are, and the run explores the sum of their state spaces, not
the product. Properties of parts with one subject are checked as one conjunction:
`AdaptersAsTold` is `LivelinessIsTrue`, `MockKeepsProtocol` and `MessagesArrive`;
`WrittenIsRead` is `SymmetricCodecs` and `ManifestsHold`; `SessionsAsTold` is
`TenantsApart` and `RouterAsTold`. The fairness of a part is guarded by its own
actions, which are not enabled in the behaviours of the others.

In the modules, an operator introduced by "Slip" is a wrong version of the
operator after it, as a plausible mistake in the code would make it. The
specifications never use it; substituted for the right one it makes the property
named in `PROJECT.json` fail.

### What is proved and under which conditions

Every invariant that the runs check is a theorem, for every value of the constants
that the assumption of its module admits, but for one: `WrittenIsRead` rests on the
recursive definitions of `Manifests`, `CoreNodeFields` and `CoreNodeApi`. So are the
action properties (`TimeoutWasReached`, `LiveDaemonKeepsNode`) and the refinement of the
engine. What `AdaptersAsTold` joins is proved
of each part (`LivelinessCorrect`, `MockCallsCorrect`, `TransportCorrect`);
`AdaptersCorrect` shows that each part keeps it while the others take steps.

Some theorems hold for a part of the instances only, and say so in an ASSUME. None is
there for the proof's sake: each is a place where the code does something else.

| condition | needed by | without it |
|---|---|---|
| `~DropsFutures` | `OwnerCorrect` | a dropped accept orphans parked polls (`EngineCutOrphans`) |
| `~LinksBreak` | `HandledOnceCorrect`, `RetryCorrect` | a reply stream ends while the request is still with its producer, and the repeated one is taken again |
| `FlapLimit < PRODUCER_GONE_CONFIRM_PROBES` | `GoneCorrect` | every probe of a confirmation misses a producer that lives |
| `~DaemonThread` | `CrossingCorrect` | the writer of the gate and a hook inside it wait for each other (remark on `PyFutures`) |
| `~PythonNode` | `SlotsCorrect` | a from_any slot gets its sibling's messages (`TopicsPython`) |
| `~GuardsOutlive` | `LivelinessCorrect`, `AdaptersCorrect` | a guard takes down the token of the next declaration (`mock.rs` 405) |
| `TcpBased` | `SessionsCorrect` | a second start replaces the first child's handle |
| `~EditsMidStart` | `ArgumentsCorrect` | a manifest edited between the check of its fingerprint and the second read runs a node whose code was generated from another |

Two assumptions are about data. `WordsAssumption`: the word that stands for an argument
that was not given is no name a user chooses. `TreesAssumption`: arguments and manifests
are JSON5 values.

The provers cannot do the rest: liveness under fairness, ENABLED, and what a recursive
definition computes for every input. These stay with TLC. Induction over the numbers
can be had, for a set instead of a predicate: `NumberInduction` derives it from the
library's theorem that the finite sets are well founded under inclusion. It carries the
walks along a path of fields (`NodeProofs`) and along the chunks of two keys
(`RoutingProofs`); `WireFormat` and `NodeArguments` are written so that it suffices, with
a recursive function and with trees.

The proofs have one form. The invariant of a module is a conjunction of named
parts, its types among them; a lemma shows that each action keeps each part it can
disturb, and the theorem joins the first state, the step and the conclusion. Bounds
of the model (`MaxLives`, `MaxCalls`, ...) are constants of these theorems like any
other: nothing depends on their values.

## 3. The action server engine

### Modules

* `ActionEngine` models `actions.rs` 907-1782 and the endpoint code it calls.
  Every operation that changes state is an action; one action is what the code
  does under one lock, or between two awaits, so that every other task may run
  between two of them.
* `ActionGoal` is what an action server promises its clients: a goal ends with
  one outcome; a result request is answered at most once, with that outcome, or
  with Expired once it is no longer retained, or is closed unanswered; a cancel
  is Signalled only for a goal that started, AlreadyTerminal only for one that
  ended. It knows no lock, loop or queue.
* `MCActionEngine` adds the symmetry set for TLC.
* `ActionEngineProofs`: types, safety, refinement.

### State

| variable | in the code |
|---|---|
| `up` | the `ConcurrentAction` has not been dropped |
| `registry`, `slot`, `waiters`, `terminal`, `cancelled`, `window` | `GoalRegistry` and, per goal, `GoalSlot`: `GoalState::Pending{waiters}` or `Terminal{evict_at}`, the `terminal` AtomicBool, the cancel token |
| `outcome` | the encoded result the winning transition retains (one value per kind of outcome) |
| `early`, `overdue` | `PendingWaiters`, and those in it past their deadline |
| `tombstones` | `ExpiredTombstones.order`; its `set` is the range |
| `stage`, `adopting` | program counter of accept / GoalContext, and the polls accept holds in a local |
| `delivery`, `drain`, `sentinels` | program counter of the winning `transition_terminal`, the waiters it holds in a local, messages that close the feedback |
| `resultLoop`, `cancelLoop`, `sweeper` | program counters and locals of the three loops |
| `target`, `poll`, `ack`, `informed` | history of the requests: what they name, where their responder is, what they were told, whether they were sent after the goal reply |

### Actions and code

`RecvNextGoal`, `Reject`, `AcceptRegister` .. `AcceptUnregister` are the steps
of `recv_next_goal` and `PendingGoal`; `Deliver` (complete, complete_cancelled)
or `Abandon` (the task that `GoalContext::drop` spawns), then `ReplaceState`,
`WakeWaiter`, `PublishEnd` those of `transition_terminal` and `deliver`;
`ResultRecv` .. `ResultReply`, `CancelRecv` .. `CancelReply` and `SweepRegistry`
.. `SweepEarly` those of the loops. `CloseWindow` and `PassDeadline` are the
passing of a time, `DropEngine` and the `..Stop` actions `ConcurrentAction::drop`.
`DropAccept` and `DropDelivery` drop a future at one of its awaits, as
`py_future.rs` does when an asyncio future is cancelled; `DropsFutures` turns
them on.

Locks appear where a task holds one over several steps: `EarlyLocked` (the
result loop holds `pending_waiters` from its second look at the registry to its
decision), `TombstonesLocked`, and `Busy` (the result loop holds a clone of the slot,
whose lock the sweeper's `try_lock` may find taken). A slot that leaves the registry
is freed with the last clone (`FreeSlot`): `AcceptUnregister` closes the polls it
adopted at once, or leaves that to the loop that still has the slot in its hands.

### Runs

| run | what it asks | instance |
|---|---|---|
| `EngineOneGoal` | every safety property of one goal while no future is dropped, and that the engine implements `ActionGoal` (`KeepsPromise`) | 1 goal, 2 polls, 1 cancel, caps 1 |
| `EngineTwoGoals` | tombstones: bounded, different, and only of goals that are over and gone, while one ages out and accept and complete futures are dropped at any await | 2 goals, 1 poll, caps 1 |
| `EngineLiveness` | parked polls are answered, early ones let go, feedback closes, terminal goals are evicted | 1 goal, 1 poll, 1 cancel, fairness |
| `EngineSweepGap`, `EngineCutOrphans` | two statements of comments that the code does not keep (below) | 1 goal, 1 poll |

The bounds: the properties relate one goal to its polls, so one goal shows
every interleaving of its task with the three loops; two polls are needed for a
poll that parks while another one is answered, and for a cap of one to be hit;
two goals for the tombstone cap of one to push one out. No counter
is cut off: the state space is finite because each request and goal is used once.

Fairness (`Fairness`): the tokio runtime polls every ready task, so each loop
and the engine's part of a goal's task are weakly fair; time passes, so windows
close and deadlines pass. Nothing is assumed of the user (when it accepts,
delivers or drops) nor of the clients. Where the engine may be dropped, the
liveness properties say so.

### Where comments and code disagree

* `EngineSweepGap` (`EvictedPollNeverParks`): a result poll that looks between
  the sweeper's removal of a goal and its tombstone parks as an early poll and
  is dropped 30 s later, although the comment says it is answered `Expired`.
* `EngineCutOrphans` (`WaiterHasOwner`): with a dropped accept future a slot
  stays Pending with no context, and polls parked in it are never answered. The
  route to it is a Python task that is cancelled while it awaits `accept`
  (`PyFutures`, `PyHandles` in section 6).

One more remark that needs no run: `on_next_feedback` (`actions.rs` 504-507) says
that an accepted cancel ends the feedback stream, and the only publishers of the
sentinel are `deliver` and the task of `GoalContext::drop`, both after a terminal
transition; the model's `PublishEnd` is therefore the only step that closes it.

### Proofs

For all sets of goals, polls and cancels and all caps (`EngineAssumption`):

* `TypeCorrect`: `Spec => []TypeOK`. The type invariant alone is not inductive
  (that a woken poll gets an outcome rests on the order of the steps of the
  transition), so `TypeInv` adds `Lifecycle` (how far the goal's task is fixes
  the state of its slot), `ResultHolds`, `CancelHolds`, `SweepHolds` (what each
  loop holds at each step) and `Asked` (a queued request has a target). It is
  shown to be kept by each action in turn.
* `WithdrawalCorrect`: `UnroutedSlotIsEmpty`, no poll stays open in a slot that is out
  of the registry, whatever a failed accept had adopted. From `Routed`: a pending slot
  is routable until accept takes it back, and from then on it holds polls only while
  the result loop has a clone of it.
* `SentinelCorrect`: `SentinelOnceAfterResult`, from `Closing` (the stream is
  closed exactly when the delivery is done; no poll waits in a terminal slot;
  only a draining delivery has polls in hand).
* `OwnerCorrect`: `WaiterHasOwner` when no future is dropped half way, from
  `Closing` and `Uncut`. The run `EngineCutOrphans` shows that the condition
  cannot be left out.
* `AdoptionCorrect`: `EarlyPollAdopted`, from `Adoptable`: while the result loop
  holds `pending_waiters` and has not found the goal, accept has at most
  registered it.
* `AnswerCorrect`: `AnswerIsOutcome`, from invariants on the outcome of a
  terminal slot, on what the result loop is about to say, and on buried goals.

* `TombstonesCorrect`: `TombstonedGone`, from `Entombed`: the tombstones are different
  and no more than the cap, and neither they nor the goals in the sweeper's hand are
  in the registry (`EntombKeeps` is the lemma on `ExpiredTombstones::insert`).
* `InformedCorrect`: `InformedRequestFindsGoal`, from `Findable`: a goal that was
  announced is in the registry or its window has closed, and whatever a request sent
  after the announcement met on its way (a loop's second look, the early polls, the
  tombstones, a reply being sent) says the same.
* `ResponderCorrect`: `ResponderInOnePlace`, from `Placed`: a responder that was
  taken is in the result loop's hand, among the early polls, or with its goal (to
  be adopted, parked in its slot, or in the drain of a delivery), and in no two of them.
* `EngineKeepsPromise`: the refinement `ActionEngine => ActionGoal` step by step. The
  mapping is `View`, `Unserved` and `Told` in `ActionEngine`: a goal is decided when
  the first delivery swaps `terminal`, and a poll's answer is what its responder was
  consumed with. `Judged` adds that what the cancel loop is about to say is true and
  not said twice; then each action is shown to be a step of the abstract
  specification or a stutter, also with futures that are dropped.

`AnswersHold` is the invariant that the later ones rest on.
Liveness is out of the prover's reach and stays with TLC.

### Left out

Feedback messages (only the end of the stream is modelled), payloads, logging,
and the services' acknowledgement protocol (the subject of `ServiceCall`): a
request reaches its loop once. Nor do slots that are leaked close what they hold when
the registry itself is freed in the end. Goal ids are drawn once. `CloseWindow` may come
at any time after the transition, which covers every retention time.

## 4. Service calls

### Module

`ServiceCall` models the caller (`ServiceMessenger::poll` and `is_reachable`,
`services.rs` 389-491; `MessengerHandle::poll_service`, `messaging.rs` 490-623;
`discover_producer` and `probe_reachable`, `discovery.rs`), the endpoint
(`recv_next_request`, the responder and `deliver_outcome`, `services.rs` 18-194)
and the query dispatch of the zenoh adapter (`zenoh.rs` 1292-1369), with any
number of calls and producers at once. `MCServiceCall` adds the symmetry set,
`ServiceCallProofs` the theorems.

The zenoh library is not in the repository. It is modelled from its use: a query
goes to the matching producers the session has learned of (`Learn`, `Forget`);
its reply stream ends when every producer has dropped its half of the query, has
died, or has lost its link (`BreakLink`, if `LinksBreak`); a query to an
endpoint that is gone is dropped on its way (`LoseQuery`). Replies of different
producers arrive in any order, as their queries are dispatched in any order.

### State

| variable | in the code |
|---|---|
| `phase`, `waiting` | where the caller's future is: `discover_producer`, the addressed request, or `probe_reachable`; reading the reply stream or about to issue the next query |
| `scope`, `pin` | the `ServiceTarget`, and the producer it was resolved to |
| `bounded`, `spent`, `capped` | is there a `response_timeout`; has it passed; has `DISCOVERY_TIMEOUT` |
| `attempt`, `acked`, `replies` | queries issued, `received_ack`, the `ReplyStream` of the last query |
| `verdict` | the `Result` the call returned |
| `status`, `known` | an endpoint's life, and what the callers' session has learned of it |
| `net`, `inbox`, `stuck`, `serving` | a query on its way; in the bounded queue of `ServiceQueryable`; in a dispatch callback blocked on that queue; acknowledged, with a responder that is not consumed yet |
| `severed` | queries whose link broke: their replies reach nobody |
| `accepted` | history: the producers that acknowledged a call |

### Actions and code

`PollPinned`, `PollScoped` and `IsReachable` begin a call. One turn of
poll_service's loops is `GiveUp` (deadline at the head), `Issue` (call_service),
`ReadAck`, `ReadPin` (discovery resolved), `ReadAnswer`, `StreamEnds` (with or
without a retry), `Expire`; `DropCall` is a caller that drops its future.
`PassBudget` and `PassDiscovery` are deadlines that pass: a deadline may pass
before any step, which covers every value of the timeouts. `DispatchProbe`
answers a probe in the dispatch path; `DispatchRequest` queues a request or
blocks, `Unblock` ends the blocking. `TakeRequest`, `RefuseRequest`,
`FinishRequest` and `DropResponder` are what the endpoint's user makes happen;
`Spawns` says whether it may take a request while it handles another.
`Listen`, `CloseEndpoint` and `Crash` are the life of an endpoint.

### Runs

| run | what it asks | instance |
|---|---|---|
| `Messaging`, part call | one taker per call, no answer but its own, a retry only of what nobody took | 1 call of any kind, 2 producers that come, go and crash, queue of 1, 3 queries |
| `CallLiveness` | a call with a budget returns whatever the producers do, one without when its producer dies; with links that break and heal, no timeout out of nothing | 1 call, 2 producers, queue of 1, 2 queries, concurrent handlers, fairness |

The bounds: two producers make discovery a race and let the late reply of the
one that lost it meet the request to the other; three queries are a discovery,
a request and its retry; a queue of one is full after one request (in
`CallLiveness` the second attempt of a call whose link broke finds the first one
still queued, and blocks). `MaxAttempts` bounds the queries of a call, which in
the code only its deadline bounds: a call that has used them up waits for its
deadline. Several calls at one endpoint are covered by the theorems, which hold
for every number of them.

Fairness (`Fairness`): the runtime polls a caller's future when it can go on,
deadlines pass, the session delivers a query that it has taken, and a dispatch
callback goes on when the queue has room. Nothing is assumed of the endpoint's
user (it may never take or answer a request), nor of producers that come and go.

### Remarks

With the request queue full the dispatch callback blocks in a send until the
endpoint's loop takes a request (`DispatchRequest`, `Unblock`), and probes behind
it wait for that loop, although they need none. A probe is never acknowledged, so
one that runs into its timeout is reported as unreachable and `is_reachable`
returns false for a producer that is merely slow (`discovery.rs` 78). No call
hangs for it: `CallsReturn`. And the acknowledgement is sent by `recv_next_request`
when the loop takes the request, not when it arrives, so a request that waits
behind a running handler is reported as `ServiceUnreachable` at its deadline.

### Proofs

For all sets of calls and producers, all queue capacities and numbers of
queries (`ServiceAssumption`):

* `TypeCorrect`: `TypeOK` is inductive as it stands.
* `AnswerCorrect` (`AnswerIsMine`) and `TimeoutCorrect` (the action property
  `TimeoutWasReached`: a poll that times out was acknowledged before, or its target is
  resolved by that very step, too late to send it anything), with or without broken
  links. The invariant `AnswerInv` follows the chain from
  an endpoint to a verdict: what an endpoint holds are requests addressed to it
  (`HeldHere`); what it serves it has acknowledged (`ServedAccepted`); a probe
  is older than the request of its call, so its late reply is not read in that
  one's place (`QueriesAged`); so what a call has read, and how it returned, rests
  on an acknowledgement (`CallsInformed`).
* `HandledOnceCorrect` (`HandledOnce`) and `RetryCorrect` (`RetriedIfUnreached`)
  for `~LinksBreak`. `OnceInv` says that a request that was not taken is in one
  place (`OnePlace`: on its way, blocked, or at one position of one queue), that
  it belongs to the last attempt and is addressed to the pin (`Pinned`), and
  that the acknowledgement of one that was taken has been read or is there to be
  read (`Settled`). When the reply stream ends without one, nobody took the
  request. With broken links this is not so (the stream also ends when the link
  of a producer that holds the request breaks), and the condition is needed:
  without it a retried request may be taken twice.

* `MockCallsCorrect`: `MockKeepsProtocol` of `MockCalls` (section 7), for any
  callers, endpoints, bystanders and channel sizes. `MockCallsInv` has four parts:
  types; that no channel of an endpoint holds a call twice (`Channels`); that a call
  is at one place of an endpoint, either still to be sent, or in one of its
  channels, or with its handler, or over (`Endpoints`, by `OncePerEndpoint`); and
  that what a caller has read, what is in its stream and what an endpoint has done
  are one history (`CallerViews`).

Liveness (`CallsReturn`) is model-checked only.

### Left out

Payloads and their codec, the mapping of a producer's error to a message, and
logging. The mock adapter's side is in `MockCalls` (section 7). That a retried goal
request carries the same goal id is not followed into the engine: `HandledOnce`
rules the second delivery out while links hold.

## 5. The action client

### Module and state

`ActionClient` models `ActionMessenger::send_goal` and `request_result`, the
feedback stream of `ActionGoalHandle` and the task
`run_producer_liveliness_watch` (`actions.rs` 303-905), with one goal to one
pinned producer, an instance that may die and be started again under the same
identity.

| variable | in the code |
|---|---|
| `life`, `up`, `announced`, `flaps` | the producer process (external) and its liveliness token as the consumer's session sees it |
| `owner`, `sent`, `ended`, `wire` | the start of the producer that took the goal, what it published, what is under way |
| `open`, `phase`, `buffer` | the session, the progress of `send_goal` and the handle it returns, the feedback subscription |
| `events`, `watcher`, `absent` | `ActionLivelinessWatch.rx`, the program counter of the watch task, the count in `confirm_producer_gone` |
| `gone`, `reader`, `woken`, `told` | the latch of `ProducerGoneWatch`, the program counter of `on_next_feedback`, its `Notified`, how the stream ended |
| `misled`, `blamed`, `ready`, `got`, `abandoned` | history |

`Subscribe`, `Watch`, `SendGoal`, `GoalReply` are the awaits of `send_goal` in
its order; `FailGoal` and `DropHandle` release everything, as the drops do.
`WatcherReads` .. `NotifyWaiters` are the watch task: the initial resolve with
its timeout, the loop, the probes with a delay before each, and `declare_gone`
(the latch, then the waiters). `TakeFeedback` .. `Park` are the reader: the biased
select, the look at the latch before and after `enable` of the notification.
`ResultOfGone` and `ResultProbeFindsNone` are the two ways `request_result`
resolves to Abandoned.

### Runs

`Clients`, part action (2 lives, 1 flap, 1 feedback message, fairness): the latch blames no
producer that lives (`GoneIsTrue`), a stream closed by its sentinel has returned
every message and what is buffered comes first (`NothingMissed`), a stream whose
producer stays away ends (`DeadProducerReported`: between the latch and the
parked reader no wakeup is lost). Two lives make a restart under the same
identity, one flap a token that vanishes once more than it should, one message
a sentinel with something in front of it.

`FlapLimit` is an assumption on the environment, and the reason why there are
two probes: during one confirmation at most that many probes miss a producer
that lives. With `FlapLimit = 1` two probes are enough and one is not.

Fairness: the runtime polls the watch task and a parked read, messages arrive,
and the session's view of a token catches up. The user has to go on reading.

`ClientColdStart` (violated): the watch starts before the goal is polled, and a
producer that comes up after the resolve timeout and both probes is reported
gone by the handle of a goal that it accepted afterwards.

### Remarks

* The subscription is taken to be effective when `subscribe` returns; then the
  goal, which is sent after it, cannot be overtaken by its own feedback.
* A producer that restarts under its identity before the confirmation is over
  hides the death of the first one: nobody closes the old goal's stream.
  `DeadProducerReported` says so.
* `request_result` probes once, not twice, so Abandoned may be
  said of a producer whose token flapped; nothing is claimed of `abandoned`.

### Proofs

In `ClientProofs`, for any numbers of lives, flaps and messages:

* `GoneCorrect`: `GoneIsTrue`, if `FlapLimit < PRODUCER_GONE_CONFIRM_PROBES`.
  `Probing` says what the watcher has found out at each of its steps: of the probes
  that found no token, one that was not misled met a producer that did not run, and
  a report is only made with the count full.
* `FeedbackCorrect`: `NothingMissed`. `Flowing` accounts for every message the
  producer sent: it was returned, is buffered or is on the wire, and the sentinel
  comes after all of them. `Listening` ties the reader to the handle and its owner.

`DeadProducerReported` is liveness and stays with TLC.

## 6. The node's life and its Python objects

### `NodeLifecycle`

`NodeBuilder::run` with its select, the hooks of `NodeRunner`, the shutdown
service, the bridge from signals to the token and the watchdog
(`builder.rs`, `node_runner.rs`, `services/shutdown.rs`, `daemon_watchdog.rs`).
`stage` is the program counter of `run`, `registry`, `queue` and `ran` are the hooks
before, while and after they run, `hookKind` what each does (end, hang at an
await, hang on a blocking thread), `bridge` and `watchdog` the two tasks, `waited` and
`beat` the watchdog's delay and subscription. Each select is one action per
branch; the hooks' window of grace may end at any time (`GraceEnds`).

The watchdog's window is counted in units of time: `waited` is how long the window has
been open, `quiet` (history) how long no beat has arrived. Time passes whether or not
the watchdog's task gets to run (`Tick`), so the window may be long over before the
task looks, with a beat in its subscription or without. Two things are assumed of the
daemon, which is not in the repository: while it is alive a beat arrives within every
window, and it is back when its first beat arrives. Beats that wait are read as one, and
subscription and window end with the task. `Grace = 2` lets a window be neither new nor
over.

`HooksFinished`: whatever ends the node, hooks registered before shutdown finish,
once each and in reverse order, unless the window ends, a second signal comes or
setup panics. `LiveDaemonKeepsNode`: the watchdog stops the node only if the daemon is
down and no beat has arrived for the whole grace period, so a daemon that is back
within it keeps its node however late the watchdog's task runs. `StopEndsNode`:
a request, a cancelled token or a dead
daemon ends the process. Fairness is that of the runtime for the node's own
tasks and of time for the windows; setup and hooks need not return.

Remarks. A panic of setup unwinds through `block_on` and skips the hooks.
The end of the shutdown service's task drops its sender and so counts as a request.
In standalone mode nothing selects around setup, so a first Ctrl+C during setup
waits for it to return (`ObserveStop`). With `HooksBlock = TRUE` a hook that hangs on
a thread of the blocking pool holds up the drop of the runtime after its grace
window, and `StopEndsNode` fails; the run has `HooksBlock = FALSE`.

Proved for any number of hooks: `HooksCorrect` (`HooksFinished`), from
`HooksInOrder` (what ran, what runs and what is still queued are the registered
hooks, last first) and `HooksKept` (the ones registered in time are among them); and
`WatchdogCorrect` (`LiveDaemonKeepsNode`), for every grace period: the invariant says that
a daemon that is alive has been quiet for less than a window, and that a beat which
arrived after the window was opened is still there to be read.

### `PyNode`

The same run from Python (`peppylib-py/src/runtime.rs`): the event loop on its
own thread, the monitor that drains it if the token is cancelled during setup,
the user's hooks, the drain hook registered before them and the final quiesce. Of
asyncio (external) it has the turns of the loop: `batch` runs to its end, `next`
is the batch after it, `stop` takes effect between two batches, a task that ends
schedules the callback that sets the future a Rust thread waits for. SystemExit and
KeyboardInterrupt are not kept in a task's future: raised by a task (`AfterTask`), by its
clean-up when it is cancelled, or by a callback of the user's (`UserCallbackExits`), they
leave `run_forever` at once and what was scheduled is never run. Then the loop's thread
prints what it caught, cancels the node and ends (`LoopThreadReports`,
`make_run_loop`). A task of the library's raises neither; every other exception stays
in its task.

`LoopOutlivesHooks`: nobody stops the loop until the builder has returned; only the
user's own code can leave it, and once the thread has ended for that, the node is
cancelled. `CancelledNodeLeaves`: a cancelled node leaves `run`, and while the loop is
there without help of a grace window, so no hook waits for a future that the loop will
not set any more. Fairness: the loop turns, cancelled tasks clean up, the user's hook
returns, threads are scheduled; setup need not end. The hooks' window is fair only where
the loop is gone: then a hook whose coroutine was already on it has nothing else to wait
for.

Remark. `CancelledNodeLeaves` has one exception, `SetupStranded`: a standalone node whose
setup was cut short by a SystemExit. `builder.rs` 422-428 awaits setup in no select, and
the monitor, which `runtime.rs` 603-608 says unsticks a setup, finds the loop not
running and drains nothing; such a node stays until a second signal.

`PyMonitorRace` (violated, `MonitorSparesHooks`): the monitor decides, loses the
interpreter, and drains the task of a user's hook later.

Proved: `LoopCorrect` (`LoopOutlivesHooks`). `LoopUnstopped` says that no callback
that stops the loop is in either batch before the final quiesce, and that a loop whose
thread has ended before was left by the user's code, with the token cancelled.

### `PyFutures`

`future_into_py` and the gate that closes when the interpreter exits
(`peppylib-py/src/py_future.rs`). `rust`, `delivery`, `pyFuture` and `completors` are
how far each call has come, `gil` and the `gate..` variables the two locks,
`mainAt` the interpreter's exit, `ownLoop` a shutdown hook that drives its awaitable
in a loop of its own inside the gate.

`CrossingIsSafe` is one invariant of three parts: nobody is attached once the
interpreter finalizes, the thread that closes the gate and those inside it never
wait for each other, and no asyncio future is completed twice or after its
cancellation. Two calls and a hook are enough for a reader, a waiting writer and a reader
behind it.

Remark. With `DaemonThread = TRUE`, a `run` on a daemon thread that the exit does
not join, the second part fails: the hook waits inside the gate for a delivery
that the closing writer keeps out.

Proved for any number of calls: `CrossingCorrect` (`CrossingIsSafe`), if
`~DaemonThread`. `GateTold` says that the readers of the gate, the holder of the
interpreter's lock and where each delivery and the exit are tell one story;
`OneCompletion` that a future is completed by the one delivery that has looked at
it.

### `PyHandles`

The objects that asyncio tasks of a Python node share: a subscription, the handle of
a goal, a service endpoint, an action with its pending goals
(`peppylib-py/src/messaging.rs`, `messaging/`, `clock.rs`). One of them is shared in a
behaviour (`object`); `queue` is its tokio mutex with who waits for it, `doing` how far
the Rust future of each call is, `future` its asyncio side, `unread`, `peer` and
`over` the other side. `TakeNext` .. `SendEnds` are the awaits of
`on_next_message`, `on_next_feedback`, `handle_next_request`, `recv_next_goal`, `accept`,
`reject`, `poll` and `publish`; `CancelTask` and `DropFuture` cancel a task, and drop its
Rust future, wherever it waits.

`SharedSafely` has six parts: a sender that was acknowledged is answered, unless
whoever had its request was cancelled or Python exits; what a task is told of a
decision is what the client was told; one call decides a goal; nothing that
arrives is skipped or given twice; a closed stream and a lost producer raise
different errors; and whoever has a lock still needs it, so that nobody waits
behind a call that may never end. That `on_next_tick` raises ValueError for a tick it cannot
decode (`clock.rs` 248-249) is left out: the message is taken either way. Two tasks that
take or send (`MaxTakers`), since each
part is about a call and one other, and a third for a second decision on one goal; two
arrivals, for one that waits behind another.

Proved for any number of tasks and arrivals: `SharedCorrect` (`SharedSafely`).
`HandlesInv` has seven parts, of which three carry the argument: a task is in the
queue of the lock at most once (`InQueue`), what a Rust future holds has left
`unread` and is held by no other (`Held`), and what the peer was told agrees with
what the call returned or is about to (`Said`, `Answering`).

## 7. Addresses, topics and adapters

### `WireFormat`, `WireRouting`

`WireFormat` has the key expressions of `wire/zenoh_format.rs` as sequences of
chunks, the constructors' validation (`wire.rs`), zenoh's matching as the mock
adapter copies it, the parsers of the receiving side and the attachments' magic
bytes. It has no state. `WireRouting` puts one message under way, from any
sender, and compares the matching with whom the address means:
`RoutedAsAddressed` says that the two agree for topics, requests of services and
of actions, feedback streams and tokens, that none of these meets another, that
requests, probes and replies are told apart, and that the receiver can name the
sender. The words contain one that is also a literal of the format (`topic`), the tags one
that is normalized and one that becomes the reserved link id.

Proved for any words and tags: `RoutingCorrect` (`RoutedAsAddressed`). The invariant is
small, the message under way is one the constructors make (`WireType`); the work is in
the keys. Without the wildcard of many chunks, which no key of this repository has,
zenoh's match comes to chunk by chunk (`IntersectPointwise`, by induction). Keys are
then taken apart into what is in front of the target, the target and what is behind
it, and each part meets exactly what it should (`TopicsMeet`, `RequestsMeet`,
`FeedbackMeets`, `TokensMeet`); the lengths, the literals and the suffixes keep the
kinds of message apart, and `NamesPlain` says that no accepted name is a wildcard or
empty. `InboundQuery` and `ReplyRead` do the same for the parsers.

Remarks. The tags `t-1` and `t_1` are the same after normalization, and so are the
nodes that differ in nothing else. `parse_inbound_query` looks at neither the name
nor the suffix of a request, so routing is all that keeps services of one node
apart. A reply's key does not match the selector it answers; the adapter accepts
that by `accept_replies(Any)` (`zenoh.rs` 887).

### `Topics`

The slots of a consumer, the bindings of its producers, the filter that
`resolve_consumer_filter` derives, subscriptions and the reservation of from_any
topics (`filter.rs`, `topics.rs`, `messaging.rs` 334). The action `PublishTopic` appends
to the queue of each live subscription that matches, and to `meant`, a history of
what the slot should get by the rules of the comment (`MeantFor`). `SlotGetsItsOwn`
compares the two in order; `ReservationIsLive` says who holds a reservation and
that two live from_any subscriptions never see one publish.

Bounds: two producers with the same instance id on two cores, two types, two slots
(one may be bound, unbound or pinned, whichever the other is), two subscriptions
and two messages.

`TopicsPython` (violated): the Python binding knows a pin or no filter at all, so
a from_any slot gets the messages of its pinned sibling's producer.

Remark. The reservation's key has no topic name: one from_any subscription at a
time per type, whatever it subscribes to.

Proved for any slots, bindings, producers, topics and subscriptions:
`ReservationCorrect` (`ReservationIsLive`, for Rust and Python nodes), from
`TypesApart` and `ReservedOnce`; and `SlotsCorrect` (`SlotGetsItsOwn`) for Rust
nodes, from `OwnInv`: what was handed over and what is queued is what was meant,
with ascending numbers.

### `MockLiveliness`

The tokens, guards and watches of the mock transport (`mock.rs`), on the key
expressions of `WireFormat`. `LivelinessIsTrue`: a probe finds a producer exactly
while a guard of it is held, across restarts of the session, and a watch's last
event agrees. A guard that outlives its session and is dropped after the next
declaration of the same token takes that one down (`mock.rs` 405):
`GuardsOutlive = TRUE` violates the property, and the run has `FALSE`.

Proved for any actions, clients and restarts: `LivelinessCorrect`, if
`~GuardsOutlive`. `Counted` says that the count of a token is the number of guards
that hold it, `Watched` that the last event of a watch is Gone when no guard is held
that it sees, and Alive when one is and its client is pinned. It needs one fact about
the matcher, that the watch of a pinned client names every slot of the key and so meets
one token at most (`OneToken`, from `TokensMeet`).

### `MockCalls`

A service call through the mock adapter: `call_service` (the queryables that match,
then one send after the other with the messenger locked), the task that forwards
queries to an endpoint (`handle_mock_queryable`), the response tokens and the
endpoint of `services.rs` on top of them. `MockKeepsProtocol`: an endpoint that ran
its handler acknowledged first and answers at most once after it, probes and
foreign queries reach no handler, and a stream that closes without an answer
means that none is to come; if it closes with nothing at all, nobody ran, and
`poll_service` is right to repeat the call. Two callers and two endpoints, each with
channels of one, so that senders block and requests wait for a caller that has
gone.

`MockCallsCorrect` (section 4) proves it for any number of them.

### `Transport`

What is published on its way through either adapter: the mutex that the tasks of
a process share, publishers bound to a quality of service, subscriptions with
their bounded channels, the mock's `route_publish` and the zenoh adapter's
callbacks, emissions with a primary message, and `wait_for_matching_subscriber`. The
network under the zenoh adapter is external: `network` holds what was put, up to
`LinkSize`, and what happens when it is full is the congestion control of the
sample. `MessagesArrive`: what a live subscription was promised is read, buffered or
under way; messages of one publisher come once and in order, and of an emission
one; a task that waits for a subscriber has been told of the one there is (no
wakeup is lost between the look and the listener). Two tasks, buffers and link of
one, three subscriptions and messages in all.

Proved for both adapters and any tasks, channels and links: `TransportCorrect`
(`MessagesArrive`). The argument follows a message from its publisher to a
subscription through the calls of tasks, the network and the buffers: whatever is
behind it on that way has a greater number (`Ahead`, in `SubscriptionsKept`), a task
that waits for a subscriber holds the lock, and the last event it was sent agrees
with the subscribers there are (`WaitsKept`).

Remark. Three waits are made with the messenger locked: for a subscriber
(`messaging.rs` 465), for room in a channel of the mock (`mock.rs` 257) and for a
congested link. Meanwhile every other task of the process that wants the
messenger waits as well. No property claims that these end.

### The run `Messaging`

The parts of sections 4 and 7 but for `Topics`, `PyHandles` and `RouterSession`
(section 8): 504 908 states. Callers,
endpoints, producers and sharing tasks are interchangeable (`Interchangeable`); the
properties do not tell them apart, and each permutation touches one part only.
Deadlock is not looked for: a call that has returned and a message that was read
leave nothing to do.

## 8. Sessions, routers, launches and manifests

### `RouterSession`

The adapter as its owner drives it (`zenoh.rs`, `zenoh_config.rs`, `zenohd/facade.rs`,
`zenohd/router_config.rs`, `org.rs`): the builder's calls in any order, the
operator's overrides, sessions that are opened and replaced, the child process
with its three outcomes, refederation and drop. `TenantsApart`: a session of an
organization that federates has its namespace, whatever was overridden, and
retries if it was asked to. `RouterAsTold`: the zenohd that runs is the one the
adapter holds, none is left when it is dropped, and it federates as it was told.

Remarks. A router that does not listen in time is left running without a handle
(`facade.rs` 271-276; `lost` in the model, exempted by `RouterAsTold`). When the
protocol is not TCP nothing looks for a listener before a second start, and the
first child's handle is replaced (`TcpBased = FALSE` violates `RouterAsTold`).
Two adapters on one port would share the rendered file; the model has one adapter.
A local session with an operator's override keeps what the operator says, without
a namespace if it says none.

Proved for any organizations and numbers of starts: `TenantsCorrect`
(`TenantsApart`, for every protocol; `SessionInv` says that the namespace held by
the adapter is the organization's), and `SessionsCorrect` (`SessionsAsTold`, if
`TcpBased`; `RouterInv` says that a child that runs and is not lost is the handle's,
and was started from the file that is there).

### `NodeArguments`

From `peppy.json5` to the arguments of a running node: the parameter schema and its
defaults (`common.rs`, `node/types.rs`), a mount's references (`node/parse.rs`), the
fingerprint (`fingerprint.rs`), the daemon's filling in of defaults (external, by the
library's `apply_parameter_defaults`), the launch file read back through JSON5, and
the node's own reading (`processor.rs`). A value is a tree: a function from its
places, which are paths of field names and indices, to nodes tagged as `AnyType`'s
variants. A parsed schema is one too, where one step leads to what all elements of an
array have in common, so what the code does by recursion is said of all places at once.
Integer widths are scaled (u8 to 2 bits, u64 to 5) and keep the order of the bounds. Of
a float the model keeps whether it fits and, if it is whole, its value (`Whole`): the
launch file is written with `serde_json5`, which drops a zero fraction, so a whole float
is read back as an integer (`RereadAs`). Then `check_f32` wants it within the integers
that f32 holds without loss, and a type of integers that refused the float takes it.

`ArgumentsResolved` has three parts. `RunsAsDeclared`: a node that runs has what its
launch named and the declared default otherwise, up to the variant a number is read as,
by the manifest its code was generated from. `StartsIfLaunched`: a declared default is of
its type, and a start from a launch file comes to the same as validating at once: filling
in, writing, reading and checking again neither refuse what was good nor let pass what
was not. `MountsResolve`: a mount's references are texts.

Proved for any manifests, arguments and numbers of edits: `ArgumentsCorrect`, if
`~EditsMidStart`. The invariant `ArgInv` has three parts: the launch file is what the
launch named, filled in by the manifest it was launched by, and read back (`LaunchInv`);
a node that starts in daemon mode has checked the manifest that is there, and reads
the one its code was generated from (`StartInv`); it runs just if what it was given
resolves, and with what that resolves to (`RunInv`). The rest is about trees: a
filled-in value lacks nothing (`NothingLacks`), so filling in, writing, reading and
validating again changes no verdict where the values read alike (`ReadBack`); a default
that parsed fits its type (`DefaultParsed`), since the bounds of the parser and of the
check are the same, and also when it was read back if it reads alike (`ParsedDefaultsFit`);
and a path that names a text in the schema leads, group by group, to a place of the arguments (`MountIsThere`, by induction along the path).

Remarks. `new_daemon_from_path` reads the manifest twice; an edit in between
runs a node by a manifest its code was not generated from (`EditsMidStart = TRUE`
violates the property). Nothing ties the launch file to a manifest, so two of the
claims are made for a launch by the manifest the node reads (`LaunchedByIt`).
The second reading skips `validate_execution` and the checks of `depends_on`. The second
validation is not always the first: a whole float beyond 2^24, such as the f32 default
2e7, comes back as an integer that `check_f32` (`common.rs` 733) refuses, so the daemon
accepts the launch and the node does not start; and a whole float named for an integer
type, which validating at once refuses, starts. `StartsIfLaunched` and `DefaultsFit`
except exactly these values (`ReadsOtherwise`), and both cases occur in the run.
Elements of an array given for `bytes` are not looked at, nor are they in the model; whole
floats beyond 64 bits are not among its values, and it keeps an integer that is read
as a float apart from that float by its variant only.

### `Manifests`

A node's `peppy.json5` as it is read, checked, written and compared
(`peppy-config-model/src/node/types.rs`, `parse.rs`, `mount_policy.rs`), a stack of
such nodes checked against each other (`node/validation.rs`), and the launch file
`RuntimeConfig` (`runtime.rs`). A document is a function from the keys it has. An operator
that reads one returns the set of what it may be read as, one value or none, so that
every refusal of serde and of the validators is an empty set; an Option is a
sequence of none or one. `stack` holds what `LoadNode` read, `replaced` the interfaces
the node had before, `saved` and `launch` what `SaveLaunchConfig` was given and wrote. An
older daemon writes fewer fields of the `discovery` block.

`ManifestsHold` has four parts. `WrittenConfigsAreRead`: a configuration and a launch
file are read for what was written, with everything that was left out because it
is a default (of a field, or of a whole block, which need not be the same).
`FormatsAreFlat`: whatever variant an untagged schema is taken for, no array of arrays
and nothing optional inside is accepted. `ReportIsRight`: the report on a node names
exactly what its links do not lead to and what the node at the end does not
offer. `MatchingServesAlike`: interfaces that `matches_unordered` are interchangeable for
every other node of the stack.

The documents are in `MCClients`: 17 schemas, 36 executions, interfaces in
several orders with names that differ by a space, slots and links. Left out: keys
given twice, and fields nobody looks into (`labels`, digests, `build_cmd`).

Remarks. `types.rs` 674 looks for `${parameters:` in the source of a mount, which
ends at the first colon and so never contains it: the branch cannot be taken, and
a source that begins with a reference passes for the directory `${parameters`
(`SourceOf`). An empty source counts as the root and is refused.

## 9. Time, pace and the simulator

### `ClockSync`

The exchange of four stamps with saturating arithmetic, and the simulated clock
that a task feeds (`clock.rs`). The core node may lie and a clock may be set once in
an exchange. `ClockIsTrue`: with honest clocks the offset is off by at most half the
delay and a rounding; saturation never turns a sign or makes a delay up; a simulated
clock is ready from its first tick, a tick at zero included. Integer widths are
scaled: `StampMax` is u64's largest, `OffsetMax` i64's, so that offsets beyond i64
happen.

Proved for integers of every width: `ClockCorrect` (`ClockIsTrue`), from the order
of the four stamps (`StampsAscend`) and the ticks that were seen (`TicksTold`). The
lemmas bound a sum that saturates and a half that is rounded towards zero.

### `Pacer`

`pace` (`src/control_core/src/pacer.rs`) against a clock that moves at any step.
`PaceIsKept`: two cycles are a period apart but for one late wake-up, deadlines do
not drift however late wake-ups are, and every overrun is tallied until it is
reported. Three periods, zero among them, lateness of one unit and fourteen units of
time give several overruns and reports on one timeline.

Proved for every period and lateness: `PaceCorrect` (`PaceIsKept`). The property's
own parts are inductive once it is known that without an overrun there is no
lateness; the arithmetic is that of whole periods (`WholePeriods`).

### `SimBridge`

The pipelines between a simulator and the nodes (`src/sim_bridge_core/src`): one
for each arm's commands, one for telemetry, the joint vector they share and `run`,
which spawns and awaits them. `pipes` is where each pipeline is, `joints` is
`ArmMergeState.inner` (one number per arm, the command it was last set by), `carried`
what a pipeline is about to emit.

`CommandsKept`: what is under way is new for its arm and takes no arm back behind
what the simulator had when the command was received. `BridgeEnds`: a cancelled
token ends `run`, with every pipeline over and panics reported. The user's
functions have to return; `MaxPasses` stands for a select that takes ready
branches in random order and so passes over the token finitely often.

Remarks. Handles are awaited in their order, so a panic of a later pipeline is
silent while an earlier one runs (`bridge.rs` 102-108). A subscription that closes
at once is opened again without a pause
(`src/sim_bridge_core/src/pipeline/subscriber.rs` 61-64). A command whose emit fails
is lost. A vector taken before another arm's may be sent after it, which takes that
arm back by one command until its next one; `CommandsKept` looks at what the
simulator had at the merge.

Proved for any number of arms and commands: `CommandsCorrect` (`CommandsKept`): the
number of an arm's last command only grows, and what a pipeline carries is no more
than what the shared vector has. `BridgeEnds` is liveness.

### The run `Library`

The parts `NodeLifecycle`, `PyNode`, `PyFutures`, `Topics`, `NodeArguments`,
`ClockSync`, `Pacer` and `SimBridge`, side by side (section 2): 357 312 states. The
constants and the input sets are in `Library.cfg` and `MCLibrary.tla`; bounds are
named in each module ("bound of the model"). Deadlock is not looked for, since most
of these parts may come to rest: a node that has exited, a message that has arrived.

## 10. The core node

### `CoreNodeFields`, `CoreNodeApi`

The messages between a core node's daemon and whoever talks to it
(`core-node-api/src/encoding/`, `graph.rs`). `CoreNodeFields` says how a field travels: a
leaf is a table with the values a sender may hold, what is put on the wire for
each, the wires a receiver may meet and what it reads in them; structures, lists,
choices and fields with a default are built from leaves by `Put` and `Get`.
`CoreNodeApi` has each of the 66 messages as a table of its fields and one message
under way (`call`), from a sender of this version, an older one that does not know
the newer fields (what it leaves unset reads as Cap'n Proto's default), or any
other peer, whose wire may be anything the schema allows. In a message one
field is varied at a time, the others hold their usual value.

`SymmetricCodecs`: what a sender holds arrives as it was wherever it means
one thing; it is refused only if something in it means nothing; whatever is read, from
whomever, is sound and can be passed on; an older peer is never refused, nor are
its instances read as unhealthy or its limits as zero. The interesting fields are
those where absent and empty look alike on the wire. `MaxItems = 2` stands
for the 32 bit length of a list.

### `CoreNodeClient`

The datastore client and the other services of a core node
(`peppylib-rs/src/datastore.rs`, `core_node/transport.rs`): two callers, two daemons
(external) with the state they hold, requests and replies under way. A call may
time out while its request is still to be handled. `AnswersAreTrue`: what a caller is
told was so at its own daemon at some moment while it waited, a missing key is not an empty
value, a reply of a call that was given up is not taken for that of the next, and
`node_stop` stops no node of another core node that has the same name.

Remark. The documentation of `DatastoreKey` (`datastore.rs` 118-119) asks for the
characters of a node name; the code accepts any text that is not empty.

Proved for any daemons, callers, keys and calls: `AnswersCorrect`
(`AnswersAreTrue`). Every call has an id of its own, which its request and its reply
carry (`Numbered`), and a reply says what was so while its call waited (`Shown`).

### The run `Clients`

`ActionClient` (section 5), `CoreNodeClient`, `CoreNodeApi` and `Manifests`, the
last one for formats and executions, for the stack and for launch files: 549 682
states. Two calls are enough for one that is carried out after its caller gave up
and for two callers that write one key; larger numbers add no kind of overlap that
the properties tell apart. Deadlock is not looked for: a handle that was dropped
leaves nothing to do.

## 11. Not modelled

* Kinematics, collision models and rigid bodies (`src/srs_model`,
  `src/bimanual_collision_model` and their relatives): floating-point geometry
  without shared state. TLA+ has no floating point, and a model over integers would
  say nothing about tolerances, which are what is hard there.
* The arm's CAN driver: calls into a foreign library, whose state is not in the
  repository.
* The simulator extension: callbacks of a host program that is not in the repository.
* Of the configuration model, the message sizes, the repository ids and the
  daemon's own configuration file: read and checked field by field.
* Of the adapters, endpoint strings, TLS files and tuning of the zenoh library, and
  the bounds of the mock's reply channels.
* Of the Python bindings, getters and the wrappers of message types.
* Build scripts, test support, examples.

What remains of the repository's lines are these parts, tests inside the sources,
argument structs, error types, logging, code for one API mirrored in another
language, and generated code.

Out of the prover's reach and so model-checked only: the liveness properties, and
`WrittenIsRead`, since what a schema or a message reads back as is defined by recursion
over its data (`Manifests`, `CoreNodeFields`, `CoreNodeApi`).
