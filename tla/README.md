# Verification of nestjs-nats-transport

TLA+ specifications of the parts of this library that are hard to test: the life of the server and
of its connection, the consumers of JetStream messages, the processing of one message, the
connection of the client, the streams and consumers that several services set up together, and the
identifiers and errors that travel from service to service. TLC checks them on small instances,
TLAPS proves the safety properties and the three refinements for every instance. The specifications
are translated from the code in `src/src/`; `PROJECT.json` maps every definition to the lines it
stands for.

## 1. The system

Two NestJS classes have one NATS connection each:

* `ServerNats` (`server/server-nats.ts`) subscribes to NATS subjects (core events, requests) and
  to JetStream consumers, and calls the handlers of the application.
* `ClientNats` (`client/client-nats.ts`) publishes events and sends requests.

Node.js runs one piece of JavaScript at a time, so the code is atomic between two `await`s. All
that is hard happens *at* the awaits: the application calls `listen()` and `close()` while an
earlier call waits, nats.js reports a lost connection while JetStream is being set up, a handler
ends after the loop that started it has ended, another service changes a stream between the list
and the update.

### Components

| Component | State it keeps | Operations | Modelled in |
| --- | --- | --- | --- |
| `ServerNats`: life of the server | `session` (`closing`, `complete`, `closed`), `natsClient`, `_status$`/`reachable`, `reconnectTimer`, `subscriptions`, `consumerMessages` | `listen`, `connect`, `reconnect`, `schedule`, `start`, `bindJetStreamEvents`, `stop`/`close`, `shutdown`, `closeConnection`, `watchStatus` | `ServerLifecycle`, which implements `ServerSession` |
| `ServerNats`: JetStream consumers | the loop, iterator and mutex of every `runSubscription()`, `consumerMessages`, the messages in processing; at NATS the delivery state of a message | `runSubscription`, `handleNatsJetStreamEvent`, `respond` (unlock, ack, nak, term), restart after a pause | `JetStreamConsumer`, which implements `DeliveryPromise` |
| `ServerNats`: NAK delay | none | `calculateNakDelay`, `fibonacciApproximation` | `NakDelay` |
| `ServerNats`: processing of a message | `processing`, and in closures `started`, the queue of packets, the mutex slot | `track`, `sendWithHooks`, `startProcessing`, `handleNatsEvent`, `handleNatsRequest`, `respondWithError`, `idle` | `MessageProcessing`, which implements `Settlement` |
| `ServerNats`: handler registry and consumer options | `messageHandlers`, `sharedRpcPatterns` | `addHandler`, `buildEventOptions`, `pickConsumerOptions`, `buildConsumerName` | `HandlerRegistry` |
| `ServerNats`: stream and consumer setup | none of its own; at NATS the streams and consumers that services share | `setupStreams`, `bindJetStreamEvents`, `subscribe` | `ServiceSetup` |
| `ClientNats`: connection | `natsClient`, `jetstreamClient`, `connectionPromise`, `closePromise` | `connect`, `openConnection`, `publish`, `dispatchEvent`, `close`, `disconnect` | `ClientLifecycle` |
| Request context | one `AsyncLocalStorage` store per message | `withRequestContext`, `withContextHeaders`, `runOutsideRequestContext`, `NatsContext` | `MessagePath` |
| Exceptions | none | `NatsRpcException`, its interceptor and filter, `errorReply` | `RpcErrors`, used by `MessagePath` |
| Records and headers | none | the serializers | partly: the headers of what is sent and the JSON of an error in `MessagePath` and `RpcErrors` |
| Status feed and listeners | `statusEventEmitter`, `_status$` | `watchStatus`, `addStatusListener`, `status` | partly: what `reachable` depends on in `ServerLifecycle`, a listener that sends in `MessagePath` |
| Units; decorators, pipe, module | none | | not modelled |

### How they interact

* `listen()` opens a connection and starts the consumer loops and the subscriptions; `close()`
  stops the iterators and subscriptions, waits for `processing` to become empty (`idle()`, at most
  `GRACE_PERIOD`), then closes the connection. `ServerLifecycle` has the phases of that close
  (`shutdown`), `MessageProcessing` what the wait waits for, `JetStreamConsumer` what happens to
  the loops meanwhile.
* `reconnect()` is called by nats.js (`closed()` resolves with an error) and by a failed attempt;
  it forgets the connection, ends the loops and schedules an attempt, which makes new loops.
* `setupStreams()` and `bindJetStreamEvents()` run inside that attempt, the tasks "setup" and
  "binding" of `ServerLifecycle`. What they read and write at NATS, beside other services that do the
  same, is `ServiceSetup`; which handlers and options they start from is `HandlerRegistry`.
* A consumer loop hands a message and its mutex to the processing; each packet of the processing
  acknowledges the message and unlocks the mutex, maybe long after the loop has ended. A handler that
  returns a value makes one packet, one that returns a stream makes several.
  A failure NAKs it with the delay of `NakDelay`.
* Every call of the client passes through `connect()`; `close()` runs beside them. A call adds the
  identifiers of the message in whose context it is made, the server that receives it restores them,
  and an error goes the way back: `MessagePath`.

### What makes each component correct

* Server: one connection, which `close()` closes; one attempt to connect at a time, which
  `close()` cancels; nothing subscribed after `close()`; each `listen()` answered once; `close()`
  completes; a started server serves again once NATS is back.
* Consumers: slots of the mutex match the running handlers, one loop pulls, no delivery is processed
  twice, a message is only acknowledged when a handler has completed it, none is taken after `close()`,
  none is stuck. A stream gives its slot back, and settles its message, with its first value: the
  properties say what that changes, and that it changes nothing else.
* Processing: one answer per message and one slot given back, whatever the start hook does; the
  end hook once for each run of the handler; `idle()` misses no message.
* Setup: every handler is called or refused, the configured fields and options are in force whatever
  other services do, no consumer is moved, every service comes up.
* Client: calls share an attempt and all end; `close()` completes and leaks no connection.
* Messages: no handler sees the identifiers of another request, and each sees those of its own; an
  error arrives as it was thrown.

## 2. Modules

`Conns`, `Handlers`, `Loops`, `Messages` and `Calls` are sets of model values. An object that nothing
refers to any more is reused (`Free`), so that a behaviour may make any number of them over time;
the size of the set bounds how many exist at once.

* **`ServerSession`**, abstract: a session is made by a `listen()` and stopped by `close()` or by another
  `listen()`; only the session in use connects, takes messages and is answered; the next begins when
  nothing of it is left.
* **`ServerLifecycle`** implements it (`OneSession`). An action per stretch of code between two awaits.
  `Listen` has the three ways of `listen()` (rejected after a `close()` that came first, first, again
  after a stop), `Resume` is the rest of a `listen()` that waited. `ConnectStale`, `Connected`,
  `ConnectRefused` and `ConnectUnauthorized` are the continuation of `connect()` after
  `createClient()`; `SetupOk` and `SetupFails` the end of the JetStream setup; `BindConsumer` and
  `BindFails` the end of one `subscribe()` of `bindJetStreamEvents()`, the last of which runs the rest of
  `start()`. `StartRefused` is `start()` with handlers that it refuses (`refused`, chosen at first, since
  NestJS registers the handlers before `listen()`): nothing is bound and the connection stays open,
  unless the callback is that of a reconnect. `Fail` is the callback with an error: it completes
  `listen()`, or calls `reconnect()`.
  `Shutdown`, `GraceEnds` and `DrainEnds` are the three stretches of `shutdown()`. `Lose`, `Redial`,
  `Back` and `CloseForGood` are nats.js; `Notice` is the `then()` of `closed()`. Sessions are numbered
  by the `listen()` that makes them; `closing`, `outcome` and `shutdown` are the fields of a session.
  `armed` counts the timeouts that will fire, `timer` is what `reconnectTimer` holds: the code loses a
  timeout when they differ.
* **`DeliveryPromise`**, abstract: NATS makes a delivery, which waits in the server and is then lost or
  processed, once; a message is settled after a delivery of it is over, by an ack when a handler has
  completed it, or from the first value on when a handler answers it with a stream (`streamed`). It knows
  no loops.
* **`JetStreamConsumer`** implements it (`HandlesOnce`). One consumer, any number of loops: a call
  of `runSubscription()` is a slot `g` with the loop's position, iterator, buffer and mutex.
  `TakeNext` takes a delivery and calls `mutex.lock()`, `Proceed` is what comes after that await,
  `Respond` is the last packet of a handler: it acknowledges and unlocks the mutex *of the loop that
  started it*. `StreamValue` is a packet before the last one, of a handler that returns a stream: it
  acknowledges and unlocks too, and the handler goes on; of the acknowledgements of a message nats.js
  sends the first. `values` counts these packets for each delivery, the history `early` the slots of a
  loop that they have given back. `IteratorEnds` and `PauseEnds` restart the loop or not. NATS delivers a
  message again when
  `ack_wait` ends, at most `MaxDeliver` times.
* **`NakDelay`**, pure: the delay by delivery count and options. The code rounds `phi^n / sqrt(5)`;
  here powers of phi are exact integers `a + b*phi` and the rounding compares squares. `IsExact`
  compares it with the Fibonacci sequence.
* **`Settlement`**, abstract: a message comes to one result and is then answered once, with that
  result or, when the answer cannot be sent, with an error.
* **`MessageProcessing`** implements it (`SettlesOnce`). A message arrives on one of the three paths. The
  start hook may call `done` at any time, twice or never in time, may fail before or after it; the
  handler may reject, return a value or return a stream of them (`streams`); the packets wait in the
  queue of `respond()`. `processing` holds the promise of `track()` ("work") and that of
  `sendWithHooks()` ("hooks") of a message.
* **`Objects`**, pure: what `{ ...object, ...fields }` and `Map.set()` do.
* **`HandlerRegistry`**, pure: `addHandler()` with what NestJS does in its base class, the registries that
  `start()` refuses, the handlers a message then calls, and the options of a consumer: those of the
  list that `pickConsumerOptions()` takes out one by one, and those that count at its creation.
* **`ServiceSetup`.** Several services, each a process with the `code` it runs (handlers, global options,
  stream configurations). Every request to NATS is a step: `List`, `AddStream`, `UpdateStream`, and
  for each pattern side by side `FindStream`, `GetConsumer`, `UpdateConsumer` or `AddConsumer`. A
  request may fail, or be carried out and its answer lost (`Fault`); `Retry` starts the process again,
  `Reconnect` runs the setup again, `Deploy` replaces the process by one of another version.
* **`ClientLifecycle`.** A call waits for the shared attempt, then reads `natsClient` again; `Disconnect`,
  `DrainEnds` and `Disconnected` are the stretches of `disconnect()`. The connection is closed in
  `DrainEnds`, and forgotten only in `Disconnected`.
* **`RpcErrors`**, pure: what the exception, the interceptor, both filters, the JSON of a reply and
  `request()` make of an error.
* **`MessagePath`.** A task is an asynchronous context: a root or the processing of a message. `Call` sends
  a request or an event with the headers `withContextHeaders()` makes, `Receive` restores the
  context, `Return`, `Throw`, `Rejected` and `TimesOut` end a task or its call. `Notify` is a listener
  that sends an event: it runs in the context in which the connection was opened.
* **`MCLifecycle`, `MCConsumer`, `MCProcessing`, `MCSetup`, `MCMessages`, `MCClient`** name the values of
  the constants for TLC.
* **`ServerLifecycleProofs`**, **`ServerSessionProofs`**, **`JetStreamConsumerProofs`**,
  **`MessageProcessingProofs`**, **`ServiceSetupProofs`**, **`ClientLifecycleProofs`**,
  **`MessagePathProofs`**, **`NakDelayProofs`**: the theorems of section 5.

The definitions commented "Mutant" are never used by the specifications: each is a plausible bug,
and the property it belongs to fails when it replaces the original (`PROJECT.json`, "mutants").

## 3. Runs

| Run | Question | Bounds |
| --- | --- | --- |
| `lifecycle_jetstream` | Are the invariants of the server kept, whatever the order of listens, closes, failures and retries? Does it implement `ServerSession`? Does `close()` complete, is each `listen()` answered, does a started server serve again? | 2 connections, 2 handlers, 2 listens |
| `lifecycle_core` | Does it implement `ServerSession` without JetStream too, where `Connected` binds at once, `start()` may refuse the handlers, and sessions overlap more? | 3 connections, 3 listens |
| `lifecycle_waiting_listen` | Does a `listen()` reject when `close()` comes? (no) | 2 connections, 1 handler, 2 listens |
| `lifecycle_overlap` | May two `listen()` calls wait for one close? (no) | 3 listens |
| `consumer` | Do slots, loops and acknowledgements stay in step, is `DeliveryPromise` implemented, is a message settled however its loops end, and do the delays of its NAKs follow the strategy? | 1 message delivered 3 times, the first time with a value before the last packet, 2 loops, 1 handler at a time, a buffer of 2; delays of 20 deliveries |
| `consumer_limit` | Is `max_handlers` kept across a restart? (no) | 2 messages, 2 loops |
| `processing` | Is a message answered once, implementing `Settlement`, and does `close()` get quiet and miss no message? | a request beside a core event or a JetStream message, 2 packets |
| `setup` | Are the handlers, fields and options of each service in force, and does it come up? | 2 services, 6 versions, 2 streams, 1 fault, 1 deployment |
| `setup_field_lost` | Are the fields of another service kept? (no) | 2 services, no faults |
| `messages` | Do identifiers and errors reach where they belong and nowhere else? | 3 services, 4 tasks |
| `client` | Do calls share an attempt and end, and does `close()` complete without a leak? | 2 calls, 3 connections |
| `client_leak` | Is a connection leaked when an attempt overlaps with `close()`? (yes) | 2 calls, 2 connections |

Why the bounds are enough.

* Lifecycle: two connections are the one in use and one that still has work of an earlier session or
  attempt; `AttemptIsAlone` and `ReportsAreCurrent` (section 5) show that no more than one of them is
  ever active for the session in use. Two listens are a session and its successor; the third in
  `lifecycle_core` lets a successor have one. Two handlers are the one whose `subscribe()` fails and
  the one that goes on. The theorems of section 5 hold for any number.
* Consumer: with a handler limit of one, the redelivery of a message whose handler still runs makes the
  loop wait, so one message that is delivered three times has the conflicts of two; the two messages
  of `consumer_limit` only make its counterexample plainer. With a stream on the first delivery the loop
  runs a handler more than the limit with the second and waits for a slot with the third; a stream on a later
  one leaves no delivery to wait. `consumer_limit` has no streams, so that what it shows is the restart
  alone. Two loops are the one that restarts and
  its predecessor, whose handlers may still run. The delay depends on the delivery count and the
  options alone; the run has 20 of the 22 deliveries that the 32-bit integers of TLC carry, and
  `NakDelayProofs` has the counts beyond.
* Processing: messages touch one another only through `processing`, and two are enough for one to arrive
  while `idle()` waits for the other; two packets are a last one and one before it.
* Setup: two services are a reader and the one that writes in between. The versions of `MCSetup` cover
  streams in both orders, options that are set, falsy and undefined, and the refused and accepted
  combinations of handlers. One fault is a setup that stops half way at any of its requests.
* Messages: four tasks are a path root, request, request, event, or two roots that each send.

Bounds that the code does not have: `MaxListens`, `MaxDeliver` (0 means no limit in NATS),
`MaxValues` (the packets of a stream before its last, for each delivery), `MaxDeliveries`, `MaxPackets`,
`MaxFaults`, `MaxDeploys`, `MaxTasks`. `processing`, `setup` and `messages`
switch the deadlock check off: a message that is finished, a service that is up and a request that is
answered have nothing left to do. All others check it, which says little of the lifecycle runs: `close()`
may be called again at any time and does nothing (`Close`), so a server always has a step. That it is not
stuck is what their liveness properties show.

## 4. Fairness

The server: promises settle and timers fire (`Progress`): weak fairness of the continuations of
`connect()`, of the setup and of each `subscribe()`, since nats.js gives each round trip a
timeout, so one of the ways to end is always taken; of the stretches of `shutdown()`, since
`GRACE_PERIOD` bounds the first and the drain ends with the connection; of the timer. Nothing is
assumed of the application. `close()` completes under that alone, with one exception that the property
names: `DrainHangs`, a drain that begins before the status of the connection is watched. That
`listen()` is answered and that the server recovers needs NATS to be back in the end, which the two
properties have as their premise (`NatsReturns => ...`): from some time on it loses no connection and
refuses none. `TimerFires` has the guard `Settled`: the promises of a connection that nats.js has closed
reject in the same turn of the event loop, and the timer takes 5 seconds.

The consumer: besides that, handlers end (`Respond`; a stream need not give a value first), NATS delivers
and redelivers, and
acknowledgements on a connection that is up arrive. The processing: the start hook calls `done` or
fails, and handlers and their streams end: a hook that never does either keeps the message in
`processing` until `GRACE_PERIOD`, by design. The setup: a process that runs goes on with its next
request, and one that has failed is started again (a process manager, or the timer of `schedule()`);
faults and deployments are bounded, and a service whose subjects are stored nowhere need not come up. The
client: a request times out; a connection that is down comes back or is given up in the end, which
needs strong fairness because it may be lost again each time. `messages` has no liveness.

## 5. Proofs

Every invariant and action property of the runs is proved for all values of the constants, and so are
the three refinements. Each module with state has an inductive invariant `IInv`, which TLC has
checked on the instances of section 3 before it was proved, a lemma for each action that it keeps
`IInv`, and the theorem `Invariance`; the properties follow from it.

### The life of the server

`ServerLifecycleProofs` and `ServerSessionProofs` prove, for any sets of connections and handlers, any
number of `listen()` calls, with and without JetStream, the invariants, the action properties and the
refinement that `lifecycle_jetstream` checks:

| Theorem | Property |
| --- | --- |
| `OneSessionAtATime` | `OneSession`, the implementation of `ServerSession` |
| `NoLeak` | `OneOpenConnection` |
| `OneAttemptAtATime` | `OneAttempt` |
| `CurrentClient` | `ClientIsCurrent` |
| `SubscriptionsFollow` | `BoundToClient` |
| `TimersAreHeld` | `TimerIsHeld` |
| `ReachableIsRight` | `StatusIsAccurate` |
| `ShutdownFindsItsConnection` | `ShutdownHasConnection` |
| `NothingBoundAfterClose` | `NoBindAfterClose` |
| `NoDrainWithoutNats` | `DrainsOnlyWhileUp` |
| `ListenAnsweredOnce` | `AnsweredOnce`, which no run lists: `OneSession` implies it |
| `TypeCorrect` | `TypeOK` |

They rest on the assumptions about the constants in `ServerLifecycle` and on one that each states:
`~OverlappingListens`, no `listen()` is called while another one waits for a close. Without it the code
leaks a connection (`lifecycle_overlap`), and the types themselves fail: `start()` may find no
`natsClient`.

None of the properties is inductive. `IInv` adds why they hold:

* `SessionsInOrder`: a session is closing when its `shutdown()` has run, later sessions have not
  begun, and a `listen()` that waits is the last one and waits for the session in use.
* `NothingBeforeListen`: the session of the constructor has no connection, timer or task.
* `HeldByServer`: a timer that is on is of the session in use, which is not closing, and there is
  no connection beside it.
* `AttemptIsAlone`: an attempt that no close has outdated is of the session in use, the only one, and
  beside neither a connection nor a timer. `Connected` therefore overwrites no connection.
* `ReportsAreCurrent`: a failure still to be reported by `closed()` or by the setup, in a session
  that is not closing, is of the connection in use, or an attempt to replace it is scheduled. This is why
  the guard of `reconnect()` is enough: the second report finds the timer on. `TimerFires` keeps it
  because the reports of a closed connection come before the timer is over (`Settled`).
* `StatusFollows`: before it is watched the status is "connected", so that the watch starts right.

Each action has a lemma that it keeps `IInv`; the five that fail share `ReconnectFacts` and
`AfterFailure`, and so does `StartRefused`. `TypeNext` needs `OneOpenConnection`, which is why the types
are proved with the rest.

The refinement adds `AnswersAhead` (a `listen()` to come has no outcome) and `PendingIsCurrent`: a
`listen()` is pending only while its session is in use and not closing. So `complete()` answers the
session in use or nobody, which makes every continuation of `connect()` a step of `Working`, the work of
the session, or one that is `Unseen` by its callers. `Resume` needs `ClientIsCurrent`: the session it
waited for has no connection left.

### JetStream consumers

`JetStreamConsumerProofs`, for any messages, loops, `max_handlers`, `max_messages` and deliveries:

| Theorem | Property |
| --- | --- |
| `SlotsBalance` | `MutexBalanced` |
| `HandlersLimited` | `LoopLimit` |
| `NoSecondLoop` | `OneLoopPulls` |
| `DeliveriesHandledOnce` | `HandlesOnce`, the implementation of `DeliveryPromise` |
| `NothingComesBack` | `OverForGood`, which no run lists: `HandlesOnce` implies it |
| `AckFollowsHandler` | `AckedWasHandled`, which no run lists: `HandlesOnce` implies it |
| `NoneTakenAfterClose` | `NoHandlerAfterClose` |
| `TypeCorrect` | `TypeOK`, and the mutex falls below zero only by the slots given back early |

* `SlotsCounted` says what the mutex counts at each position of the loop, less `early[g]`, the slots that
  streams have given back while their handlers ran. `StreamValue` lowers the counter without ending a
  handler, so each term has it; for handlers that return values it is 0, and what remains is one unlock
  for each lock and the limit of `max_handlers`. The limit alone is not
  inductive: the loop that gets a slot back while it waits at `mutex.lock()` is only safe because it
  waited with all slots taken. A loop that `close()` ends after the lock keeps a slot that nobody uses.
* `DeliveredOnce`: of a loop, each delivery is in the buffer, taken or in processing. Handlers are
  counted as a set of deliveries, so a handler that starts adds one only because NATS counts its
  deliveries and none is there twice.
* `PullsAlone`: without a connection no consumer is alive, and without the client of JetStream there is
  no connection. A new loop is started after a connection that is over, or by the loop that ends.
* `HandledFirst` adds the acknowledgements that are still on their way. `Streamed` are the messages
  of which a handler has given a value before its last packet: one of them may be acknowledged before its
  handler has completed, and although it fails afterwards.

The refinement maps the buffers and what loops have taken to the deliveries that wait, and the messages in
processing to those that are processed. It needs what `DeliveredOnce` says of one loop for all of
them: `HeldOnce`, a delivery is of one loop, since NATS counts it anew each time it makes one, and a loop
that restarts begins with nothing. So `Proceed` takes a delivery out of what waits, and `Respond`
ends the only processing of its delivery, which is then over; `StreamValue` is the `Value` of a delivery
that stays in processing. `AnswersOver` keeps for the acknowledgement on its way that a delivery is over or
a stream has begun. `TakeNext` and all that happens to loops, iterators and connections is unseen.

### The delay of a NAK

`NakDelayProofs`, for up to 60 deliveries, all counts in any order:

| Theorem | What it says |
| --- | --- |
| `ApproximationIsFibonacci` | `fibonacciApproximation()` gives the Fibonacci number of the count |
| `DelayIsExact` | the delay is the multiple of its strategy, up to the maximum, for any base and maximum |
| `BacksOffHolds` | `BacksOff` |

`phi^n = a + b*phi` has the norm `a*a + a*b - b*b`, which is 1 or -1 (`PowersAreUnits`): the square
that the rounding compares with is within 4 of `5*b*b`, closer than half an integer on either side
of `b`, so `b` is what the formula rounds to (`RoundsToB`). The `b` satisfy the equation of the
sequence (`PowersAreSequence`), which has one solution. `PhiPower` and `Fibonacci` are recursive
functions: that they exist, and what holds of every entry, is an induction. The provers
cannot use the induction theorems of the library, which take an operator; `Induction` takes the set of the
numbers that have the property, and rests on the well-founded order of the naturals. The limit of 60 is
that of the doubles in the code, not of the proof: from 71 deliveries on they round to another integer.

### Processing of messages

`MessageProcessingProofs`, for any messages, hooks and number of packets:

| Theorem | Property |
| --- | --- |
| `MessagesSettle` | `SettlesOnce`, the implementation of `Settlement` |
| `IdleMissesNone` | `QuietMeansAnswered` |
| `SlotGivenBackOnce` | `UnlockedOnce` |
| `EndHookFollowsRun` | `EndHookOnce` |

* `RunsFollow` ties `started`, the runs of the handler and the calls of the end hook to where the message
  is; `LastIsLast` says that the queue of `respond()` has one last packet, at its end, and only once there
  is a result.
* `ValueIsAnswered`, of handlers that return a value: one packet, which is the result.
* `Tracked`: one of the two promises of a message is in `processing` from its arrival to its end. That of
  `track()` is taken out only when that of `sendWithHooks()` is in.
* The refinement maps a message to its result and its only answer, and leaves out core events and
  messages whose handler returns a stream (section 6). The failures and the last packet are `Complete`,
  `Respond` is `Answer`, all else is unseen. `HandlerReturns` with a stream hides a message: it can,
  because nothing is answered before a handler has returned.

### Registry, streams and consumers

`ServiceSetupProofs`, for any services, versions, handlers, streams, faults and deployments:

| Theorem | Property |
| --- | --- |
| `HandlersCalled` | `NoHandlerHidden` |
| `ConfiguredFieldsStay` | `FieldsKept` |
| `OptionsApply` | `OptionsInForce` |
| `ConsumersStayPut` | `PositionKept` |
| `TypeCorrect` | `TypeOK` |

* `ChainFollows`: a chain of `addHandler()` that begins with an event handler has every handler of its
  pattern; one that begins with an RPC handler is that handler alone, or its pattern is in
  `sharedRpcPatterns`. So what `start()` looks at, the head of a chain and the marks, is enough to tell
  whether a handler is hidden (`RefusalIsRight`).
* `PageFollows`: the streams of a list are still at NATS, with fields of the same names, although others
  have updated them; an update from the list therefore loses no stream and no name.
* `FieldsFollow`: a service that has got past a stream finds its fields there. Another service that
  updates the stream keeps them, since its list had them already or the stream is `clobbered`.
* `OptionsFollow` is `OptionsInForce` by parts, inductive beside the rest: `ConsumersFollow` gives the
  consumer that an update starts from. `PickedFields` and `CreationFields` say what the list of
  `pickConsumerOptions()` lets through: every option that src/README.md:2231 documents for a consumer, unless
  it is unset or falsy, and none of the library and none of the creation. An option that NATS knows and
  the list lacks would not be in force; `DocumentedOptions` are all on it. `PositionKept` needs that the
  options of an update never hold those of the creation.

### The client

`ClientLifecycleProofs`, for any calls and connections:

| Theorem | Property |
| --- | --- |
| `OneAttemptAtATime` | `OneAttempt` |
| `NoLeak` | `NoLeakWithoutOverlap` |
| `TypeCorrect` | `TypeOK` |

`AttemptIsAlone`, `CloseIsCurrent` and `OneOpenConnection` hold until an attempt and a `close()` overlap,
as the properties do: after that the code leaks (`client_leak`). `CloseHasTarget` and `JetStreamFollows`
hold always.

### Messages from service to service

`MessagePathProofs`, for any services, calls, headers, errors and number of tasks:

| Theorem | Property |
| --- | --- |
| `IdentifiersStayApart` | `NoForeignContext` |
| `IdentifiersReachAll` | `ContextReachesChain` |
| `MeaningArrives` | `ErrorArrives` |

* What a task tells is fixed by its headers and its place when it is created. The invariants speak
  of the store that it will have (`FinalStore`), so that only the steps that make a task have
  anything to show (`NewKeeps`); all others leave that alone (`ChangesKeep`).
* `HeadersOfPath`: an identifier in the headers is of the path. A call takes it from the store of its
  caller, from the headers that the application has made for this call, or from none; from the shared
  record and from the context of the connection it gets none (`OutsideInv`).
* `ChainTells` is `ContextReachesChain` of the stores that tasks will have; it extends from the caller to
  the message, so no induction over paths is needed. `SendersReceived` and `HeadersTell` bring it back to
  the stores that they have: whoever has sent something has been received, and a message that is
  rejected before that tells the same without its store.
* `PathsExist`: `Path` is a recursive function; that there is exactly one, and how a new task extends
  it, is proved along the behaviour with the rest.
* `ErrorsRead`: whatever a caller has got reads as what was meant first. One pass through the
  interceptor, either filter and JSON keeps that (`ExceptionArrives`).

### What the theorems assume

The named assumptions about the constants in each module, and besides:

* `~OverlappingListens` in the theorems about the server, see above.
* `SetupAssumption`: stream configurations use fields that NATS knows, `streams` is a list.
* `WrittenOnce` (`MessagePath`): a caller does not pass one header under two spellings. It could, and
  nats.js would then take one of the two; which one it meant nobody can tell.
* `ErrorsMeanWhatIsRead` in `MeaningArrives`: what is meant by an error is what `NatsRpcException` makes
  of it when it is thrown. The errors of `MCMessages` satisfy it. What the exception makes of a given
  error is for the run `messages` to show, that no service on the way makes anything else of it is the
  theorem.

### Only model-checked

The liveness properties (`CloseCompletes`, `ListenAnswered`, `Recovers`, `EventuallySettled`,
`CloseGetsQuiet`, `ComesUp`, `CallsEnd`): no prover here handles fairness. That the doubles of
`fibonacciApproximation()` round like the exact powers is not checked by either tool; it is why the proofs
assume at most 60 deliveries. The five findings of section 6 are counterexamples, not theorems.

## 6. Where the code and its documentation differ

The first five have a run with expected violation; no run isolates the others, which the models show
where they are named.

* `lifecycle_waiting_listen`: README "Shutdown" says that a `listen()` rejects if `close()` comes before it has
  completed. A `listen()` that waits for the close of the previous session is not yet a session: `close()`
  waits for that same close, and the `listen()` then connects (server-nats.ts:126).
* `lifecycle_overlap`: two `listen()` calls that wait for the same close both go on; the connection of
  the first is overwritten and never closed. The other runs assume that it does not happen
  (`OverlappingListens = FALSE`).
* `consumer_limit`: the limit of `max_handlers` is per loop. A restarted loop has a new mutex while
  handlers of the old one still run.
* `client_leak`: `disconnect()` sets `natsClient` to undefined after its await; a connection opened
  after the old one `isClosed()` and before that assignment is forgotten open (client-nats.ts:60).
* `setup_field_lost`: README:312 says that the new configuration of a stream is merged with the current
  one. It is merged with the one that was listed at first: what another service has configured
  meanwhile is set back (server-nats.ts:755). `FieldsKept` leaves out the streams this has happened to.
* The status is watched only after the JetStream setup (server-nats.ts:152): a connection lost
  before that leaves `reachable` true, and `close()` begins a drain that waits for NATS. The property
  `DrainsOnlyWhileUp` is restricted to watched connections, `CloseCompletes` to drains that are not such.
* A JetStream handler that returns a stream acknowledges the message, and gives its slot back, with
  each value (server-nats.ts:562). It may so exceed `max_handlers`, drive the mutex below zero, and have a
  message acknowledged that it fails afterwards. `JetStreamConsumer` has these packets (`StreamValue`), and
  `MutexBalanced`, `LoopLimit` and `HandlesOnce` say in their statements what a stream changes;
  `UnlockedOnce` and `SettlesOnce` are about handlers that return a value.
* `nak_delay_max` caps the strategies increment and fibonacci only (`Capped`): with the regular strategy
  a `nak_delay` above it is used as it is, against README:2225.
* An error that has both a `message` and an object in its field `error` is taken for what that object says
  (`Source`), against README:1172.
* `close()` of a client that has no connection returns before it removes the listeners
  (client-nats.ts:57), against README:245.

## 7. What is not modelled, and the plan

Left out for good: logging, the wording of errors, the contents of messages, the units (a table of
factors), the decorators, the validation pipe and the module (glue of NestJS without state), and a
`listen()` callback that throws.

Left out by the models there are:

* the headers of a reply, which the client does not read, and `getErrors()` of the pipe;
* the status of the client as an observable, and listeners that are removed or that throw;
* more streams than the first page of the list, which has 256; a consumer that somebody deletes
  while services are being set up;
* in `consumer`, several messages under liveness (the safety of two is in the reach of TLC, their
  settlement is not in five minutes).

Next:

1. `GracefulShutdown`, which composes the phases of `ServerLifecycle` with the `processing` of
   `MessageProcessing`, and a proof that a close which is quiet leaves no message unanswered.
2. `StatusFeed`: the listeners of server and client, `distinctUntilChanged`, a listener that throws.

Each module is written so that it can be proved about: no recursive operators, constants with named
assumptions, invariants as named conjuncts.
