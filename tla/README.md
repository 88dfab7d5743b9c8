# A TLA+ model of the push notification server

The repository is a Node.js push notification server: devices ("user agents",
named by a UAID) hold WebSockets to the User Agent front end, register channels,
and are told when a new version of a channel is published. Paths below are
relative to the repository's own `src/` (`UA/ws_server.js` and so on).

Status: the way of a version from the application server to the device, the
wake-up of UDP devices with the network cache, the sessions of the front end, the
channels of a device and the broker connections are modelled, model-checked and
proved about. Every safety property that a passing run checks is also a theorem.
What is left out is listed at the end.

## Inventory

| component | state it keeps | operations | talks to | module |
|---|---|---|---|---|
| UA front end, sessions: `UA/ws_server.js`, `datamanager.js`, `connectors/*.js` | per worker: `nodesConnectors`, `wsConnections`; per connection: the socket, `connection.uaid`, a connector with an autoclose timer (UDP only) | `onWSRequest`, `onWSMessage`, `onWSClose`, `registerNode`, `unregisterNode`, `getConnector`, `resetAutoclose` | websocket library (events), MobileNetwork (callback), data store (calls), broker (queue of the worker) | `UASession` |
| UA front end, channels and recovery: `ws_server.js` | none of its own | register, unregister, ack, ping, `recoveryChannels`, `getPendingMessages` | data store | `ChannelStore` |
| UA front end, notifications: `ws_server.js` | the queue named by the worker | `onNewMessage` | broker, connector table | `PushPipeline` |
| node documents: `common/DB/node.js` | `co`, `si`, `dt`, and the array `ch` of channels, in MongoDB | register, unregister, registerApplication, unregisterApplication, newVersion, ackMessage | every server | `UASession`, `ChannelStore` |
| applications, operators: `common/DB/app.js`, `operator.js` | documents in MongoDB | register/unregister by application token, lookup of nodes, lookup of an operator | AS, Monitor, MobileNetwork | `PushPipeline`, `MobileNetwork` |
| message broker: `common/MsgBroker/MsgBroker.js` | `conns`, `queues`, connection states | init, subscribe, push, close | amqp | `MsgBroker`, `PushPipeline` |
| data store: `common/DataStore/DataStore.js` | connection, `ready` | init, close | mongoose | `MobileNetwork`, `PushPipeline` |
| network cache: `common/MobileNetwork/MobileNetwork.js` | cache of networks | init, close, `resetCache`, `getNetwork` | data store | `MobileNetwork` |
| application server: `AS/As.js` | ready flags | PUT of a version, stop | broker | `PushPipeline` |
| Monitor: `Monitor/Monitor.js` | ready flags, retry timer | `onNewMessage`, `onApplicationData`, `onNodeData`, `retryUDPnotACKed`, stop | data store, broker | `PushPipeline`, `WakeUp` |
| wake-up: `WakeUp/udp_server.js`, `wakeup_server.js` | ready flags | queue "UDP", wake-up request | broker, network cache, HTTP | `WakeUp` |
| helpers, logger, maintenance, pages, token, cryptography | almost none | pure functions, output | all | `isVersion` only |

What is hard here: every handler is a callback on one event loop per worker, but
a session is spread over several of them (hello, network lookup, database
update, close, timer), each re-reads shared state by UAID rather than by
connection, and the database driver sends consecutive updates over a pool of
connections. A version travels through two queues and a database read, and every
process on its way has broker connections that come and go: which of them a
process publishes on and consumes from differ. Workers are forked without being
restarted, and what they stored in MongoDB outlives them.

What makes each part correct:

- sessions: the table names the device's open connection and only it; a
  displaced connection stops; the counter of connections matches the sockets; a
  hello is answered; the stored node says where the device is;
- channels: a channel has one version at a time; recovery makes the stored
  channels those the device lists; an ack concerns the version acknowledged;
- broker: the connections in use are those that are ready, a failed one is tried
  again, and the loss of all of them is reported (at this commit it is not);
- push: a version that was accepted is told to each device that can be reached, at
  most once, and always unless something on its way fails (at this commit the second
  half is not so: the lookup of devices finds none);
- wake-up: no network survives a reset of the cache; a device with a message it
  did not acknowledge is pinged.

## Modules

| module | what it is |
|---|---|
| `UASession` | sessions: clients, table, sockets, timers, node documents, worker exits |
| `SlotOwner` | what the connector table promises, in the abstract |
| `ChannelStore` | the channels of one device: updates, recovery, pending, acks |
| `MsgBroker` | the broker connections of a process: events, list, reconnections |
| `PushPipeline` | AS, Monitor, queues, workers, nodes: the way of a version to a device |
| `Notification` | what the pipeline promises an application server, in the abstract |
| `Mailbox` | what the node document promises a device: one version of a channel, until acknowledged |
| `BrokerLink` | what a process sees of its broker connections; implemented by `MsgBroker`, used by `PushPipeline` |
| `Presence` | what the rest sees of devices, sessions and nodes; implemented by `UASession`, used by `PushPipeline` |
| `MobileNetwork` | the cache of networks over the data store; extended by `WakeUp` |
| `WakeUp` | the retry timer of the Monitor, the UDP server, the wake-up requests |
| `MC_*` + `*.cfg` | instances of each for TLC |
| `*_proofs` | TLAPS proofs about `UASession`, `ChannelStore`, `MsgBroker`, `PushPipeline`, `WakeUp` (with `MobileNetwork`); `Presence_proofs` is about `UASession` again |

How they fit together: `PushPipeline` does not model connections and sessions anew.
Its connection actions are those of `Link == INSTANCE BrokerLink` and its session and
node actions those of `Docs == INSTANCE Presence`, conjoined with what they do to the
messages on their way. `MsgBroker` is proved to implement `BrokerLink` and `UASession`
(under `SerialSpec`) to implement `Presence`, so what the pipeline is shown to do with
its environment it does with the environment the other two modules produce.

In each module, an operator whose comment begins with *Mutant* is not part of
the specification: it is a broken variant of the definition after it, kept to
show that a property notices it.

### UASession

`ws`, `uaid`, `closes` are the WebSocket, `connection.uaid` and the number of
`close` events emitted; `kind` and `timer` the connector object made for the
connection and its autoclose timer ("due" between the moment it expires and the
moment its callback runs); `lookups` the pending `mn.getNetwork` calls;
`nodesConnectors` and `wsConnections` are per worker; `dbOps` the updates sent to
MongoDB and not yet executed, in no order; `node` the fields `co` and `si` of the
documents; `alive` the workers.

A connection says hello at most once (`ws_server.js:346-350` discards the rest),
so a connector is identified with its connection, and `hello` (none, pending, ok,
error) is about the one hello: `AnsweredOnce`. `Hello` is a hello whose
connector is made in the same turn of the event loop; `HelloLookup` followed by
`LookupReturns` or `LookupFails` is the one that waits for the database.
`SocketClosed` and `AutocloseFires` both run `OnWSClose`, because the library's
`drop()` emits `close` whether or not the connection has emitted it before
(`WebSocketConnection.js:308-337`). `Message` is any message that leaves the
connection open; its effect here is `resetAutoclose`, which goes through the
table and so may arm the timer of another connection's connector.

`Devs == INSTANCE Presence` maps the state to what the rest of the system sees:
`session` is the worker of the device's open or closing connection, `asking` the
worker of its pending lookup, `updates` the values of `si` under way, `node` the `si`
stored. In `Presence` a device has one session at a time, so the refinement is stated
of `SerialSpec`.

`SerialSpec` restricts `Spec` to devices that say hello only when nothing of
their earlier sessions is left but the table entry. `RoutedSession` is stated
under it because it does not hold without: the close of an old session, or the
reordering of the updates of two sessions, leaves a connected device stored as
disconnected. Nothing in the repository says otherwise, so this is a limit of the
property and not listed as a disagreement. Likewise, a lookup that returns after
its socket closed registers a connector for a dead socket: a UDP one is removed
by its own timer (`UdpZombieCleared`), a WebSocket one stays until the device
comes back.

### ChannelStore

`ch` keeps the entries of the `ch` array of one node, grouped by channel, as the
updates only look at the order of entries of one channel. An entry has a version
(0: no field) and the flag `new` (or no field). A call is in `calls` from the
moment it is issued until it executes or fails; calls execute in any order. A
hello issues two reads; executing the recovery read issues the updates for the
channels that are missing or not listed. `$addToSet` compares whole entries: the
`_id` put in at `node.js:87` is not a valid ObjectId and is dropped by mongoose's
cast, so a registered channel is equal to a new entry until it gets a version or
an ack. The positional `$` of `newVersion` and `ackMessage` changes the first
entry of the channel only, `$pull` removes all of them.

`Mail == INSTANCE Mailbox` maps a channel to its first entry (`Kept`): a registration
is `Open` or a stutter, an update of a version `Keep`, a pending read `Offer`.
`RecoveryChannels` and every message of the device are stutters of it: they change
what is under way, not what is kept. `UnreadWaitsForAck` is about the channels that
`recovered.clean` counts on and the hello lists: what is unread there stays unread
until an ack of the channel executes.

### MsgBroker

`queues` is `this.queues`, the list that `push` and `subscribe` walk; `state` is
`conn.state`; `socket` says what events a connection still has to emit; `retry`
holds the connections whose reconnection timer runs (`connectionAttemptScheduled` in
the amqp library). The library's `backoff` listens for `error` and for nothing else:
`SocketError` and `ParserError` start the timer, `PeerEnds` does not. `PeerEnds` is
the bare end of the socket, with no error before it; a `connection.close` of AMQP,
with which a broker takes its leave, is turned into an error by the library and is
retried. A connection that just ends is gone until the process restarts
(`EndedIsFinal`; all other outages are retried, `OutageIsRetried`). `reported` is
whether 'disconnected' was ever emitted, and `NeverReported` that it is not: the
predicates behind it (`allDisconnected` and `pending`, `MsgBroker.js:156-162`) have
their comparisons inverted and are evaluated before the state of the connection is
updated, so they ask for every connection in its CREATED state, which none that
closes is, and no server logs "MsgBroker DISCONNECTED!!". A parser error makes the
library emit `close` itself, and the socket's own `close` follows, so one loss runs
the `close` handler twice; `ListSound` says the list survives that. The timer may
expire while the old socket is still ending: the attempt then fails and the error
schedules another (second disjunct of `Retry`). The argument of `close()` is left
out as no caller passes it. `push` changes no state here; subscriptions and `push`
are in `PushPipeline`, which keeps of each connection only what `BrokerLink` says it
may be: connecting, up, or ended for good. `LinkOf` is the mapping: a connection is
up from `ready` until it fails or its close is complete, and is being made from its
failure on.

### PushPipeline and Notification

| variable | in the code |
|---|---|
| `as` | As.js: `ready`, and whether what it publishes reaches no broker ("cut"; 503 is given only before the first connection) |
| `answer`, `version` | the response to each PUT, and what `processSimplePushV1` published for it |
| `declared`, `newMessages`, `sent` | the durable queue `newMessages`: whether it exists, what it holds, what the broker has sent on each connection and the Monitor has not handled |
| `monitor`, `dbReady`, `mbReady`, `conn`, `sub` | the Monitor's life and two ready events, its broker connections, those it subscribed on |
| `lookups` | messages whose `getNodesByAppToken` is under way: sent, then answered with nothing or with nodes, then `onApplicationData` |
| `queue` | what waits in the queue of each worker (deleted with its last consumer) |
| `worker`, `session` | whether a worker is subscribed; the worker a device has its session with |
| `updates`, `node` | the writes of `si` under way, `si` |
| `no` | the application's list of devices, written by registrations and read by nothing |
| `told` | the versions each device was sent on account of each PUT |
| `due` | a history variable, below |

One action is one callback. `GoodBody` is the whole of the accepted PUT: the
answer, and `push` on the first connection of the list, to a queue that may not
exist. `ConnReady` and `DbReady` share `OnReady`: the Monitor subscribes once, on
the connections that are up when both have come, because it listens with `once`
and `subscribe` walks the list as it is. A connection that breaks and is made
again has its subscription renewed by the amqp library; one that the broker ends
does not come back (`MsgBroker`). Subscriptions do not ask for acks, so the broker
forgets a message when it sends it, and what was sent on a connection that goes is
lost (`Lost`).

The lookup is modelled as it is written. `getNodesByAppToken`
(`common/DB/app.js:68-78`) does not read the application's document: it runs
`node.findById(appToken)`, and no node has an application's token for its `_id`, so
the answer is null whatever `no` holds (`LookupReads`). `onApplicationData` takes
`forEach` of it, nothing catches the TypeError, and the Monitor exits with all it was
sent and was looking up (`OnNoApplicationData`). So under `Spec`, which is the code
and nothing else, no device is ever told of anything, which is a theorem
(`NobodyIsTold`), and the run `push_lookup` shows that what the Monitor logs of each
message does not come about.

What the Monitor and the workers would do with an answer is code as well, and
`OpenSpec` is there to check it: `Spec` with one more action, `LookupFinds`, an
environment in which a lookup may find nodes, any subset of those stored, as they
are when it is read. No code stands behind `LookupFinds`, and no property says that
it is taken. What is stated of `OpenSpec` is safety only, so it holds of the code as
it is, and of the code with any lookup that reads nodes at one moment, whichever it reads.

`due` holds the puts whose message the Monitor has still to look up: from its
acceptance, if the server has a connection, the queue exists and the version is not
0, until its lookup is answered, or until something that the code makes no promise
about takes the message (`Failure`: a connection that it was sent on is lost, the
Monitor stops or exits, the lookup fails; and the Monitor dies of the answer to
another message, `Throws`). Each of these names the puts it costs; every other step
must keep the message, and `WaitsForLookup` says where it is: in the durable queue,
however often the Monitor and its connections come and go, or with the Monitor. It
goes no further than the lookup.

`Deaf` is a Monitor that is ready and subscribed on nothing: all its subscribed
connections were ended, or none was left when the database became ready. It
publishes on connections that became ready later but hears nothing until it is
restarted (`DeafIsFinal`).

`Notification` is the abstract specification: a PUT is accepted once with one
version, and a device is told of it at most once, never of another version and
never of version 0 (which As.js accepts and the Monitor takes for a missing
version). `RefinesNotification` is the refinement, with the identity as mapping. It
does not say that a device is told.

### MobileNetwork and WakeUp

`MobileNetwork` is the cache: `db`, `ready` the data store's connection,
`operators` the documents, `cache` the cache, `lookup` the calls of `getNetwork`
that missed, which are sent, read by the database and answered in three steps.
A reset between the second and the third lets an old answer into the new cache.
Two histories make that exact: `since` holds what each network's document has been
since the last reset, `tainted` the networks that had a read waiting for its
answer at that reset. `CacheFresh`: a cached operator is in `since`, unless the
network is tainted.

`WakeUp` adds `device` (`co` and `si` of a node with a UDP connector), `unacked`
(a channel has `new`), `retry` (what `retryUDPnotACKed` has read), `udp` (the UDP
server is subscribed) and `ping` (each message from the queue "UDP" to the answer
of the wake-up server). `OnNewMessageHit` and `OnNewMessageMiss` are the two ways
of `getNetwork`; `OnNetwork` its callback. `AskedIsFresh` is `CacheFresh` seen
from the outside: which wake-up server is asked. `UnackedIsPinged` is the purpose
of the retry timer.

## Runs

| run | instance | shows |
|---|---|---|
| `push` | `OpenSpec`: 1 PUT, 1 device, 2 symmetric workers, 2 brokers, `MaxVersion` 2, 6 bodies; 492 000 states | `TypeOK`, `WaitsForLookup`, `DeafIsFinal`, `RefinesNotification` |
| `push_lookup` | `CalmSpec` (nothing fails, fairness): 1 PUT, 1 device, 1 worker, 1 broker | disagreement, below |
| `wakeup` | 1 device, 1 network, 2 operators of which 1 has a wake-up server, 2 messages, fairness; 108 000 states | `WakeUpTypeOK`, `CacheFresh`, `AskedIsFresh`, `UnackedIsPinged` |
| `sessions` | 1 device, 3 connections, 1 worker, limit 2, symmetric connections | `TypeOK`, `OpenSessionIsRegistered`, `ConnectionAccounting`, `AutocloseFiresOnce`, `OverrunBounded`, `RefinesSlotOwner`, `AnsweredOnce` |
| `sessions_serial` | 1 device, 3 connections, 2 workers; 389 000 states | `RoutedSession` and `RefinesPresence` for a device whose sessions do not overlap |
| `sessions_live` | 1 device, 2 connections, 1 worker, fairness | `HelloAnswered`, `DisplacedCloses`, `UdpZombieCleared` |
| `channels` | 2 channels, 2 client calls in flight, 1 version; 488 000 states | `TypeOK`, `OneVersionedEntry`, `RecoveryConverges`, `UnreadWaitsForAck`, `RefinesMailbox` |
| `broker` | 3 connections, fairness of closes and timers | `TypeOK`, `ListSound`, `NeverReported`, `EndedIsFinal`, `OutageIsRetried`, `RefinesBrokerLink` |
| `wakeup_asleep` | 1 device, 1 operator, 1 message | disagreement, below |
| `sessions_limit` | 3 connections | disagreement, below |
| `channels_ack`, `channels_recovery` | 1 channel, 3 calls | disagreements, below |

Why the bounds are enough:

- `push`: a message belongs to one PUT and is handled for one node at a time, and
  neither its guards nor its handlers look at another, so one of each shows every
  interleaving of a message with the processes and the device; the proofs cover
  any number. Two brokers tell the connection that is published on from the one
  that is consumed from, and the last subscription from one of two. The bodies are
  one for each way through the checks: too long, malformed, no number, 0, 1, and
  `1e1`, whose parse differs from its value (`MaxVersion` 2 stands for
  9007199254740991). Two workers are what lets a node be stale: the device has moved
  to the one while the message goes to the queue of the other. They differ in
  nothing but their state, so symmetry is sound. The sessions and restarts of
  processes are not bounded. The same properties were checked once with two PUTs, one
  worker and one broker (346 000 states).
- `push_lookup`: the smallest instance has the counterexample. To see that it is the
  lookup that fails and not the property, `SentIsTold` was checked once with a
  lookup that reads the nodes of `no`, in the same instance: it holds (7 000 states).
- `wakeup`: two messages are a retry that overtakes the one before, and two
  lookups that return in the order in which they did not read. Two operators are
  one to wake up by and one without; the changes and resets are not bounded.
- `sessions*`: devices share nothing but the counter of a worker, so one device
  shows every race over its table entry; three connections give an old session,
  its successor and a third that is displaced or reaches the limit. With
  a limit of two the third is the one refused; that a late timer lets one more in needs
  a limit of one, the instance of `sessions_limit`, whose counterexample reaches the
  bound of `OverrunBounded`; that instance was checked once against it to the end
  (552 000 states), and the theorem is for every limit.
- `channels`: the number of requests is not bounded, only the calls in flight
  (`Ids`; a recovery multiplies one of them), so the run covers every history; two
  channels are what tells the walk of recovery over the array from a test of one
  channel.
- `broker`: nothing is bounded but the number of brokers; two tell "this
  connection" from "the last of the list", and three put one between two others.

Deadlock is not checked: a server with no clients left may stop in all of these
models, and each connection or PUT is used once.

### Fairness

`UASession`: weak fairness of what the environment of a worker always ends: a
pending lookup or update gets an answer (the drivers call back with a result or an
error), a socket in its closing handshake is ended (the library's close timer calls
`socket.end()` when the peer does not answer), a timer expires and its callback
runs. Nothing is assumed of clients: no message, hello or close ever has to happen.
`UdpZombieCleared` has an exception because of that: another connection of the
device that was opened in between re-arms the timer at each of its messages.

`MsgBroker`: a socket that has failed or ended closes, and the reconnection timer
runs; a broker owes nothing, so that a connection that is being made may stay so,
and `OutageIsRetried` says that it is tried, not that it succeeds.

`PushPipeline` (`CalmSpec`, of `push_lookup`, and nothing else): a broker sends a
message it has to a consumer it has, the handlers of messages and answers run, and
the database answers a lookup, each for the message of each PUT. The counterexample
uses it: the message is looked up, answered, and the answer handled. Nothing is
assumed of processes, which may stay down; of connections, which may stay cut; of
devices; or of application servers.

`WakeUp`: the timer runs (weak fairness of `RetryReads`) and not all of its reads
fail (strong fairness of `RetryPushes`, since `RetryFails` may take its place), a
queue with a consumer is consumed, the database executes and answers what it is
sent while it is open. Nothing is assumed of the administrator, of devices, of
connections or of wake-up servers.

## Disagreements between the code and what it says

- `wakeup_asleep`: `connectors/README.md:12` says of a UDP connector that it closes
  the WebSocket and pings the device. The unregister that follows the close passes
  no queue (`datamanager.js:70-73`), so the node has no `si`, and `onNodeData`
  (`Monitor.js:162`) skips it: a device that was closed to be woken up is never
  sent a datagram; only a device that still has its WebSocket is.
- `sessions_limit`: a timer that fires after its connection closed decrements
  `wsConnections` again, so the limit checked at `ws_server.js:648` lets more
  sockets in. `ConnectionAccounting` says exactly what the counter counts, and
  `OverrunBounded` by how much the limit can be exceeded.
- `channels_ack`: an ack clears the flag of a newer version.
- `channels_recovery`: a channel registered again after it got a version is
  stored twice, and the recovery of a hello that lists it unregisters it.
- `push_lookup`: `Monitor.js:226` logs "Notifying node" of each node of the
  application, but the lookup asks the nodes for the application's token
  (`app.js:70`), the answer is null and the Monitor dies of it. No version that the
  Monitor looks up reaches a device.

Met on the way and not the subject of a violation run: the loss of the last broker
is not reported (`NeverReported`, which is checked and proved); `isVersion` tests
the number a string converts to and the message carries the one `parseInt` reads, so
`1e1` passes as 10 and is published as 1; the notification a worker sends carries no
`channelID`, which the example at `ws_server.js:127` shows; "30 seconds" at
`Monitor.js:74` are three.

## Proofs

`tlapm` checks the six `*_proofs` modules to the last leaf, for every value of the
constants. The assumptions are those of the modules: `Conns` is finite, `Home` maps
connections to workers, the limit is a natural number, the null values are not
connections, UAIDs, workers or the queue "UDP" (`UASession`); `MaxVersion` is a
natural number (`ChannelStore`); `BodiesType` (bodies are records of the type, and
one that passes `isVersion` has a front that is not larger than the limit),
`MaxVersionType`, `NullValues` and `SomeBroker`, that there is one (`PushPipeline`);
`NoOperatorIsNone` and `WakeUpConstants`, the types of the maps from messages to
devices to networks (`WakeUp`). `MsgBroker` assumes nothing.

- `PushPipeline_proofs`. `ImplementsNotification` rests on `OneMessage`: a PUT has
  at most one message in all of the pipeline. It says where a message may be and
  what excludes what: it exists only after its PUT is accepted and carries its
  version (`NewOne`), what the broker has sent is no longer in the queue and was
  sent once (`SentOne`), a lookup has a version other than 0 (`LookupOne`), a worker
  has each device's message once (`QueueOne`), and what is on its way to a device
  has not been told (`NotYet`). These, `DueWaits` and `DeafForGood` are theorems of
  `OpenSpec`, and `CodeIsOpen` carries them to `Spec`. `DueWaits` rests on `Kept`,
  which adds to `WaitsForLookup` that the version of what is due is not 0, as
  `onNewMessage` drops that one, and on `OneMessage`, from which the message has the
  version of its PUT. `DeafForGood` rests on `ReadyHasBoth`: a Monitor that is ready
  has had both of its ready events, so neither can make it subscribe again.
  `NobodyIsTold` is about `Spec`: no lookup has found a node, so no worker's queue
  holds anything.
- `WakeUp_proofs`. `Fresh` is the types with `CacheFresh`, `LookupFresh` (a read
  that is waiting for its answer holds something of `since`, or its network is
  tainted) and `DocumentsFresh` (the present document is in `since`). `CacheFresh`
  alone is not inductive: the answer of a lookup is what fills the cache.
- `UASession_proofs`. `SessionInv`: that an open connection with a connector is
  registered is not inductive alone: a stale close removes "the connector of the
  UAID", so one needs to know that the table entry is a connector of the same worker
  and UAID (`TableSound`), that the connection the removal displaces is closed in
  the same step, that a pending lookup's connection has no connector yet, and what a
  socket state says of the close events so far (`SocketSound`).
  `AutocloseFiresAtMostOnce` needs `TimerSound`: a UDP timer that is off belongs to a
  connector that left the table, so no message can arm it again.
  `ConnectionsAccounted` adds the arithmetic: each step changes the two
  cardinalities and the counter by the same amount. `OverrunIsBounded` follows from it
  and from `CountWithinLimit`, that the counter itself never passes the limit.
  `HelloIsAnsweredOnce` needs of the invariant that a pending lookup, and a register
  under way, belong to a hello that is still pending. `TableImplementsSlotOwner`: each
  step is a `Claim`, a `Release`, a `Talk` or a stutter of `SlotOwner`, with
  `SessionInv` giving that the loser of a slot stops talking in the same step.
  `SerialSessionsAreRouted` is about `SerialSpec`: of the connections of a device
  all but one are over (`OneSession`), what is over stays over (`DoneStays`, where
  `TimerSound` is needed again), the one register of a connection is executed before
  its hello is answered and its unregisters come after its close (`OpSound`,
  `HelloSound`), so nothing writes the node while the session is open.
  Together they are `RoutingInv` (`RoutingCorrect`).
- `Presence_proofs`. `SessionsImplementPresence` uses `RoutingInv` to show that the
  mapping is a function of the one connection that is not over: each action of
  `UASession` is a `Hello`, `Ask`, `Answered`, `AskFails`, `Close`, `ClosesAgain`,
  `UpdateEnds` or `WorkerExits` of the device, or a stutter. A late autoclose timer
  sends a second unregister, and executing one of two leaves the other: the two places
  where `Presence` has to say more for devices with a UDP connector.
- `ChannelStore_proofs`. `OneVersionedCorrect` is inductive together with the types:
  an append happens only when no entry is bare, so behind at most one entry, and the
  positional updates never make the first entry bare.
  `RecoveryMakesChannelsThoseListed` rests on `RecoveryInv`: there is one recovery
  to count on (`OneReader`); until it has read the node, nothing else touches a
  channel it may be counted on for; afterwards what is under way for the channel
  goes in the direction of the hello, registers for listed channels and unregisters
  for the others, so that any of them, and not only the last, leaves it as listed.
  `UnreadIsKept` is an action property from the same invariant: no unregister of
  such a channel is under way. `ChannelsImplementMailbox` adds `CallsSound`: an
  update is of one channel, and a version it carries was published;
  `OneVersionedEntry` is what makes the pending read offer the first entries and
  nothing else (`MailPending`).
- `MsgBroker_proofs`. `BrokerInv` adds to `ListSound` what `EndedIsFinal` rests on,
  that only a connection in its ERROR state has a timer and that a DISCONNECTED one
  has a closed socket. `SpliceRemoves` and `AppendAdds` are the facts about the list.
  `ConnectionsImplementLink` needs `RetrySound`: a socket that failed has its timer
  running until it is tried again, and a timer belongs to no other socket, so the
  events that follow a failure change nothing for the process. `LossIsNeverReported`
  rests on `Unreported`: a connection that closes has been ready or has failed before,
  so it is not in its CREATED state, where the two predicates want every connection.

Only model-checked: the liveness properties (`HelloAnswered`, `DisplacedCloses`,
`UdpZombieCleared`, `OutageIsRetried`, `UnackedIsPinged`), as
fairness and ENABLED are out of the prover's reach.

## What is abstracted or left out

- At this commit the parts do not link: `datamanager.js` calls
  `dataStore.registerNode`, `registerApplication`, `ackMessage`, ... which were
  moved from `DataStore.js` to `common/DB/node.js`; `Constants.js` lacks
  `errorcodes` and `connectionstate.WAKEUP`; the front end waits for the events
  `brokerconnected`/`brokerdisconnected` while the broker emits
  `connected`/`disconnected`; `newVersion` has no caller; the Monitor passes
  `onNewMessage` as if it were static and uses `app` and `node` without declaring
  them; the UDP server never calls `mn.init()`. The models join the parts as their
  names and arguments say: the data store's calls do what the functions of those names
  in `common/DB/*.js` do as they are written, `getNodesByAppToken` included, which
  finds nothing, and WAKEUP is a state of its own.
- The queues are mirrored on all brokers (`x-ha-policy`), so a message is in one
  place whichever connection it came by, and the loss of a broker loses no queue.
- In `PushPipeline`, the broker lists of the application server and of a worker are
  abstracted to whether what is published reaches a broker ("cut": the list is
  empty, or its first connection has failed and not yet closed), and whether the
  worker's queue is consumed; the Monitor's is modelled connection by connection;
  sessions of a device do not overlap (`UASession` is about those that do); there is
  one application and one application server; a device uses one connection, a
  WebSocket.
- In `WakeUp`, the Monitor has one retry read under way at a time, and the wake-up
  server is what it answers. Its TCP branch is left out, as `connector_udp` always
  stores the protocol "udp".
- Clients send well-formed WebSocket frames. (The library goes on to process a
  frame with reserved bits after it has dropped the connection for it; that is
  third-party behaviour outside the model.) Keepalive is off, as in `config.js`,
  so the library drops no connection for silence.
- The connection limit is a constant; the code replaces 1000 by the file limit of
  the process once, at start.
- An exit of a worker is any `log.critical` or uncaught exception.
- Payloads, answers' texts, tokens, signatures, IP ranges, pages and logging; the
  master processes that fork workers and log their exits; the ready callbacks of
  broker and data store, which no server passes.
- A hello's list of channels is a set: it has no repeated channel.
- In `ChannelStore`, `Notify` stands for the whole path from a published version to
  the device, and it may never happen; losing, delaying or repeating it changes
  nothing there.

## Plan

1. When `getNodesByAppToken` reads the application's `no`: `LookupReads` as the code
   then has it, `SentIsTold` as a property of a passing run, `OpenSpec` given up.
2. `Delivery`, which composes `PushPipeline` with `Mailbox`, as it is composed with
   `BrokerLink` and `Presence` now: a version accepted
   for a device is told to it or stays pending until its next hello. At this commit
   `newVersion` has no caller, so the composition would rest on an assumption about
   who calls it.
3. Overlapping sessions in `PushPipeline`: `SlotOwner` in the place of `Presence`.
4. The devices of `WakeUp` as an instance of `Presence` with `Udp` and the network
   lookup, and `MobileNetwork` as an implementation of a register that may be stale.
5. The wake-up server's TCP branch, once something stores the protocol "tcp".
