# TLA+ models of the Autobahn clients

Autobahn is a publish/subscribe hub reached over a WebSocket.  This repository
holds its clients in four languages, each with its own code for connecting,
reconnecting and keeping subscriptions alive, and three RPC layers built on
publish and subscribe.  The hub itself is not here.

The modules in this directory model the four clients, one module per language, the
remote calls of three of them, and the names under which functions are called.
TLC checks them on small instances, and TLAPS proves the safety properties for
every instance.  `Session` and `LazySession` say what a client promises, `RemoteCall`
what a remote call promises; three of the clients, and the calls of two of them, are
shown to implement these.  All paths below are relative to the root of the
repository; definitions keep the names of the source.

## The system

| Component | State | Operations | Concurrency |
|---|---|---|---|
| Rust client, `src/main/rust/src/autobahn.rs` | `write`, `callbacks`, `started` (each behind a tokio mutex), the watch channel `connection_tx` | `begin`, `publish`, `subscribe` (with a deferred task while disconnected), `unsubscribe`, `wait_until_connected`, `send_heartbeat` | tokio tasks: callers, one reconnect task, one reader per connection, deferred subscribes |
| TypeScript client, `src/main/typescript/autobahn_client/index.ts` | `callbacks`, `ws`, `connected`, a reconnect timer | `begin`, `publish`, `subscribe`, `unsubscribe`, socket handlers | one event loop; socket events and timers in any order |
| Python client, `src/main/python/autobahn_client/client.py` | `callbacks`, `websocket`, `_connected`, `listener_task`, the task of `_maintain_connection` | `begin`, `publish`, `subscribe`, `unsubscribe`, `_listener`, `_maintain_connection` | asyncio tasks, which change at awaits |
| Java client, `src/main/java/autobahn/client/AutobahnClient.java` | `websocket`, `isReconnecting`, `callbacks`, the queue of `reconnectExecutor` | `begin`, `publish`, `subscribe`, `unsubscribe`, `scheduleReconnect`, `tryReconnect`, socket handlers | application threads, the common pool, one executor thread, one thread per socket; no lock at all |
| Rust RPC, `src/main/rust/src/rpc/`, `src/main/rust/macros/` | a response topic and a oneshot per call | `call_rpc`, `initialize_rpc_server`, generated stubs | caller, callback and timeout |
| Python RPC, `src/main/python/autobahn_client/rpc.py` | a future per call | `rpc_callable`, `rpc_function`, `init_rpc_services` | caller, listener, timeout |
| Java RPC, `src/main/java/autobahn/client/rpc/AutobahnRPC.java` | `pendingCalls`, `serviceInstances` | `createRPCClient`, `registerRPCService`, `makeRPCCall`, `onMessageServer`, `onMessageClient` | caller threads, the socket's thread, a thread for each request |
| Hub (external) | topics per connection | routes `PUBLISH`, takes `SUBSCRIBE`, `UNSUBSCRIBE`, topics in `HEARTBEAT`; sends heartbeats | its connections break at any time |

The components interact only through frames: an RPC layer calls its client's
`subscribe`, `publish` and `unsubscribe`; a client sends frames to the hub, which
sends `PUBLISH` and `HEARTBEAT` frames back; a reader calls the callbacks of the
application.

### What is hard, and what makes each component correct

* **A dial races everything.** A subscribe, an unsubscribe or a second `begin`
  may come in while a connection is set up.  Correct means: one connector, one
  live connection, and a hub that holds the topics that have callbacks once the
  connection is installed.
* **A connection dies silently.** Sends go nowhere until the client notices.
  Correct means: the client finds out, dials again, and resubscribes everything.
* **Heartbeats heal.** The answer to the hub's heartbeat lists all topics and
  may race an unsubscribe.  Correct means: it never brings back a topic that is
  gone, and always brings back one that was lost.
* **Flags and timers.** `connected`, `connection_tx`, `isReconnecting` and the
  reconnect timer must tell the truth, or a client stops trying.
* **RPC.** A response may come before the caller waits, after its timeout, twice
  or never, and its topic must be given up on every path.  A request must be run
  by the function it names, although a name is pieces of text run together (Rust,
  Python) or a topic that responses share (Java).

`PROJECT.json` lists every hazard at its line with the properties that cover it,
and says of the others why none does.

## Modules

| Module | What it is |
|---|---|
| `Session` | what a client promises, when the hub is told at once |
| `LazySession` | what a client promises, when the hub is told later |
| `RemoteCall` | what a remote call promises its caller |
| `RustClient`, `MCRustClient`, `RustClientProofs` | the Rust client, which implements `LazySession`, its instances, its theorems |
| `TsClient`, `MCTsClient`, `TsClientProofs` | the TypeScript client, which implements `Session` |
| `PyClient`, `MCPyClient`, `PyClientProofs` | the Python client, which implements `Session` |
| `JavaClient`, `MCJavaClient`, `JavaClientProofs` | the Java client |
| `RpcNames`, `RpcNamesProofs` | which functions the macros accept and the names they and the Python decorators give them |
| `RustRpc`, `MCRustRpc`, `RustRpcProofs` | remote calls over the Rust client, which implement `RemoteCall`; extends `RpcNames` |
| `PyRpc`, `MCPyRpc`, `PyRpcProofs` | remote calls composed with the Python client, which implement `RemoteCall`; extends `PyClient` |
| `JavaRpc`, `MCJavaRpc`, `JavaRpcProofs` | remote calls over the Java client |

Definitions marked "Mutant" are plausible bugs in the definition that follows
them.  They are no part of the specifications; replacing the real definition by
the mutant makes TLC find the property broken, which shows that the property
depends on that code.

### The hub

Every module keeps, for each connection, `hubTopics`: the topics the hub holds
for it.  A connection is FIFO and loses frames only by ending, so a frame
written on a connection that is up is applied at once, and one written after the
hub is gone has no effect.  The other direction is a queue, `inbound`, because
the client reads when it pleases.  That a heartbeat's topics are registered is
taken from the integration test "server heartbeats should re-register topics
after dropped subscribe"
(`src/test/java/autobahn/client/IntegrationTests.java:278`).

### Session

An abstract specification: the topics the application wants, a connection in use or
none, and the topics the hub holds for it.  A subscription or a cancellation takes
effect in one step, a connection opens with everything wanted, and nothing else
changes what the hub holds.  `TsClient` and `PyClient` instantiate it with what
these three are in their own state (`InUse` says when a connection is in use: in
Python once the resubscription is over), and `ImplementsSession` is checked as a
property and proved as a theorem.  The Rust and Java clients do not implement it:
between the callback and the SUBSCRIBE another task may run.

### LazySession

What the Rust client promises instead.  A call changes what is wanted in one step
(`Ask`) and tells the hub in another (`Tell`, or `TellNobody` when no connection is
in use, which may leave a SUBSCRIBE for later, `TellLate`).  A connection is set up
with wanted topics (`Prepare`) and comes into use with all of them, but for those a
call or a late SUBSCRIBE is still to tell (`Open`); a heartbeat is answered with the
topics of a moment ago (`Repeat`), and a connection goes (`Close`).  Nothing else
changes what the hub holds for the connection in use.  `RustClient` says what the
six variables are in its state, and `ImplementsLazySession` is checked and proved.

The specification is as loose as the code: a late SUBSCRIBE is sent although the
topic has been unsubscribed (`autobahn.rs:366-390`), and an unsubscribe that finds
no writer while `begin()` is between its resubscription and `write` tells nobody
that the topic, which has been sent already, is gone (`autobahn.rs:129-139`).  The
Java client is not related to it: two of its calls for one topic may tell the hub
in the other order, and what it promises is stated as `HubCatchesUp`.

### RemoteCall

What a call promises its caller, in any of the languages: it starts (`Start`), servers
run it (`Run`), it takes one answer, while it waits and when some
server has run it (`Take`), it may stop waiting with something left to do (`Leave`),
and it ends once, with the answer it took (`Return`) or with a failure (`Fail`), which
the code allows also when there is an answer.  `RustRpc` and `PyRpc` say what its four
variables are in their state (in Python the servers are the environment and are
numbered as they answer); `ImplementsRemoteCall` is checked and proved for both.  It
contains `FirstAnswerStands`, which is therefore proved only.

The Java calls do not implement it: a call may take its own request for an answer that
no server gave (`AutobahnRPC.java:328`, the run `java_rpc_self`), and a server may run
a call again when it reads the response to it.  What holds of them is stated in
`JavaRpc`.

### RustClient

A step is what a task does between two points where another task can be seen to
interfere: an await on a contended mutex, a dial, or a send made under a mutex
that is held for longer than the send.  `pc` is where each caller is, `loop`
where the reconnect task is, `reader` where each reader is; `writeLock`,
`cbLock` and `startedLock` name the holder of a mutex kept across an await.
`begin()` is `Begin`, `BeginDial`, `BeginLockCallbacks`, `BeginResubscribe`,
`BeginUnlockCallbacks`, `BeginInstall`; the reconnect task is `LoopLock` to
`LoopInstall`; a reader is `ReadPublish`, `ReadHeartbeat`, `HeartbeatLock`,
`HeartbeatSnapshot`, `HeartbeatReply`, `ReaderEnds`, and differs between the
reader of `begin()` and that of the reconnect task (`kind`).

Not modelled: a method whose future is dropped half way, frames that do not
decode, the contents of payloads.

### TsClient

Every method and handler is one step, since none awaits before its last send.
What interleaves is the events of the sockets, the timers and the application.
Handlers act on `this.ws` whichever socket their event came from, as in the code.

The application may begin `MaxBegins` times.  `begin()` tests `connected`, which is
false during a dial (`index.ts:46`), so that a second one makes a second socket.
`OneConnection` therefore speaks of one `begin()`; that the hub mirrors the
callbacks, that the client implements a session and that it ends up connected hold
for any number.  What goes wrong with two is that both sockets deliver, and that
the first one's `onopen` makes `connected` true for the other.

### PyClient

asyncio changes task at awaits that suspend.  The dial and each turn of the loop
that resubscribes are steps of their own; a call of `subscribe` or `unsubscribe`
is one, because its frame is already in the transport's queue when its send
suspends and sends are FIFO.  The listener that `_connect` starts is a task with
its own state, so that two could exist.

The loop iterates over the dictionary of callbacks across its awaits.  `unsent` has
the topics it has still to come to, those added meanwhile included, `size` the size
it started with and `left` how many topics it still expects, as in CPython's
iterator, which raises `RuntimeError` for a dictionary of another size and for one
that has its size but a topic left over (`CallbacksChanged`).

`AbandonsForCause` says what gives up a connection that is not closed: that loop
(`client.py:122`), and a listener that reads a frame that does not decode
(`ListenerFails`, `client.py:246-250`).  The teardown then drops the websocket
without closing it (`client.py:107-109`), and it stays open at the hub.

Assumed of the application: it calls `begin` until it succeeds once, and has
registered no RPC service before.  Assumed of the dictionary: CPython does not
rebuild it in the middle of the loop.  It does when its table is full, at the sixth
insertion at the soonest, and the entries that move up make the loop pass topics
over without an error.  No insertion of the model does this; `HubMirrorsCallbacks`,
`ImplementsSession` and `EventuallyInSync` are claimed, and the theorems proved, of
a client to which it does not happen.

### JavaClient

One access to a field, or one operation on the callbacks, is a step, of any of
the four kinds of thread.  `task[s]` is the `begin()` that makes socket `s`,
followed by `thenRun` and `exceptionally` when it is one of `tryReconnect`;
`loop[s]` is its `forEach`, with the `modCount` tests of the map and of the list
(`keysChanged`, `listChanged`); `pool` counts the bodies of `subscribe` and
`unsubscribe` that are queued or half done; `passed` has the socket threads that
are past the test of `scheduleReconnect`, which any number may be, since nothing
locks it; `own` is the socket of the application's `begin()`, whose future nobody
but the application waits for.  Two threads past the test schedule two attempts,
and these may make two sockets; what is checked is that the flag they share is
always cleared.

Assumed: the application calls `begin` once and has one callback for each topic;
`RECONNECT_DELAY` (5 s) is longer than any pause of a thread that can run, but
not than a dial; `HashMap` and `ArrayList` operations are atomic (they are not
synchronised in the code, so two adds at once may lose one).

### RustRpc

One client calls a function that several clients may serve.  `pc[c]` is where
`call_rpc` is: `Call`, `CallSubscribe`, `CallPublish`, `CallReceive`,
`CallReturn`, or `CallTimeout` and `CallCleanup`; `FailConnection` is its early
returns, which take neither the callback nor the topic back.  `answer` is the
oneshot channel, `served[s]` what the handlers of server `s` have done.

The client below is that of `RustClient` with coarser steps.  `net[x]` is the
writer of a client with its connection, and `"dialing"` the time in which the
reconnect task holds the write mutex, so that `subscribe`, `publish` and the send
of `unsubscribe` wait.  A dial that succeeds, its resubscription and the new
writer are one step, because both mutexes are held from the one to the other.
Unlike in `RustClient`, the receiver of the connection signal is only a deferred
task, since nothing else in a caller waits for it.

A call names a function as its stub declares it (`Called`), a server offers others
(`Offers`), and a request reaches whichever of them have the topic (`Handlers`): a
server that offers several functions of one name runs the one registered last, as
in the map of callbacks.  A handler answers with an error when the function takes
another message than the stub sends.

The caller's `begin()` holds no mutex between its resubscription and `write`
(`autobahn.rs:129-139`), so it is in three steps: `BeginDialFails` or
`BeginResubscribe`, and `BeginInstall`.  A `subscribe` that comes between the two
finds no writer and leaves its SUBSCRIBE to a deferred task, and the `publish` of the
call may take the write mutex before that task does.  The request is then out, on a
connection that is up, before the hub knows the response topic, contrary to the
comment at `rpc/client.rs:35`; `ResponseRoutable` says that nothing else can go wrong
with the order, and that the deferred task has its signal.  A call whose
`publish` comes before the writer too fails with a connection error.

Assumed: responses decode; every client reconnects.  A handler may panic.

### RpcNames

An identifier is a sequence of words, a type a path behind some references, so that
running names together is concatenation.  `ServerAccepts` and `ClientAccepts` are
the functions whose expansion compiles: no primitive type, messages by value, at
most one argument.  `RpcName` is the topic the Rust macros derive
(`macros/src/lib.rs:233`), `PythonName` that of the Python decorators
(`rpc.py:135`).

### PyRpc

`rpc_caller` is `Call` (up to the send of its subscribe), `CallPublish` (to that of
its publish), `CallWait`, `CallReturn`, `CallTimeout` and their failures; `at` has
the await it is suspended in and `sending` the connection of its send.  What ends a
call from its publish on goes through the `finally` that unsubscribes (`Finally`,
`rpc.py:304`); what ends it in its subscribe does not, because that await comes
before the `try`.  `response_handler` is `ListenerResponse`.  A call is made by a
task of the application or inside a callback that the listener awaits; `within`
tells which.  The listener that is cancelled with its connection takes the callback
and its call with it (`CallCancelled`), in the next turn of the event loop and so
before the next dial ends (`Dialed`).  Since Python 3.12 the timer of
`wait_for` may win over a result that is there already.

What is found: a call inside a callback can only time out (`NoAnswerInside`); a
call that ends in its subscribe, because the client is not connected, the send
raises, or its task is cancelled there, leaves its callback and its topic for good
(`rpc.py:281` is outside the `try`), which `CleanedUp` excepts.  The timeouts
with proper cleanup that the repository's README promises are there: a call can
time out in its wait only.

The server side is not modelled because nothing can reach it: `rpc_function` is
a `classmethod` object at the level of the module, which cannot be called, so no
function gets into `GLOBAL_RPC_FUNCTIONS`.  The servers are therefore the
environment (`Answer`).

### JavaRpc

A function has one topic for its requests and its responses, its callers and its
servers subscribe to it, and neither `onMessageServer` nor `onMessageClient` looks
at `message_type`.  That the hub sends a client its own messages back is taken from
`IntegrationTests.java:232-279`.  So `OnMessage` gives every message to both
handlers: as a request, a response has its payload for an argument, and runs the
function again; as a response, a request is a success without payload
(`AsResponse`).  What keeps this from going wrong more often is that a function
without argument throws when it gets one and the other way round
(`ServerThrows`), that an id is pending for one call only, and that a future takes
one value.  A call that passes `null` uses the topic of the function without
argument (`Topic`).

`makeRPCCall` is `Call`, `CallPublishes` or `CallRaises`, `CallReceives` or
`CallTimesOut`, and `CallRemoves`; a function runs in a thread of its own
(`running`) and ends in `FunctionReturns` or `FunctionThrows`.  A function that
throws is not answered at all: `InvocationTargetException` has no message, and a
response cannot be built with `null`.  A service is known only when all its
subscribes are over (`registered`); a request before that ends in a
`NullPointerException`.

The client below is what is left of `JavaClient` between losses: up or not, and
topics that get to the hub some time after their callbacks did.  Equal messages on
their way to one client count as one, and so do two threads of a server for one
call.  So do the copies of a callback in one list: `AddCallback` adds it once, a
guard the code has for the proxy only (`AutobahnRPC.java:104`).  A service that is
registered again and a resubscription do add copies, which is what
`java_duplicates` finds in the client below; nothing is claimed of how often a
function runs.  The join of the publish (`AutobahnRPC.java:478`), which has no
timeout, is assumed to end.  The functions of the interface share a name, since
other names have other topics.

## Runs

| Run | Question | Result |
|---|---|---|
| `rust_safety` | two callers, two topics, three connections: mutexes, one connector, no orphan, nothing unsubscribed on a connection that is up, nothing brought back, a `LazySession` | holds |
| `rust_liveness` | is the client in sync once the network is quiet, does every call return, does the connection of `begin()` answer heartbeats | holds |
| `rust_heartbeat` | does every connection answer heartbeats | violated: the reader of the reconnect task does not (`autobahn.rs:229`) |
| `rust_rpc` | one call, two servers with three functions, two of whose names meet, three connections with two losses: can a response reach a call that waits, unless its SUBSCRIBE was deferred and is about to be sent, does a call clean up, run no other version of its function, keep its first answer (a `RemoteCall`), return | holds |
| `ts_client` | an application that begins twice, four sockets: a session, the hub mirrors the callbacks, open in the end; with one `begin()` one connection and a `connected` that tells the truth | holds |
| `py_client` | one listener, the hub mirrors the callbacks, a session, what gives up a live connection, in sync in the end | holds |
| `py_early` | one call, from a task or inside a callback, with two answers and a loss, over a client that subscribes early: can the response reach the call, does it clean up unless its subscribe ended it, keep its first answer (a `RemoteCall`), end; is it answered inside a callback; does an early topic get to the hub | holds: it is never answered there, and a heartbeat sends the topic |
| `java_client` | is `isReconnecting` only set while an attempt is left that will clear it, is it cleared, are all topics at the hub in the end | holds |
| `java_reconnect` | does a client with callbacks keep trying to reconnect | violated: a close between the test of `tryReconnect` and its reset of the flag schedules nothing (`AutobahnClient.java:80`) |
| `java_duplicates` | is a callback registered once | violated: each reconnection adds it again (`AutobahnClient.java:91`) |
| `java_rpc` | a call, a caller that also serves, another server with a second function, a loss: do values come from servers, do servers run only calls of their functions, does the first message stand, does the call end | holds |
| `java_rpc_self` | is a call that returns a value answered by a server | violated: it may take its own request for the response (`AutobahnRPC.java:328`) |

The runs that expect a violation each check one property that a comment or a test
of the repository states; the findings in `PROJECT.json` quote it.

Calls that fail with a connection error keep their callback and their topic
(`rpc/client.rs:49-66`): `CleanedUp` is false for them, and says so.  In the same
module, `CallTimeout` after `CallReceive` is a call whose answer came in time and
that still reports a timeout.

`KeepsTrying` supposes callbacks because `begin()` completes normally when its dial
fails: what schedules the next attempt is the `subscribe` that throws
(`AutobahnClient.java:91-95`), and without callbacks there is none.

### Bounds

* Calls: one.  In Rust and Python each has its own topic; in Java its own id, and
  with two calls of one topic the run is out of reach, the theorems are not.  Two
  answers or two servers, so that a response can be second.  The theorems are for
  any number of both.
* Names: two identifiers of up to two words are enough for two that run together;
  `RpcNamesProofs` is about all names.
* Connections (`Conns`, `Socks`): three (four in `ts_client`, where a second
  `begin()` takes one) are enough for one that is lost, one that fails or is lost
  while it is set up, and one that lasts.  In Rust and TypeScript a connection is
  used once, so their number bounds the losses (the last one stays up); in Java and
  Python a forgotten one stands for a new one (so that two are enough in Python),
  and `MaxLosses` bounds the losses, in Python `MaxFaults` losses and garbled frames
  together.  Dials may fail for ever.
* Callers: two, since the mutexes tell callers apart only by who holds them.
* Topics: two where the order of several topics matters (resubscription in the
  middle, sets of keys that change), else one.
* `MaxAttempts`: two scheduled attempts are enough for one that comes in the way of
  another.  `MaxCalls`: 4 in Rust, enough for begin, subscribe, unsubscribe and subscribe
  again, and in `py_client`, enough for a loop whose keys change twice; less elsewhere.
  `MaxInbound`: one or two frames waiting, so that a publish may wait behind a
  heartbeat.  `MaxCopies`: two copies of a callback are as wrong as more.
* `rust_safety` uses the symmetry of its connections.  No run with liveness uses
  symmetry.
* `CHECK_DEADLOCK FALSE` everywhere: calls and losses are bounded, so a behaviour
  may come to rest; what must not rest is stated as liveness.

### Fairness

* Rust: tokio runs ready tasks and its mutexes are FIFO, so a task that waits for
  a mutex gets it although others take it in turn: strong fairness of each task's
  own steps.  The network detects a dead connection (weak) and lets a dial
  succeed in the end (strong).  Applications call nothing by obligation.
* Remote calls in Rust: the fairness of the client, a dial that ends, and a timer
  that fires; nothing obliges a server or a network.  In Python: the fairness of
  the client, tasks of calls that run, a timer that fires; nobody answers by
  obligation.  In Java: the thread of a call goes on, and `get` ends at its timeout.
* TypeScript: the event loop delivers due events and timers (weak).
* Python: tasks that can go on do (weak); a dial that is tried for ever succeeds
  (strong); the keepalive of the websockets library finds dead connections.
  `py_early` also assumes that callbacks end and the hub sends heartbeats.
* Java: threads that can go on do, the waits of `begin` end, dials end (weak); a
  hub that is dialed again and again answers (strong); the hub sends heartbeats.

## Proofs

TLAPS proves the following for every value of the constants that satisfies the
`ASSUME`s: any number of callers, topics, connections, calls and servers, and any
bound.  Each theorem rests on an inductive invariant, which holds at first, is kept
by every action (one step of the proof for each), and implies the property.

* **RustClientProofs.** `TypeCorrect`, `MutualExclusion`, `StartedOnce`,
  `NothingOrphaned`; and, under `DisjointOwners` (each topic has one caller),
  `NoLostSubscription`, `ResurrectedByDeferredOnly` (an action property) and
  `ImplementsLazy` (the refinement).  The invariant is built in layers.  The first
  is `TypeOK` with `Locals`: what each task's local variables are at each of its
  steps.  The second, `SafeInv`, adds the mutexes, `BeginsOnce` (the flag `started`
  and the writer against where the callers are: without it, that a second `begin`
  cannot dial is not inductive) and `FreshDialed` (a connection being set up is not
  the writer's).  The third, `SubscriptionInv`, adds what is still to be
  resubscribed.  `Resending` says that what is about to be sent again has its
  callback, or an UNSUBSCRIBE to come: it is inductive because the reader that
  answers a heartbeat holds the write mutex from its copy of the topics to its send,
  and a resubscription holds that of the callbacks.  `Forgotten` says that the hub
  holds nothing for a connection that is not up.  The refinement has one lemma for
  each kind of task; what it needs of the sets it maps to is stated first
  (`ToTellLess`, `ConnectingOne`, `ConnectingNone`).
* **TsClientProofs.** `TypeCorrect`, `SingleConnection`, `HubMirrors`,
  `Implements`.  `MirrorInv` adds `Unopened`: the hub holds nothing for a socket
  that has not opened.  It does not need that the application begins once, and
  neither does the refinement.
* **PyClientProofs.** `TypeCorrect`, `SoleListener`, `HubMirrors`, `Implements` and
  `LiveConnectionsKept` (an action property).  The invariant adds `Resubscribing`,
  which says what the hub holds in the middle of the loop over the callbacks: the
  topics already sent and what the application has sent meanwhile.
* **JavaClientProofs.** `TypeCorrect` and `FlagIsOwned`, which holds whatever
  threads race past the test of `isReconnecting`: `FlagInv` says that while the flag
  is set an attempt is scheduled or under way (`OwnerLeft`), that an attempt whose
  `begin()` finds the socket open was overtaken by one that has still to clear the
  flag, or the flag was set again since and its attempt waits for the delay
  (`Overtaken`), and that the application's `begin()` is over before there is
  anything to reconnect (`OpensAlone`).  It rests on the assumption that
  `RECONNECT_DELAY` is longer than any pause.
* **RustRpcProofs.** `TypeCorrect`, `ResponsesAreRouted`, `CallsCleanUp`,
  `RunByItsFunction`, `FirstAnswerKept` (an action property) and `ImplementsCalls` (the
  refinement of `RemoteCall`).  Types alone are
  not inductive: that a response carries an outcome rests on `OnceOnly`, a request
  being handled at most once.  `Locals` says what holds at each step of a call,
  `Beginning` that none gets past its publish before `begin()` has a writer, and that
  one the resubscription came too early for has its deferred task,
  `NothingWhenDown` that the hub forgets a client with its connection (without it a
  topic could outlive the clean-up that found the connection down), and `ServedBy`
  that a server has run a call by a function of its topic.  The refinement needs
  besides that a server has a function for a call exactly when it has done something
  with it (`RanWhenServed`): with `OnceOnly`, that a response names a server that ran.
* **RpcNamesProofs.** `OnePartTellsApart`, `SameLengthsSameSignature`,
  `NamesRunTogether` and `NamesMatchPython`: functions that differ in one part have
  different topics, functions that differ in two may share one, and Rust and Python
  agree on a name if and only if the function has an argument.
* **PyRpcProofs.** `RpcTypeCorrect`, `ResponsesFindTheirCall`, `CallsCleanUp`,
  `FirstAnswerKept`, `InsideNoAnswer`, `CallsAbandonNothing` and `ImplementsCalls` (the
  refinement of `RemoteCall`).  The proof takes the
  invariant of `PyClientProofs` for the steps of the client and adds, for the calls:
  the one listener alive (`ListenerInv`), what holds at each step of a call
  (`CallInv`), where the listener of a call inside a callback is (`Insides`), that a
  response on its way was given to a request (`Frames`, from which the refinement has
  that an answer was given before it is taken) and that a topic is kept up for as long as its call
  (`Kept`).
* **JavaRpcProofs.** `TypeCorrect`, `CallsCleanUp`, `ServersAnswer`, `RunsOwnCalls`,
  `FirstMessageKept`.  The invariant relates the messages on their way, the threads
  of the functions and the futures to the calls they come from (`Serving`,
  `Arguments`, `Messaging`, `Threads`, `Futures`): a message with a payload was
  written by a call that passed one or by a server that ran the function.

Only model-checked: every liveness property (the prover has no fairness and no
`ENABLED`).  Only proved: the types of the TypeScript client and of the
RPC modules, that a Java call is pending exactly while its thread is in `makeRPCCall`,
`FirstAnswerKept`, and `CallsAbandonNothing`.

## Not modelled

* The server side of the Python RPC, which cannot be reached (see PyRpc).
* `Address`, `util.py`: formatting of a URL.
* Message formats: generated code; a frame is its kind and its topics.  Clients
  whose formats differ are not considered.
* Generic types in remote functions, and functions of several arguments, which do
  not compile.
* Races inside `HashMap` and `ArrayList`, and methods whose future is dropped half
  way: their effects are not fixed by the code.
* TLS, the WebSocket protocol and the keepalive of the libraries: external.
* Examples, tests and build files: read as documentation.

## Plan

1. The clients, their proofs, and `Session`: done.
2. `RpcNames`, `RustRpc`, `PyRpc`, `JavaRpc` with their proofs: done.
3. `LazySession` with `RustClient` as its implementation: done.
4. `RemoteCall` with `RustRpc` and `PyRpc` as its implementations: done.
5. `JavaRpc` with `JavaClient` below it, so that the copies a reconnection adds to a
   list of callbacks are seen by the calls.
