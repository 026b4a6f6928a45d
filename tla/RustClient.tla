----------------------------- MODULE RustClient -----------------------------
(***************************************************************************)
(* The Rust client of the Autobahn hub (src/main/rust/src/autobahn.rs):    *)
(* one shared Autobahn value, the application tasks that call its methods, *)
(* the reconnect task begin() spawns, one reader task per connection and   *)
(* the subscribe tasks that wait for a connection.                         *)
(*                                                                         *)
(* A step is what one task does between two points where another task can  *)
(* be seen to interfere: an await that takes a contended mutex, a dial, or *)
(* a send made while a mutex is held for more than that send.  Taking the  *)
(* write mutex and the one send made under it are one step, because the    *)
(* mutex is free again before any other task can look.                     *)
(*                                                                         *)
(* The hub is not part of the repository.  It is kept as the topics it     *)
(* holds for each connection: a connection is FIFO and loses frames only   *)
(* by breaking, so a frame written while the link is up may be applied at  *)
(* once, and one written after the hub is gone changes nothing.            *)
(*                                                                         *)
(* A definition marked "Mutant" is no part of the model: it is a plausible *)
(* bug in the definition after it, kept to show which property notices it. *)
(***************************************************************************)
EXTENDS Naturals, FiniteSets, Sequences

CONSTANTS
  Callers,      \* application tasks that call the client's methods
  Topics,       \* topic names
  Conns,        \* connections that can ever be opened (a bound)
  None,         \* no writer, nobody holds the mutex
  Heartbeat,    \* a HEARTBEAT frame from the hub
  Owns,         \* the topics each caller subscribes and unsubscribes
  Reconnect,    \* the reconnect argument of Autobahn::new
  MaxCalls,     \* method calls made in a behaviour (a bound)
  MaxInbound    \* frames from the hub waiting on one connection (a bound)

ASSUME OwnsAssumption      == Owns \in [Callers -> SUBSET Topics]
ASSUME ReconnectAssumption == Reconnect \in BOOLEAN
ASSUME BoundsAssumption    == MaxCalls \in Nat /\ MaxInbound \in Nat
ASSUME HeartbeatAssumption == Heartbeat \notin Topics

VARIABLES
  write,         \* Autobahn.write: the connection its sink belongs to, or None
  writeLock,     \* the task holding the write mutex across an await, or None
  callbacks,     \* Autobahn.callbacks: the topics that have a callback
  cbLock,        \* the task holding the callbacks mutex across an await, or None
  started,       \* Autobahn.started
  startedLock,   \* the caller holding the started mutex, or None
  connectionTx,  \* the value the watch channel of connection_tx holds
  pc,            \* where each caller is in the method it called
  topic,         \* the topic argument of that call
  fresh,         \* the connection a caller's begin() has just dialed
  loop,          \* where the reconnect task spawned by a caller's begin() is
  loopFresh,     \* the connection that reconnect task has just dialed
  todo,          \* topics still to be resubscribed on a fresh connection
  deferred,      \* deferred subscribe tasks per topic
  reader,        \* where the reader task of each connection is
  kind,          \* which of the two reader loops it runs
  snapshot,      \* topics read for the heartbeat reply being sent
  link,          \* each connection as the network has it
  hubTopics,     \* the topics the hub holds for each connection
  awaiting,      \* the hub has sent a heartbeat and seen no reply since
  inbound,       \* frames from the hub the reader has not read yet
  calls          \* method calls made so far

clientVars == <<write, writeLock, callbacks, cbLock, started, startedLock,
                connectionTx>>
callerVars == <<pc, topic, fresh>>
loopVars   == <<loop, loopFresh>>
readerVars == <<reader, kind, snapshot>>
hubVars    == <<link, hubTopics, awaiting, inbound>>
vars       == <<clientVars, callerVars, loopVars, todo, deferred, readerVars,
                hubVars, calls>>

(***************************************************************************)
(* Holders of the mutexes.                                                 *)
(***************************************************************************)
BeginTask(p)  == <<"begin", p>>
LoopTask(p)   == <<"loop", p>>
ReaderTask(c) == <<"reader", c>>

BeginTasks  == {BeginTask(p) : p \in Callers}
LoopTasks   == {LoopTask(p) : p \in Callers}
ReaderTasks == {ReaderTask(c) : c \in Conns}

ASSUME NoneAssumption ==
  None \notin Callers \cup Topics \cup Conns
               \cup BeginTasks \cup LoopTasks \cup ReaderTasks

BeginSteps == {"dial", "dialed", "resub", "install"}
CallSteps  == {"idle", "await", "subscribe", "unsubscribe"} \cup BeginSteps
LoopSteps  == {"off", "sleep", "check", "dialed", "resub"}
ReaderSteps == {"off", "recv", "beat", "snapshot", "reply", "done"}
LinkStates == {"unused", "open", "broken", "dead"}
Frames     == Topics \cup {Heartbeat}

TypeOK ==
  /\ write \in Conns \cup {None}
  /\ writeLock \in LoopTasks \cup ReaderTasks \cup {None}
  /\ callbacks \in SUBSET Topics
  /\ cbLock \in BeginTasks \cup LoopTasks \cup {None}
  /\ started \in BOOLEAN
  /\ startedLock \in Callers \cup {None}
  /\ connectionTx \in BOOLEAN
  /\ pc \in [Callers -> CallSteps]
  /\ topic \in [Callers -> Topics \cup {None}]
  /\ fresh \in [Callers -> Conns \cup {None}]
  /\ loop \in [Callers -> LoopSteps]
  /\ loopFresh \in [Callers -> Conns \cup {None}]
  /\ todo \in [Conns -> SUBSET Topics]
  /\ deferred \in [Topics -> Nat]
  /\ reader \in [Conns -> ReaderSteps]
  /\ kind \in [Conns -> {"none", "begin", "reconnect"}]
  /\ snapshot \in [Conns -> SUBSET Topics]
  /\ link \in [Conns -> LinkStates]
  /\ hubTopics \in [Conns -> SUBSET Topics]
  /\ awaiting \in [Conns -> BOOLEAN]
  /\ inbound \in [Conns -> Seq(Frames)]
  /\ calls \in Nat

Init ==
  /\ write = None /\ writeLock = None
  /\ callbacks = {} /\ cbLock = None
  /\ started = FALSE /\ startedLock = None
  /\ connectionTx = FALSE
  /\ pc = [p \in Callers |-> "idle"]
  /\ topic = [p \in Callers |-> None]
  /\ fresh = [p \in Callers |-> None]
  /\ loop = [p \in Callers |-> "off"]
  /\ loopFresh = [p \in Callers |-> None]
  /\ todo = [c \in Conns |-> {}]
  /\ deferred = [t \in Topics |-> 0]
  /\ reader = [c \in Conns |-> "off"]
  /\ kind = [c \in Conns |-> "none"]
  /\ snapshot = [c \in Conns |-> {}]
  /\ link = [c \in Conns |-> "unused"]
  /\ hubTopics = [c \in Conns |-> {}]
  /\ awaiting = [c \in Conns |-> FALSE]
  /\ inbound = [c \in Conns |-> <<>>]
  /\ calls = 0

(***************************************************************************)
(* Frames the client writes on connection c, as the hub takes them.        *)
(***************************************************************************)
Up(c) == link[c] = "open"

SendSubscribe(c, t) ==
  hubTopics' = IF Up(c) THEN [hubTopics EXCEPT ![c] = @ \cup {t}] ELSE hubTopics

\* Mutant: unsubscribe() only removes the callback.
UnsubscribeLocally(c, t) == UNCHANGED hubTopics

SendUnsubscribe(c, t) ==
  hubTopics' = IF Up(c) THEN [hubTopics EXCEPT ![c] = @ \ {t}] ELSE hubTopics

SendHeartbeatReply(c, S) ==
  /\ hubTopics' = IF Up(c) THEN [hubTopics EXCEPT ![c] = @ \cup S] ELSE hubTopics
  /\ awaiting' = IF Up(c) THEN [awaiting EXCEPT ![c] = FALSE] ELSE awaiting

\* connect_async succeeds: the hub is reached on a connection not used before.
Open(c) ==
  /\ link[c] = "unused"
  /\ link' = [link EXCEPT ![c] = "open"]

\* The receivers of the connection signal: deferred subscribe tasks and callers
\* in wait_until_connected().  new() drops the receiver it is given.
Receivers == {t \in Topics : deferred[t] > 0} \cup {p \in Callers : pc[p] = "await"}

\* connection_tx.send(TRUE).  watch::Sender::send keeps the old value when the
\* channel has no receiver, and both callers drop the error it returns.
Signal == connectionTx' = (connectionTx \/ Receivers # {})

\* What follows the resubscription in either task: the writer is stored, the
\* signal is sent and the reader starts.
Install(c, k) ==
  /\ write' = c
  /\ Signal
  /\ reader' = [reader EXCEPT ![c] = "recv"]
  /\ kind' = [kind EXCEPT ![c] = k]

\* An idle caller starts a method call.
Call(p) ==
  /\ pc[p] = "idle"
  /\ calls < MaxCalls
  /\ calls' = calls + 1

(***************************************************************************)
(* begin().  The started mutex is held until it returns.                   *)
(***************************************************************************)
BeginAgain(p) ==
  /\ Call(p)
  /\ startedLock = None
  /\ started
  /\ UNCHANGED <<clientVars, callerVars, loopVars, todo, deferred, readerVars,
                 hubVars>>

Begin(p) ==
  /\ Call(p)
  /\ startedLock = None
  /\ ~started
  /\ startedLock' = p
  /\ pc' = [pc EXCEPT ![p] = "dial"]
  /\ UNCHANGED <<write, writeLock, callbacks, cbLock, started, connectionTx,
                 topic, fresh, loopVars, todo, deferred, readerVars, hubVars>>

BeginDial(p) ==
  /\ pc[p] = "dial"
  /\ \E c \in Conns :
       /\ Open(c)
       /\ fresh' = [fresh EXCEPT ![p] = c]
  /\ pc' = [pc EXCEPT ![p] = "dialed"]
  /\ UNCHANGED <<clientVars, topic, loopVars, todo, deferred, readerVars,
                 hubTopics, awaiting, inbound, calls>>

BeginLockCallbacks(p) ==
  /\ pc[p] = "dialed"
  /\ cbLock = None
  /\ cbLock' = BeginTask(p)
  /\ todo' = [todo EXCEPT ![fresh[p]] = callbacks]
  /\ pc' = [pc EXCEPT ![p] = "resub"]
  /\ UNCHANGED <<write, writeLock, callbacks, started, startedLock,
                 connectionTx, topic, fresh, loopVars, deferred, readerVars,
                 hubVars, calls>>

\* One SUBSCRIBE of the resubscription; the order is the hash map's.
BeginResubscribe(p) ==
  /\ pc[p] = "resub"
  /\ \E t \in todo[fresh[p]] :
       /\ SendSubscribe(fresh[p], t)
       /\ todo' = [todo EXCEPT ![fresh[p]] = @ \ {t}]
  /\ UNCHANGED <<clientVars, callerVars, loopVars, deferred, readerVars, link,
                 awaiting, inbound, calls>>

BeginUnlockCallbacks(p) ==
  /\ pc[p] = "resub"
  /\ todo[fresh[p]] = {}
  /\ cbLock' = None
  /\ pc' = [pc EXCEPT ![p] = "install"]
  /\ UNCHANGED <<write, writeLock, callbacks, started, startedLock,
                 connectionTx, topic, fresh, loopVars, todo, deferred,
                 readerVars, hubVars, calls>>

\* The end of begin(), reached with a connection or without one.
\* Mutant: a failed first dial does not count as started.
StartedIfConnected(p) ==
  /\ loop' = IF Reconnect THEN [loop EXCEPT ![p] = "sleep"] ELSE loop
  /\ started' = (pc[p] = "install")
  /\ startedLock' = None
  /\ pc' = [pc EXCEPT ![p] = "idle"]

Return(p) ==
  /\ loop' = IF Reconnect THEN [loop EXCEPT ![p] = "sleep"] ELSE loop
  /\ started' = TRUE
  /\ startedLock' = None
  /\ pc' = [pc EXCEPT ![p] = "idle"]

BeginInstall(p) ==
  /\ pc[p] = "install"
  /\ writeLock = None
  /\ Install(fresh[p], "begin")
  /\ fresh' = [fresh EXCEPT ![p] = None]
  /\ Return(p)
  /\ UNCHANGED <<writeLock, callbacks, cbLock, topic, loopFresh, todo, deferred,
                 snapshot, hubVars, calls>>

BeginDialFails(p) ==
  /\ pc[p] = "dial"
  /\ Return(p)
  /\ UNCHANGED <<write, writeLock, callbacks, cbLock, connectionTx, topic, fresh,
                 loopFresh, todo, deferred, readerVars, hubVars, calls>>

(***************************************************************************)
(* wait_until_connected(), under the timeout its only caller sets.  The    *)
(* timeout polls the wait first, so it fires only if there is no signal.   *)
(***************************************************************************)
WaitUntilConnected(p) ==
  /\ Call(p)
  /\ pc' = [pc EXCEPT ![p] = "await"]
  /\ UNCHANGED <<clientVars, topic, fresh, loopVars, todo, deferred, readerVars,
                 hubVars>>

EndWait(p) ==
  /\ pc[p] = "await"
  /\ pc' = [pc EXCEPT ![p] = "idle"]
  /\ UNCHANGED <<clientVars, topic, fresh, loopVars, todo, deferred, readerVars,
                 hubVars, calls>>

WaitReturns(p)  == connectionTx /\ EndWait(p)
WaitTimesOut(p) == ~connectionTx /\ EndWait(p)

(***************************************************************************)
(* subscribe(), its deferred task, unsubscribe() and publish().            *)
(***************************************************************************)
Subscribe(p, t) ==
  /\ Call(p)
  /\ t \in Owns[p]
  /\ cbLock = None
  /\ callbacks' = callbacks \cup {t}
  /\ topic' = [topic EXCEPT ![p] = t]
  /\ pc' = [pc EXCEPT ![p] = "subscribe"]
  /\ UNCHANGED <<write, writeLock, cbLock, started, startedLock, connectionTx,
                 fresh, loopVars, todo, deferred, readerVars, hubVars>>

\* Mutant: subscribe() without a writer counts on the resubscription alone.
NoDefer(t) == UNCHANGED deferred

Defer(t) == deferred' = [deferred EXCEPT ![t] = @ + 1]

SubscribeSend(p) ==
  /\ pc[p] = "subscribe"
  /\ writeLock = None
  /\ \/ /\ write # None
        /\ SendSubscribe(write, topic[p])
        /\ UNCHANGED deferred
     \/ /\ write = None
        /\ Defer(topic[p])
        /\ UNCHANGED hubTopics
  /\ pc' = [pc EXCEPT ![p] = "idle"]
  /\ topic' = [topic EXCEPT ![p] = None]
  /\ UNCHANGED <<clientVars, fresh, loopVars, todo, readerVars, link, awaiting,
                 inbound, calls>>

\* Mutant: a deferred task may send again.
SignalledTwice(t) == connectionTx

\* A deferred subscribe task runs once, when the signal has been given.  It does
\* not look at the callbacks, and gives up if the writer is gone again.
Signalled(t) == deferred[t] > 0 /\ connectionTx

DeferredSend(t) ==
  /\ Signalled(t)
  /\ writeLock = None
  /\ IF write # None THEN SendSubscribe(write, t) ELSE UNCHANGED hubTopics
  /\ deferred' = [deferred EXCEPT ![t] = @ - 1]
  /\ UNCHANGED <<clientVars, callerVars, loopVars, todo, readerVars, link,
                 awaiting, inbound, calls>>

Unsubscribe(p, t) ==
  /\ Call(p)
  /\ t \in Owns[p]
  /\ cbLock = None
  /\ callbacks' = callbacks \ {t}
  /\ topic' = [topic EXCEPT ![p] = t]
  /\ pc' = [pc EXCEPT ![p] = "unsubscribe"]
  /\ UNCHANGED <<write, writeLock, cbLock, started, startedLock, connectionTx,
                 fresh, loopVars, todo, deferred, readerVars, hubVars>>

UnsubscribeSend(p) ==
  /\ pc[p] = "unsubscribe"
  /\ writeLock = None
  /\ IF write # None THEN SendUnsubscribe(write, topic[p])
                     ELSE UNCHANGED hubTopics
  /\ pc' = [pc EXCEPT ![p] = "idle"]
  /\ topic' = [topic EXCEPT ![p] = None]
  /\ UNCHANGED <<clientVars, fresh, loopVars, todo, deferred, readerVars, link,
                 awaiting, inbound, calls>>

\* The hub routes a message to the connections that hold its topic.
Routed(c, t) ==
  IF Up(c) /\ t \in hubTopics[c]
  THEN /\ Len(inbound[c]) < MaxInbound
       /\ inbound' = [inbound EXCEPT ![c] = Append(@, t)]
  ELSE UNCHANGED inbound

\* publish() and ping() fail without a writer; neither changes the client.
Publish(p, t) ==
  /\ Call(p)
  /\ writeLock = None
  /\ IF write # None THEN Routed(write, t) ELSE UNCHANGED inbound
  /\ UNCHANGED <<clientVars, callerVars, loopVars, todo, deferred, readerVars,
                 link, hubTopics, awaiting>>

(***************************************************************************)
(* The reconnect task.  Each turn holds the write mutex from the check of  *)
(* the writer to the end, the dial included.                               *)
(***************************************************************************)
LoopLock(p) ==
  /\ loop[p] = "sleep"
  /\ writeLock = None
  /\ writeLock' = LoopTask(p)
  /\ loop' = [loop EXCEPT ![p] = "check"]
  /\ UNCHANGED <<write, callbacks, cbLock, started, startedLock, connectionTx,
                 callerVars, loopFresh, todo, deferred, readerVars, hubVars,
                 calls>>

\* The end of a turn.
\* Mutant: a turn keeps the write mutex.
LoopSleepLocked(p) ==
  /\ UNCHANGED writeLock
  /\ loop' = [loop EXCEPT ![p] = "sleep"]

LoopSleep(p) ==
  /\ writeLock' = None
  /\ loop' = [loop EXCEPT ![p] = "sleep"]

\* Mutant: the result of the Ping is inverted.
PingFailsWhenAlive == link[write] # "dead"

\* Mutant: the result of the Ping is ignored.
PingIgnored == FALSE

\* A Ping is written; it fails only on a connection known to be dead.
PingFails == link[write] = "dead"

LoopPing(p) ==
  /\ loop[p] = "check"
  /\ write # None
  /\ write' = IF PingFails THEN None ELSE write
  /\ LoopSleep(p)
  /\ UNCHANGED <<callbacks, cbLock, started, startedLock, connectionTx,
                 callerVars, loopFresh, todo, deferred, readerVars, hubVars,
                 calls>>

LoopDialFails(p) ==
  /\ loop[p] = "check"
  /\ write = None
  /\ LoopSleep(p)
  /\ UNCHANGED <<write, callbacks, cbLock, started, startedLock, connectionTx,
                 callerVars, loopFresh, todo, deferred, readerVars, hubVars,
                 calls>>

LoopDial(p) ==
  /\ loop[p] = "check"
  /\ write = None
  /\ \E c \in Conns :
       /\ Open(c)
       /\ loopFresh' = [loopFresh EXCEPT ![p] = c]
  /\ loop' = [loop EXCEPT ![p] = "dialed"]
  /\ UNCHANGED <<clientVars, callerVars, todo, deferred, readerVars, hubTopics,
                 awaiting, inbound, calls>>

LoopLockCallbacks(p) ==
  /\ loop[p] = "dialed"
  /\ cbLock = None
  /\ cbLock' = LoopTask(p)
  /\ todo' = [todo EXCEPT ![loopFresh[p]] = callbacks]
  /\ loop' = [loop EXCEPT ![p] = "resub"]
  /\ UNCHANGED <<write, writeLock, callbacks, started, startedLock,
                 connectionTx, callerVars, loopFresh, deferred, readerVars,
                 hubVars, calls>>

LoopResubscribe(p) ==
  /\ loop[p] = "resub"
  /\ \E t \in todo[loopFresh[p]] :
       /\ SendSubscribe(loopFresh[p], t)
       /\ todo' = [todo EXCEPT ![loopFresh[p]] = @ \ {t}]
  /\ UNCHANGED <<clientVars, callerVars, loopVars, deferred, readerVars, link,
                 awaiting, inbound, calls>>

\* No await lies between the release of the callbacks mutex and the end of the
\* turn, and the write mutex is held throughout.
LoopInstall(p) ==
  /\ loop[p] = "resub"
  /\ todo[loopFresh[p]] = {}
  /\ cbLock' = None
  /\ Install(loopFresh[p], "reconnect")
  /\ loopFresh' = [loopFresh EXCEPT ![p] = None]
  /\ LoopSleep(p)
  /\ UNCHANGED <<callbacks, started, startedLock, callerVars, todo, deferred,
                 snapshot, hubVars, calls>>

(***************************************************************************)
(* Reader tasks.  The reader begin() spawns answers a heartbeat; the one   *)
(* the reconnect task spawns drops every frame that is not a PUBLISH.      *)
(***************************************************************************)
NextFrameIs(c, F) ==
  /\ reader[c] = "recv"
  /\ inbound[c] # <<>>
  /\ Head(inbound[c]) \in F
  /\ inbound' = [inbound EXCEPT ![c] = Tail(@)]

\* The callback, if there is one, runs in a task of its own.
ReadPublish(c) ==
  /\ NextFrameIs(c, Topics)
  /\ cbLock = None
  /\ UNCHANGED <<clientVars, callerVars, loopVars, todo, deferred, readerVars,
                 link, hubTopics, awaiting, calls>>

\* Mutant: begin()'s reader drops heartbeats as well.
AnswersNothing(c) == FALSE

Answers(c) == kind[c] = "begin"

ReadHeartbeat(c) ==
  /\ NextFrameIs(c, {Heartbeat})
  /\ reader' = IF Answers(c) THEN [reader EXCEPT ![c] = "beat"] ELSE reader
  /\ UNCHANGED <<clientVars, callerVars, loopVars, todo, deferred, kind,
                 snapshot, link, hubTopics, awaiting, calls>>

\* Mutant: send_heartbeat reads the topics before it has the write mutex.
SnapshotUnlocked(c) == UNCHANGED writeLock

LockForReply(c) == writeLock = None /\ writeLock' = ReaderTask(c)

HeartbeatLock(c) ==
  /\ reader[c] = "beat"
  /\ LockForReply(c)
  /\ reader' = [reader EXCEPT ![c] = "snapshot"]
  /\ UNCHANGED <<write, callbacks, cbLock, started, startedLock, connectionTx,
                 callerVars, loopVars, todo, deferred, kind, snapshot, hubVars,
                 calls>>

HeartbeatSnapshot(c) ==
  /\ reader[c] = "snapshot"
  /\ cbLock = None
  /\ snapshot' = [snapshot EXCEPT ![c] = callbacks]
  /\ reader' = [reader EXCEPT ![c] = "reply"]
  /\ UNCHANGED <<clientVars, callerVars, loopVars, todo, deferred, kind,
                 hubVars, calls>>

\* The reply goes out on the current writer, whichever connection asked.
HeartbeatReply(c) ==
  /\ reader[c] = "reply"
  /\ IF write # None THEN SendHeartbeatReply(write, snapshot[c])
                     ELSE UNCHANGED <<hubTopics, awaiting>>
  /\ writeLock' = None
  /\ snapshot' = [snapshot EXCEPT ![c] = {}]
  /\ reader' = [reader EXCEPT ![c] = "recv"]
  /\ UNCHANGED <<write, callbacks, cbLock, started, startedLock, connectionTx,
                 callerVars, loopVars, todo, deferred, kind, link, inbound,
                 calls>>

\* The stream of a dead connection ends after the frames already received.
ReaderEnds(c) ==
  /\ reader[c] = "recv"
  /\ inbound[c] = <<>>
  /\ link[c] = "dead"
  /\ reader' = [reader EXCEPT ![c] = "done"]
  /\ UNCHANGED <<clientVars, callerVars, loopVars, todo, deferred, kind,
                 snapshot, hubVars, calls>>

(***************************************************************************)
(* The hub and the network, as the client needs them.                      *)
(***************************************************************************)
HubHeartbeat(c) ==
  /\ Up(c)
  /\ Len(inbound[c]) < MaxInbound
  /\ inbound' = [inbound EXCEPT ![c] = Append(@, Heartbeat)]
  /\ awaiting' = [awaiting EXCEPT ![c] = TRUE]
  /\ UNCHANGED <<clientVars, callerVars, loopVars, todo, deferred, readerVars,
                 link, hubTopics, calls>>

\* The hub goes away without the client's end noticing.  The last connection
\* of the bound never breaks, so that every behaviour ends in a quiet network.
Break(c) ==
  /\ Up(c)
  /\ \E d \in Conns : link[d] = "unused"
  /\ link' = [link EXCEPT ![c] = "broken"]
  /\ hubTopics' = [hubTopics EXCEPT ![c] = {}]
  /\ awaiting' = [awaiting EXCEPT ![c] = FALSE]
  /\ UNCHANGED <<clientVars, callerVars, loopVars, todo, deferred, readerVars,
                 inbound, calls>>

\* The client's end notices: writes fail and the stream ends.
Detect(c) ==
  /\ link[c] = "broken"
  /\ link' = [link EXCEPT ![c] = "dead"]
  /\ UNCHANGED <<clientVars, callerVars, loopVars, todo, deferred, readerVars,
                 hubTopics, awaiting, inbound, calls>>

(***************************************************************************)
(* The system.                                                             *)
(***************************************************************************)
BeginStep(p) ==
  \/ BeginDial(p) \/ BeginDialFails(p) \/ BeginLockCallbacks(p)
  \/ BeginResubscribe(p) \/ BeginUnlockCallbacks(p) \/ BeginInstall(p)

CallerStep(p) ==
  \/ BeginAgain(p) \/ Begin(p) \/ BeginStep(p)
  \/ \E t \in Topics : Subscribe(p, t) \/ Unsubscribe(p, t) \/ Publish(p, t)
  \/ SubscribeSend(p) \/ UnsubscribeSend(p)
  \/ WaitUntilConnected(p) \/ WaitReturns(p) \/ WaitTimesOut(p)

LoopStep(p) ==
  \/ LoopLock(p) \/ LoopPing(p) \/ LoopDialFails(p) \/ LoopDial(p)
  \/ LoopLockCallbacks(p) \/ LoopResubscribe(p) \/ LoopInstall(p)

ReaderStep(c) ==
  \/ ReadPublish(c) \/ ReadHeartbeat(c) \/ HeartbeatLock(c)
  \/ HeartbeatSnapshot(c) \/ HeartbeatReply(c) \/ ReaderEnds(c)

NetworkStep(c) == HubHeartbeat(c) \/ Break(c) \/ Detect(c)

Next ==
  \/ \E p \in Callers : CallerStep(p) \/ LoopStep(p)
  \/ \E c \in Conns : ReaderStep(c) \/ NetworkStep(c)
  \/ \E t \in Topics : DeferredSend(t)

Spec == Init /\ [][Next]_vars

(***************************************************************************)
(* Fairness.  tokio runs every task that is ready, and its mutex is FIFO,  *)
(* so a task gets the mutex it waits for although others take it in turn:  *)
(* SF for each task's own steps, one at a time.  The network ends by       *)
(* letting a dial succeed and by reporting a broken connection.            *)
(* Nothing makes an application call a method.                             *)
(***************************************************************************)
InCall(p) ==
  \/ BeginStep(p) \/ SubscribeSend(p) \/ UnsubscribeSend(p)
  \/ WaitReturns(p) \/ WaitTimesOut(p)

FairSpec ==
  /\ Spec
  /\ \A p \in Callers :
       SF_vars(InCall(p)) /\ SF_vars(LoopStep(p)) /\ SF_vars(LoopDial(p))
  /\ \A c \in Conns : SF_vars(ReaderStep(c)) /\ WF_vars(Detect(c))
  /\ \A t \in Topics : SF_vars(DeferredSend(t))

(***************************************************************************)
(* Properties.                                                             *)
(***************************************************************************)

\* Each mutex is held by a task that is inside the section of code it guards,
\* and by no other: a reply to a heartbeat and a turn of the reconnect task
\* never write on the sink at the same time, no callback is inserted or removed
\* while the topics are being resubscribed, and no mutex is kept on any path out.
MutexDiscipline ==
  /\ \A p \in Callers :
       /\ writeLock = LoopTask(p) <=> loop[p] \in {"check", "dialed", "resub"}
       /\ cbLock = LoopTask(p) <=> loop[p] = "resub"
       /\ cbLock = BeginTask(p) <=> pc[p] = "resub"
       /\ startedLock = p <=> pc[p] \in BeginSteps
  /\ \A c \in Conns :
       writeLock = ReaderTask(c) <=> reader[c] \in {"snapshot", "reply"}

\* "Ensures we only start the connection/reconnect task once" (autobahn.rs:55):
\* however many callers run begin(), at most one task dials, and while begin()
\* dials there is neither a writer nor a reconnect task.
OneConnector ==
  /\ \A p, q \in Callers :
       (pc[p] \in BeginSteps \/ loop[p] # "off") /\
       (pc[q] \in BeginSteps \/ loop[q] # "off") => p = q
  /\ \A p \in Callers :
       pc[p] \in BeginSteps => write = None /\ loop[p] = "off"

\* A connection the hub may still hold open is either the one the client writes
\* on or the one being set up: reconnecting never drops a sink that works.
NoOrphanConnection ==
  \A c \in Conns :
    link[c] \in {"open", "broken"} =>
      c = write \/ \E p \in Callers : c \in {fresh[p], loopFresh[p]}

\* While the writer's connection is up, every topic with a callback is one the
\* hub holds for that connection, or a SUBSCRIBE for it is on its way: in a
\* subscribe() that has stored its callback, or in a deferred task that has been
\* signalled.  It is what "rely on auto-resubscribe on connect" (autobahn.rs:345)
\* promises, over every order of subscribe, begin, loss and reconnection.
SubscribedWhenConnected ==
  \A c \in Conns, t \in Topics :
    write = c /\ Up(c) /\ t \in callbacks =>
      \/ t \in hubTopics[c]
      \/ \E p \in Callers : pc[p] = "subscribe" /\ topic[p] = t
      \/ deferred[t] > 0 /\ connectionTx

\* Only a deferred subscribe task can give the hub back a topic whose callback
\* is gone: a heartbeat reply or a resubscription that names such a topic is
\* always followed by the UNSUBSCRIBE of the call that removed the callback.
\* It rests on send_heartbeat taking the write mutex before it reads the topics.
OnlyDeferredResurrects ==
  [][\A c \in Conns, t \in Topics :
       t \in hubTopics'[c] \ hubTopics[c] /\ deferred' = deferred =>
         \/ t \in callbacks
         \/ \E p \in Callers : pc[p] = "unsubscribe" /\ topic[p] = t]_vars

\* A heartbeat of the hub on a connection that stays up is answered, so that the
\* hub learns the topics again (the test at autobahn.rs:510).
Answered(c) == awaiting[c] ~> ~awaiting[c] \/ ~Up(c)

HeartbeatAnswered == \A c \in Conns : Answered(c)

\* The connection that begin() opened does answer.
BeginHeartbeatAnswered ==
  \A c \in Conns : (awaiting[c] /\ kind[c] = "begin") ~> (~awaiting[c] \/ ~Up(c))

\* Once the network is quiet, a client that was started with reconnect is
\* connected for good, and the hub holds every topic that has a callback.
InSync == write # None /\ Up(write) /\ callbacks \subseteq hubTopics[write]

EventuallyInSync == <>started => <>[]InSync

\* Every method call returns, whatever the network does, as long as each dial ends
\* (connect_async has no timeout of its own, autobahn.rs:88 and 199): no failed dial,
\* lost frame or dead connection leaves a caller waiting for a mutex.
CallsReturn == \A p \in Callers : pc[p] # "idle" ~> pc[p] = "idle"

(***************************************************************************)
(* The client as a LazySession, for topics of one caller each.             *)
(***************************************************************************)
InUse == write # None /\ Up(write)

\* The topics of calls that have changed the callbacks and not told the hub.
Telling == {p \in Callers : pc[p] \in {"subscribe", "unsubscribe"}}
ToTell  == {topic[p] : p \in Telling}

\* The connections being set up, of which there is at most one.
Connecting == {c \in Conns : \E p \in Callers : c \in {fresh[p], loopFresh[p]}}
Coming     == UNION {hubTopics[c] : c \in Connecting}

Held == IF InUse THEN hubTopics[write] ELSE {}

L == INSTANCE LazySession WITH
       wanted <- callbacks, telling <- ToTell, late <- deferred,
       coming <- Coming, held <- Held, up <- InUse

\* What the hub holds for the connection in use is what the application asked
\* for, call by call, through every loss, reconnection, deferred SUBSCRIBE and
\* heartbeat reply: it changes by these alone, and no reconnection forgets a topic.
ImplementsLazySession == L!Spec
=============================================================================
