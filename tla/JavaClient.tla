----------------------------- MODULE JavaClient -----------------------------
(***************************************************************************)
(* The Java client (src/main/java/autobahn/client/AutobahnClient.java).    *)
(*                                                                         *)
(* Four kinds of thread share its fields without a lock: the application,  *)
(* the one thread of reconnectExecutor, the tasks of the common pool (the  *)
(* bodies of begin, subscribe and unsubscribe) and, for each socket, the   *)
(* thread that calls onOpen, onMessage, onError and onClose.  One access   *)
(* to a field, or one operation on the callbacks, is a step.               *)
(* Definitions marked "Mutant" are plausible bugs, no part of the          *)
(* specification.                                                          *)
(***************************************************************************)
EXTENDS Naturals, FiniteSets, FiniteSetsExt

CONSTANTS
  Topics,        \* topic names; the application has one callback for each
  Socks,         \* sockets: one that is closed and forgotten is made again (a bound)
  None,          \* no socket, no topic
  Throws,        \* a callback of the application may throw
  Unsubscribes,  \* the application may unsubscribe
  MaxCalls,      \* calls of subscribe and unsubscribe (a bound)
  MaxLosses,     \* sockets lost, dials failed, callbacks that throw (a bound)
  MaxAttempts,   \* tryReconnect tasks scheduled at a time (a bound)
  MaxCopies      \* length of a list of callbacks, pool tasks of one kind (a bound)

ASSUME FlagsAssumption  == {Throws, Unsubscribes} \subseteq BOOLEAN
ASSUME BoundsAssumption ==
  {MaxCalls, MaxLosses, MaxCopies} \subseteq Nat /\ MaxAttempts \in Nat \ {0}
ASSUME NoneAssumption   == None \notin Socks \cup Topics

VARIABLES
  websocket,      \* this.websocket
  isReconnecting, \* this.isReconnecting
  keys,           \* this.callbacks: its keys
  copies,         \* this.callbacks: the length of each topic's list
  scheduled,      \* tryReconnect tasks in reconnectExecutor, before their delay is over
  due,            \* and after
  clearing,       \* tryReconnect has found the socket alive, and goes on
  state,          \* the ready state of each socket
  passed,         \* sockets whose thread is past the test of scheduleReconnect
  task,           \* the begin() that makes each socket, with what follows it
  own,            \* the socket of the application's begin(), until that is over
  loop,           \* callbacks.forEach of such a task
  pool,           \* the tasks of subscribe and unsubscribe, by what is next
  wanted,         \* topics the application has subscribed and not unsubscribed
  begun, calls, losses,
  hubTopics       \* the topics the hub holds for each socket

reconnection == <<isReconnecting, scheduled, due, clearing, passed>>
tasks        == <<task, own, loop>>
map          == <<keys, copies>>
app          == <<wanted, begun, calls>>
vars == <<websocket, map, reconnection, state, tasks, pool, app, losses, hubTopics>>

\* "new": NOT_YET_CONNECTED before connect(); "failing": onError has been called
\* for the dial and onClose has not.
States == {"new", "dialing", "failing", "open", "closed"}
Tasks  == {"none", "spawned", "assigned", "waiting", "finished", "cleared",
           "looping", "failed", "passed"}

\* What is next: add to the list, then send SUBSCRIBE; remove the list, then send
\* UNSUBSCRIBE; remove one callback from the list.
Ops == {"add", "subscribe", "remove", "unsubscribe", "removeOne"}

Loops == [todo: SUBSET Topics, topic: Topics \cup {None}, left: 0..MaxCopies,
          listChanged: BOOLEAN, keysChanged: BOOLEAN]

TypeOK ==
  /\ websocket \in Socks \cup {None}
  /\ isReconnecting \in BOOLEAN
  /\ keys \in SUBSET Topics
  /\ copies \in [Topics -> 0..MaxCopies]
  /\ scheduled \in Nat /\ due \in Nat
  /\ clearing \in BOOLEAN
  /\ state \in [Socks -> States]
  /\ passed \in SUBSET Socks
  /\ task \in [Socks -> Tasks]
  /\ own \in Socks \cup {None}
  /\ loop \in [Socks -> Loops]
  /\ pool \in [Ops -> [Topics -> 0..MaxCopies]]
  /\ wanted \in SUBSET Topics
  /\ begun \in BOOLEAN
  /\ calls \in 0..MaxCalls
  /\ losses \in 0..MaxLosses
  /\ hubTopics \in [Socks -> SUBSET Topics]

LoopOver(ks) == [todo |-> ks, topic |-> None, left |-> 0,
                 listChanged |-> FALSE, keysChanged |-> FALSE]
NoLoop == LoopOver({})

Init ==
  /\ websocket = None /\ isReconnecting = FALSE
  /\ keys = {} /\ copies = [t \in Topics |-> 0]
  /\ scheduled = 0 /\ due = 0 /\ clearing = FALSE /\ passed = {}
  /\ state = [s \in Socks |-> "closed"]
  /\ task = [s \in Socks |-> "none"] /\ own = None
  /\ loop = [s \in Socks |-> NoLoop]
  /\ pool = [o \in Ops |-> [t \in Topics |-> 0]]
  /\ wanted = {} /\ begun = FALSE /\ calls = 0 /\ losses = 0
  /\ hubTopics = [s \in Socks |-> {}]

\* websocket == null || websocket.isClosed()
WsClosed == websocket \notin {s \in Socks : state[s] # "closed"}
WsOpen   == websocket \in {s \in Socks : state[s] = "open"}

\* Nothing refers to the socket: it can stand for a new one, as any other such.
Fresh(s) ==
  /\ state[s] = "closed" /\ task[s] = "none"
  /\ websocket # s /\ s \notin passed
NewSocket == CHOOSE s \in Socks : Fresh(s)

\* The pool after a task has gone on to op and another has begun with next.
Capped(n) == Min({n, MaxCopies})
Joined(tasksNow, next, t) == [tasksNow EXCEPT ![next][t] = Capped(@ + 1)]
Spawn(next, t)       == Joined(pool, next, t)
Finish(op, t)        == [pool EXCEPT ![op][t] = @ - 1]
Advance(op, next, t) == Joined(Finish(op, t), next, t)

(***************************************************************************)
(* scheduleReconnect: the test of isReconnecting, and what is past it.     *)
(***************************************************************************)
\* A thread of the library calls one handler of its socket at a time; the threads of
\* two sockets may both find the flag clear.
TestBySocket(s) ==
  /\ s \notin passed
  /\ passed' = IF isReconnecting THEN passed ELSE passed \cup {s}

Schedule ==
  /\ isReconnecting' = TRUE
  /\ scheduled' = IF scheduled < MaxAttempts THEN scheduled + 1 ELSE scheduled

SocketSchedules(s) ==
  /\ s \in passed
  /\ passed' = passed \ {s}
  /\ Schedule
  /\ UNCHANGED <<websocket, map, due, clearing, state, tasks, pool, app, losses, hubTopics>>

TaskTests(s) ==
  /\ task[s] = "failed"
  /\ task' = [task EXCEPT ![s] = IF isReconnecting THEN "none" ELSE "passed"]
  /\ UNCHANGED <<websocket, map, reconnection, state, own, loop, pool, app, losses,
                 hubTopics>>

TaskSchedules(s) ==
  /\ task[s] = "passed"
  /\ task' = [task EXCEPT ![s] = "none"]
  /\ Schedule
  /\ UNCHANGED <<websocket, map, due, clearing, passed, state, own, loop, pool, app, losses,
                 hubTopics>>

(***************************************************************************)
(* tryReconnect.                                                           *)
(***************************************************************************)
\* What a thread does at once when it can.
InTheMiddle ==
  \/ passed # {} \/ clearing \/ due > 0
  \/ \E s \in Socks : state[s] \in {"new", "failing"} \/ task[s] \notin {"none", "waiting"}
  \/ \E o \in Ops, t \in Topics : pool[o][t] > 0

\* RECONNECT_DELAY is over for the tasks scheduled so far.  It is long: whatever
\* runs when a task is scheduled, but a dial or its wait, is over by then.
DelayEnds ==
  /\ scheduled > 0
  /\ ~InTheMiddle
  /\ due' = due + scheduled
  /\ scheduled' = 0
  /\ UNCHANGED <<websocket, map, isReconnecting, clearing, passed, state, tasks, pool, app,
                 losses, hubTopics>>

\* begin(): the body is a task of the common pool, which makes a socket.
BeginSpawned ==
  /\ \E s \in Socks : Fresh(s)
  /\ task' = [task EXCEPT ![NewSocket] = "spawned"]

TryReconnect ==
  /\ due > 0
  /\ ~clearing
  /\ due' = due - 1
  /\ IF WsClosed
     THEN BeginSpawned /\ UNCHANGED clearing
     ELSE clearing' = TRUE /\ UNCHANGED task
  /\ UNCHANGED <<websocket, map, isReconnecting, scheduled, passed, state, own, loop, pool,
                 app, losses, hubTopics>>

\* Mutant: the early return of tryReconnect forgets the flag.
TryClearsNot ==
  /\ clearing
  /\ clearing' = FALSE
  /\ UNCHANGED <<websocket, map, isReconnecting, scheduled, due, passed, state, tasks, pool, app,
                 losses, hubTopics>>

TryClears ==
  /\ clearing
  /\ clearing' = FALSE
  /\ isReconnecting' = FALSE
  /\ UNCHANGED <<websocket, map, scheduled, due, passed, state, tasks, pool, app, losses,
                 hubTopics>>

(***************************************************************************)
(* begin: the body of its task.                                            *)
(***************************************************************************)
\* An application that has begun does not begin again.
Begin ==
  /\ ~begun
  /\ begun' = TRUE
  /\ BeginSpawned
  /\ own' = NewSocket
  /\ UNCHANGED <<websocket, map, reconnection, state, loop, pool, wanted, calls, losses,
                 hubTopics>>

BeginAssigns(s) ==
  /\ task[s] = "spawned"
  /\ task' = [task EXCEPT ![s] = "assigned"]
  /\ websocket' = s
  /\ state' = [state EXCEPT ![s] = "new"]
  /\ UNCHANGED <<map, reconnection, own, loop, pool, app, losses, hubTopics>>

\* The future of the application's begin() is its own; a failed one of
\* tryReconnect goes to exceptionally.
Failure(s) == IF s = own THEN "none" ELSE "failed"
Over(s)    == own' = IF s = own THEN None ELSE own

\* websocket.connect(): the field may hold another task's socket by now.  A
\* socket connects once; one that nothing refers to any more is as good as closed.
BeginConnects(s) ==
  /\ task[s] = "assigned"
  /\ state' = [w \in Socks |->
                 IF w = websocket /\ state[w] = "new" THEN "dialing"
                 ELSE IF w = s /\ w # websocket THEN "closed"
                 ELSE state[w]]
  /\ IF state[websocket] = "new"
     THEN task' = [task EXCEPT ![s] = "waiting"] /\ UNCHANGED own
     ELSE task' = [task EXCEPT ![s] = Failure(s)] /\ Over(s)
  /\ UNCHANGED <<websocket, map, reconnection, loop, pool, app, losses, hubTopics>>

\* The wait ends when the socket opens or after 500 ms, whichever is first, and
\* the future completes normally.
BeginWaited(s) ==
  /\ task[s] = "waiting"
  /\ task' = [task EXCEPT ![s] = IF s = own THEN "none" ELSE "finished"]
  /\ Over(s)
  /\ UNCHANGED <<websocket, map, reconnection, state, loop, pool, app, losses, hubTopics>>

(***************************************************************************)
(* tryReconnect: thenRun.                                                  *)
(***************************************************************************)
\* Mutant: a reconnection that came through leaves the flag set.
RetryClearsNot(s) ==
  /\ task[s] = "finished"
  /\ task' = [task EXCEPT ![s] = "cleared"]
  /\ UNCHANGED <<websocket, map, reconnection, state, own, loop, pool, app, losses,
                 hubTopics>>

RetryClears(s) ==
  /\ task[s] = "finished"
  /\ task' = [task EXCEPT ![s] = "cleared"]
  /\ isReconnecting' = FALSE
  /\ UNCHANGED <<websocket, map, scheduled, due, clearing, passed, state, own, loop, pool,
                 app, losses, hubTopics>>

LoopStarts(s) ==
  /\ task[s] = "cleared"
  /\ task' = [task EXCEPT ![s] = "looping"]
  /\ loop' = [loop EXCEPT ![s] = LoopOver(keys)]
  /\ UNCHANGED <<websocket, map, reconnection, state, own, pool, app, losses, hubTopics>>

\* The inner forEach has gone through its list and found it unchanged.
ListDone(s) == loop[s].left = 0 /\ ~loop[s].listChanged

LoopTopic(s) ==
  /\ task[s] = "looping"
  /\ ListDone(s)
  /\ \E t \in loop[s].todo \cap keys :
       loop' = [loop EXCEPT ![s] = [todo |-> @.todo \ {t}, topic |-> t, left |-> copies[t],
                                    listChanged |-> FALSE, keysChanged |-> @.keysChanged]]
  /\ UNCHANGED <<websocket, map, reconnection, state, task, own, pool, app, losses,
                 hubTopics>>

\* subscribe(topic, callback), which adds the callback to its list once more.
LoopSubscribes(s) ==
  /\ task[s] = "looping"
  /\ loop[s].left > 0
  /\ ~loop[s].listChanged
  /\ ~WsClosed
  /\ pool' = Spawn("add", loop[s].topic)
  /\ loop' = [loop EXCEPT ![s] = [todo |-> @.todo, topic |-> @.topic, left |-> @.left - 1,
                                  listChanged |-> FALSE, keysChanged |-> @.keysChanged]]
  /\ UNCHANGED <<websocket, map, reconnection, state, task, own, app, losses, hubTopics>>

\* ConcurrentModificationException, or subscribe() without a socket.
LoopRaises(s) ==
  /\ task[s] = "looping"
  /\ \/ loop[s].listChanged
     \/ loop[s].left > 0 /\ WsClosed
     \/ ListDone(s) /\ loop[s].todo \cap keys = {} /\ loop[s].keysChanged
  /\ task' = [task EXCEPT ![s] = "failed"]
  /\ loop' = [loop EXCEPT ![s] = NoLoop]
  /\ UNCHANGED <<websocket, map, reconnection, state, own, pool, app, losses, hubTopics>>

LoopEnds(s) ==
  /\ task[s] = "looping"
  /\ ListDone(s) /\ loop[s].todo \cap keys = {} /\ ~loop[s].keysChanged
  /\ task' = [task EXCEPT ![s] = "none"]
  /\ loop' = [loop EXCEPT ![s] = NoLoop]
  /\ UNCHANGED <<websocket, map, reconnection, state, own, pool, app, losses, hubTopics>>

(***************************************************************************)
(* The thread of socket s.                                                 *)
(***************************************************************************)
OnOpen(s) ==
  /\ state[s] = "dialing"
  /\ state' = [state EXCEPT ![s] = "open"]
  /\ UNCHANGED <<websocket, map, reconnection, tasks, pool, app, losses, hubTopics>>

\* A failed dial: onError while the socket is not closed yet, then onClose.
OnError(s) ==
  /\ state[s] = "dialing"
  /\ losses < MaxLosses /\ losses' = losses + 1
  /\ state' = [state EXCEPT ![s] = "failing"]
  /\ TestBySocket(s)
  /\ UNCHANGED <<websocket, map, isReconnecting, scheduled, due, clearing, tasks, pool, app,
                 hubTopics>>

OnClose(s) ==
  /\ \/ state[s] = "failing" /\ UNCHANGED losses
     \/ state[s] = "open" /\ losses < MaxLosses /\ losses' = losses + 1
  /\ state' = [state EXCEPT ![s] = "closed"]
  /\ hubTopics' = [hubTopics EXCEPT ![s] = {}]
  /\ TestBySocket(s)
  /\ UNCHANGED <<websocket, map, isReconnecting, scheduled, due, clearing, tasks, pool, app>>

\* A callback throws in onMessage: the library calls onError on the live socket.
OnMessageThrows(s) ==
  /\ Throws
  /\ state[s] = "open"
  /\ \E t \in hubTopics[s] : copies[t] > 0
  /\ losses < MaxLosses /\ losses' = losses + 1
  /\ TestBySocket(s)
  /\ UNCHANGED <<websocket, map, isReconnecting, scheduled, due, clearing, state, tasks, pool,
                 app, hubTopics>>

\* Mutant: the answer does not list the topics.
OnHeartbeatBare(s) ==
  /\ state[s] = "open"
  /\ IF WsOpen THEN s \notin passed /\ UNCHANGED passed ELSE TestBySocket(s)
  /\ UNCHANGED <<websocket, map, isReconnecting, scheduled, due, clearing, state, tasks, pool,
                 app, losses, hubTopics>>

\* The reply goes to this.websocket; when that cannot send, sendHeartbeat throws.
OnHeartbeat(s) ==
  /\ state[s] = "open"
  /\ IF WsOpen
     THEN /\ s \notin passed
          /\ hubTopics' = [hubTopics EXCEPT ![websocket] = @ \cup keys]
          /\ UNCHANGED passed
     ELSE TestBySocket(s) /\ UNCHANGED hubTopics
  /\ UNCHANGED <<websocket, map, isReconnecting, scheduled, due, clearing, state, tasks, pool,
                 app, losses>>

(***************************************************************************)
(* subscribe and unsubscribe: the call, which throws without a socket, and *)
(* the body of its task.                                                   *)
(***************************************************************************)
Call(op, t) ==
  /\ calls < MaxCalls
  /\ calls' = calls + 1
  /\ ~WsClosed
  /\ pool' = Spawn(op, t)
  /\ UNCHANGED <<websocket, map, reconnection, state, tasks, begun, losses, hubTopics>>

\* The application subscribes its callback for t once.
Subscribe(t) ==
  /\ t \notin wanted
  /\ wanted' = wanted \cup {t}
  /\ Call("add", t)

\* unsubscribe(topic) and unsubscribe(topic, callback).
Unsubscribe(t) ==
  /\ Unsubscribes
  /\ t \in wanted
  /\ wanted' = wanted \ {t}
  /\ Call("remove", t) \/ Call("removeOne", t)

\* A running forEach sees that t's list, or the set of keys, has changed.
Notice(t, list, key) ==
  loop' = [s \in Socks |->
             LET l == loop[s]  on == task[s] = "looping"
             IN  [todo |-> l.todo, topic |-> l.topic, left |-> l.left,
                  listChanged |-> l.listChanged \/ (list /\ on /\ l.topic = t),
                  keysChanged |-> l.keysChanged \/ (key /\ on)]]

Add(t) ==
  /\ pool["add"][t] > 0
  /\ pool' = Advance("add", "subscribe", t)
  /\ keys' = keys \cup {t}
  /\ copies' = [copies EXCEPT ![t] = Capped(@ + 1)]
  /\ Notice(t, t \in keys, t \notin keys)
  /\ UNCHANGED <<websocket, reconnection, state, task, own, app, losses, hubTopics>>

SendSubscribe(t) ==
  /\ pool["subscribe"][t] > 0
  /\ pool' = Finish("subscribe", t)
  /\ hubTopics' = IF WsOpen THEN [hubTopics EXCEPT ![websocket] = @ \cup {t}] ELSE hubTopics
  /\ UNCHANGED <<websocket, map, reconnection, state, tasks, app, losses>>

Remove(t) ==
  /\ pool["remove"][t] > 0
  /\ pool' = Advance("remove", "unsubscribe", t)
  /\ keys' = keys \ {t}
  /\ copies' = [copies EXCEPT ![t] = 0]
  /\ Notice(t, FALSE, t \in keys)
  /\ UNCHANGED <<websocket, reconnection, state, task, own, app, losses, hubTopics>>

SendUnsubscribe(t) ==
  /\ pool["unsubscribe"][t] > 0
  /\ pool' = Finish("unsubscribe", t)
  /\ hubTopics' = IF WsOpen THEN [hubTopics EXCEPT ![websocket] = @ \ {t}] ELSE hubTopics
  /\ UNCHANGED <<websocket, map, reconnection, state, tasks, app, losses>>

\* Mutant: counts down whether or not the callback was there.
RemoveOneUnchecked(t) ==
  /\ pool["removeOne"][t] > 0
  /\ copies' = [copies EXCEPT ![t] = @ - 1]
  /\ pool' = IF t \in keys /\ copies'[t] = 0 /\ ~WsClosed
             THEN Advance("removeOne", "remove", t) ELSE Finish("removeOne", t)
  /\ Notice(t, copies[t] > 0, FALSE)
  /\ UNCHANGED <<websocket, keys, reconnection, state, task, own, app, losses, hubTopics>>

\* The last callback of a topic goes with unsubscribe(topic), which throws
\* without a socket and leaves an empty list behind.
RemoveOne(t) ==
  /\ pool["removeOne"][t] > 0
  /\ copies' = [copies EXCEPT ![t] = IF @ = 0 THEN 0 ELSE @ - 1]
  /\ pool' = IF t \in keys /\ copies'[t] = 0 /\ ~WsClosed
             THEN Advance("removeOne", "remove", t) ELSE Finish("removeOne", t)
  /\ Notice(t, copies[t] > 0, FALSE)
  /\ UNCHANGED <<websocket, keys, reconnection, state, task, own, app, losses, hubTopics>>

Next ==
  \/ DelayEnds \/ TryReconnect \/ TryClears \/ Begin
  \/ \E s \in Socks :
       \/ SocketSchedules(s) \/ TaskTests(s) \/ TaskSchedules(s)
       \/ BeginAssigns(s) \/ BeginConnects(s) \/ BeginWaited(s)
       \/ RetryClears(s) \/ LoopStarts(s) \/ LoopTopic(s) \/ LoopSubscribes(s)
       \/ LoopRaises(s) \/ LoopEnds(s)
       \/ OnOpen(s) \/ OnError(s) \/ OnClose(s) \/ OnMessageThrows(s) \/ OnHeartbeat(s)
  \/ \E t \in Topics :
       \/ Subscribe(t) \/ Unsubscribe(t) \/ Add(t) \/ SendSubscribe(t)
       \/ Remove(t) \/ SendUnsubscribe(t) \/ RemoveOne(t)

Spec == Init /\ [][Next]_vars

\* The threads that need nobody else.
Running ==
  \/ DelayEnds \/ TryReconnect \/ TryClears
  \/ \E s \in Socks :
       \/ SocketSchedules(s) \/ TaskTests(s) \/ TaskSchedules(s)
       \/ BeginAssigns(s) \/ BeginConnects(s)
       \/ RetryClears(s) \/ LoopStarts(s) \/ LoopTopic(s) \/ LoopSubscribes(s)
       \/ LoopRaises(s) \/ LoopEnds(s)

\* A hub that is dialed again and again answers in the end.
Opens == \E s \in Socks : OnOpen(s) /\ websocket = s

\* Every thread that can go on does, a dial comes to an end, and the hub sends its
\* heartbeats.
FairSpec ==
  /\ Spec
  /\ WF_vars(Running)
  /\ \A s \in Socks : WF_vars(BeginWaited(s)) /\ WF_vars(OnError(s) \/ OnOpen(s))
                       /\ WF_vars(state[s] = "failing" /\ OnClose(s))
  /\ \A t \in Topics : WF_vars(Add(t) \/ SendSubscribe(t) \/ Remove(t)
                                \/ SendUnsubscribe(t) \/ RemoveOne(t))
  /\ SF_vars(Opens)
  /\ \A s \in Socks : WF_vars(OnHeartbeat(s) /\ WsOpen)

(***************************************************************************)
(* Properties.                                                             *)
(***************************************************************************)
\* While isReconnecting keeps everyone else from scheduling (68-70), there is
\* somebody who will clear it: a task of tryReconnect, or the begin() it made.
FlagHasOwner ==
  isReconnecting =>
    \/ scheduled + due > 0 \/ clearing
    \/ \E s \in Socks \ {own} : task[s] # "none"

\* However often it reconnects, the client holds the callback of the
\* application, and so calls it for a message, once.
RegisteredOnce == \A t \in Topics : copies[t] <= 1

\* And it is cleared: no order of closing sockets, attempts, raised loops and failed
\* dials leaves the client with a flag that keeps every later attempt away.
FlagIsCleared == isReconnecting ~> ~isReconnecting

\* "Schedule another attempt" (AutobahnClient.java:95): a client that has callbacks
\* does not give up reconnecting, so that it ends up with a connection once the hub
\* answers again.
KeepsTrying == <>[](keys # {}) => <>[]WsOpen

\* Once a connection lasts, the hub gets to know every topic that has callbacks:
\* the answer to a heartbeat makes up for a SUBSCRIBE that was lost.
HubCatchesUp ==
  \A t \in Topics :
    <>[](WsOpen /\ t \in keys) => <>[](WsOpen /\ t \in hubTopics[websocket])
=============================================================================
