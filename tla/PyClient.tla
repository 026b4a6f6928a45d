------------------------------ MODULE PyClient ------------------------------
(***************************************************************************)
(* The Python client (src/main/python/autobahn_client/client.py).          *)
(*                                                                         *)
(* asyncio runs one task at a time and changes task at an await that       *)
(* suspends: the dial, a send that waits for the transport, a callback,    *)
(* the sleep of the maintenance task.  A frame is on its way when its send *)
(* suspends, so a call of the application is one step; the loop that       *)
(* subscribes again after a reconnection is one step per topic.            *)
(* The hub is kept as the topics it holds for each connection.  Definitions*)
(* marked "Mutant" are plausible bugs, no part of the specification.       *)
(***************************************************************************)
EXTENDS Naturals, FiniteSets, Sequences

CONSTANTS
  Topics,          \* topic names
  Conns,           \* connections: one that is given up is dialed again (a bound)
  None,            \* no websocket
  Heartbeat,       \* a HEARTBEAT frame from the hub
  Garbled,         \* a frame that does not decode
  Reconnect,       \* the reconnect argument of the constructor
  SubscribeFirst,  \* the application may subscribe before begin() is over
  MaxCalls,        \* calls of subscribe and unsubscribe (a bound)
  MaxFaults,       \* connections lost and frames garbled (a bound)
  MaxInbound       \* frames from the hub waiting on one connection (a bound)

ASSUME FlagsAssumption  == Reconnect \in BOOLEAN /\ SubscribeFirst \in BOOLEAN
ASSUME BoundsAssumption == {MaxCalls, MaxFaults, MaxInbound} \subseteq Nat
ASSUME NoneAssumption   == None \notin Conns
ASSUME FrameAssumption  == Topics \cap {Heartbeat, Garbled} = {} /\ Heartbeat # Garbled

VARIABLES
  callbacks,  \* self.callbacks: the topics that have one
  connected,  \* self._connected
  websocket,  \* self.websocket
  listener,   \* the task _listener() started with each connection
  begin,      \* the application's begin()
  maintain,   \* the task _maintain_connection()
  unsent,     \* its loop over self.callbacks: the topics still to come
  size,       \* its loop over self.callbacks: the size it started with
  left,       \* its loop over self.callbacks: how many topics it still expects
  calls,      \* calls of subscribe and unsubscribe so far
  faults,     \* connections lost and frames garbled so far
  link,       \* each connection, as the library and the network know it
  hubTopics,  \* the topics the hub holds for each connection
  inbound     \* frames from the hub not received yet

loop == <<maintain, unsent, size, left>>
net  == <<faults, link, hubTopics, inbound>>
vars == <<callbacks, connected, websocket, listener, begin, loop, calls, net>>

\* "lost": the hub is gone and the library does not know; "closed": it knows,
\* and recv, send and ping raise ConnectionClosed (or there never was one).
Links     == {"closed", "up", "lost"}
Listeners == {"none", "recv", "callback"}
HubFrames == Topics \cup {Heartbeat, Garbled}

Init ==
  /\ callbacks = {} /\ connected = FALSE /\ websocket = None
  /\ listener = [c \in Conns |-> "none"]
  /\ begin = "idle" /\ maintain = "off" /\ unsent = {} /\ size = 0 /\ left = 0
  /\ calls = 0 /\ faults = 0
  /\ link = [c \in Conns |-> "closed"]
  /\ hubTopics = [c \in Conns |-> {}]
  /\ inbound = [c \in Conns |-> <<>>]

\* The listeners that have not ended: self.listener_task is the only one.
Alive == {c \in Conns : listener[c] \in {"recv", "callback"}}

TypeOK ==
  /\ callbacks \in SUBSET Topics
  /\ connected \in BOOLEAN
  /\ websocket \in Conns \cup {None}
  /\ listener \in [Conns -> Listeners]
  /\ begin \in {"idle", "dialing", "done"}
  /\ maintain \in {"off", "idle", "dialing", "resubscribing"}
  /\ unsent \in SUBSET Topics
  /\ size \in Nat /\ left \in Nat
  /\ calls \in 0..MaxCalls
  /\ faults \in 0..MaxFaults
  /\ link \in [Conns -> Links]
  /\ hubTopics \in [Conns -> SUBSET Topics]
  /\ inbound \in [Conns -> Seq(HubFrames)]

\* A send on the websocket raises ConnectionClosed.
SendRaises == websocket \in {c \in Conns : link[c] = "closed"}

\* _send_raw of a frame that makes the hub's topics for the websocket those of T.
HubHolds(T) ==
  hubTopics' = IF websocket \in {c \in Conns : link[c] = "up"}
               THEN [hubTopics EXCEPT ![websocket] = T]
               ELSE hubTopics

(***************************************************************************)
(* _connect and _on_connection_closed.                                     *)
(***************************************************************************)
\* The dial succeeded with connection c, a new one: nothing reads any more what the
\* last connection of that name left behind.
Connected(c) ==
  /\ c # websocket
  /\ link' = [link EXCEPT ![c] = "up"]
  /\ inbound' = [inbound EXCEPT ![c] = <<>>]
  /\ UNCHANGED faults
  /\ websocket' = c
  /\ connected' = TRUE
  /\ listener' = [listener EXCEPT ![c] = "recv"]

\* Mutant: the listener is not cancelled.
CancelsNothing == UNCHANGED listener

\* The cancelled task ends at its await, be it in a callback.
Cancel == listener' = [c \in Conns |-> IF c \in Alive THEN "none" ELSE listener[c]]

ConnectionClosed ==
  /\ connected' = FALSE
  /\ websocket' = None
  /\ Cancel

(***************************************************************************)
(* begin.                                                                  *)
(***************************************************************************)
\* An application that has begun does not begin again.
BeginDial ==
  /\ begin = "idle"
  /\ begin' = "dialing"
  /\ UNCHANGED <<callbacks, connected, websocket, listener, loop, calls, net>>

\* begin() ends: with reconnect it starts the maintenance task.
BeginReturn ==
  /\ begin' = "done"
  /\ maintain' = IF Reconnect THEN "idle" ELSE maintain
  /\ UNCHANGED <<callbacks, unsent, size, left, calls>>

BeginConnected(c) ==
  /\ begin = "dialing"
  /\ Connected(c)
  /\ BeginReturn
  /\ hubTopics' = [hubTopics EXCEPT ![c] = {}]

\* An OSError: with reconnect it is left to the maintenance task.
BeginOSError ==
  /\ begin = "dialing"
  /\ Reconnect
  /\ BeginReturn
  /\ UNCHANGED <<connected, websocket, listener, net>>

\* Without reconnect, and for any other exception, begin() raises.
BeginRaises ==
  /\ begin = "dialing"
  /\ begin' = "idle"
  /\ UNCHANGED <<callbacks, connected, websocket, listener, loop, calls, net>>

(***************************************************************************)
(* _maintain_connection.                                                   *)
(***************************************************************************)
\* Mutant: the task dials whether or not the client is connected.
AlwaysDue == TRUE

ReconnectDue == ~connected

MaintainDial ==
  /\ maintain = "idle"
  /\ ReconnectDue
  /\ maintain' = "dialing"
  /\ UNCHANGED <<callbacks, connected, websocket, listener, begin, unsent, size,
                 left, calls, net>>

\* The ping raises.
MaintainPingFails ==
  /\ maintain = "idle"
  /\ connected
  /\ SendRaises
  /\ ConnectionClosed
  /\ UNCHANGED <<callbacks, begin, loop, calls, net>>

MaintainDialFails ==
  /\ maintain = "dialing"
  /\ maintain' = "idle"
  /\ ConnectionClosed
  /\ UNCHANGED <<callbacks, begin, unsent, size, left, calls, net>>

\* The dial succeeds and the first topic is sent before anything else runs.
MaintainConnected(c) ==
  /\ maintain = "dialing"
  /\ Connected(c)
  /\ IF callbacks = {}
     THEN /\ maintain' = "idle"
          /\ hubTopics' = [hubTopics EXCEPT ![c] = {}]
          /\ UNCHANGED <<unsent, size, left>>
     ELSE \E t \in callbacks :
            /\ maintain' = "resubscribing"
            /\ unsent' = callbacks \ {t}
            /\ size' = Cardinality(callbacks)
            /\ left' = Cardinality(callbacks) - 1
            /\ hubTopics' = [hubTopics EXCEPT ![c] = {t}]
  /\ UNCHANGED <<callbacks, begin, calls>>

\* Mutant: the loop is over as soon as the first topic is sent.
FirstOnly == TRUE

\* The loop has come to the end of the callbacks.
LoopOver == unsent = {}

\* Mutant: the loop looks at the size only.
SizeOnly == Cardinality(callbacks) # size

\* next() raises RuntimeError: the dictionary has not the size it had, or it has and
\* there is a topic left after as many as were expected, because one that was sent
\* has been replaced by one that was added.
CallbacksChanged == Cardinality(callbacks) # size \/ (left = 0 /\ ~LoopOver)

\* The loop ends, and its iterator with it.
LoopEnds == maintain' = "idle" /\ unsent' = {} /\ size' = 0 /\ left' = 0

\* next() raises, or _send_raw because the connection is gone.
ResubscribeRaises ==
  /\ maintain = "resubscribing"
  /\ CallbacksChanged \/ (~LoopOver /\ (~connected \/ SendRaises))
  /\ LoopEnds
  /\ ConnectionClosed
  /\ UNCHANGED <<callbacks, begin, calls, net>>

\* (Left out: the insertion for which CPython rebuilds the dictionary, the sixth at
\* the soonest, moves the entries up and makes a loop under way pass some over.)
ResubscribeNext ==
  /\ maintain = "resubscribing"
  /\ ~CallbacksChanged
  /\ connected
  /\ ~SendRaises
  /\ \E t \in unsent :
       /\ unsent' = unsent \ {t}
       /\ HubHolds(hubTopics[websocket] \cup {t})
  /\ left' = left - 1
  /\ UNCHANGED <<callbacks, connected, websocket, listener, begin, maintain, size,
                 calls, faults, link, inbound>>

ResubscribeEnds ==
  /\ maintain = "resubscribing"
  /\ ~CallbacksChanged
  /\ LoopOver
  /\ LoopEnds
  /\ UNCHANGED <<callbacks, connected, websocket, listener, begin, calls, net>>

(***************************************************************************)
(* _listener, the task started with connection c.                          *)
(***************************************************************************)
\* recv returns the next frame of the websocket, which is one of F.
Receive(c, F) ==
  /\ listener[c] = "recv"
  /\ websocket # None
  /\ inbound[websocket] # <<>>
  /\ Head(inbound[websocket]) \in F
  /\ inbound' = [inbound EXCEPT ![websocket] = Tail(@)]

\* recv raises when the connection is closed and all its frames are read.
ListenerCloses(c) ==
  /\ listener[c] = "recv"
  /\ SendRaises
  /\ inbound[websocket] = <<>>
  /\ ConnectionClosed
  /\ UNCHANGED <<callbacks, begin, loop, calls, net>>

\* The frame does not decode: FromString raises, and the listener gives up the
\* connection, which may be up.
ListenerFails(c) ==
  /\ Receive(c, {Garbled})
  /\ ConnectionClosed
  /\ UNCHANGED <<callbacks, begin, loop, calls, faults, link, hubTopics>>

\* Mutant: the reply carries no topics.
NoTopics == {}

ReplyTopics == callbacks

\* The hub adds the topics of the reply to those it holds; a reply that cannot
\* be sent tears the connection down.
ListenerHeartbeat(c) ==
  /\ Receive(c, {Heartbeat})
  /\ IF SendRaises
     THEN ConnectionClosed /\ UNCHANGED hubTopics
     ELSE /\ HubHolds(hubTopics[websocket] \cup ReplyTopics)
          /\ UNCHANGED <<connected, websocket, listener>>
  /\ UNCHANGED <<callbacks, begin, loop, calls, faults, link>>

\* The listener awaits the callback, if the topic has one.
ListenerPublish(c) ==
  /\ Receive(c, Topics)
  /\ listener' = [listener EXCEPT ![c] =
                    IF Head(inbound[websocket]) \in callbacks THEN "callback" ELSE "recv"]
  /\ UNCHANGED <<callbacks, connected, websocket, begin, loop, calls, faults, link,
                 hubTopics>>

CallbackEnds(c) ==
  /\ listener[c] = "callback"
  /\ listener' = [listener EXCEPT ![c] = "recv"]
  /\ UNCHANGED <<callbacks, connected, websocket, begin, loop, calls, net>>

(***************************************************************************)
(* The application.                                                        *)
(***************************************************************************)
MayCall ==
  /\ SubscribeFirst \/ begin = "done"
  /\ calls < MaxCalls
  /\ calls' = calls + 1

\* A topic that is new to self.callbacks is one more the loop over them comes to.
Register(t) ==
  /\ callbacks' = callbacks \cup {t}
  /\ unsent' = IF maintain = "resubscribing" THEN unsent \cup ({t} \ callbacks)
                                             ELSE unsent
  /\ UNCHANGED <<maintain, size, left>>

Unregister(t) ==
  /\ callbacks' = callbacks \ {t}
  /\ unsent' = unsent \ {t}
  /\ UNCHANGED <<maintain, size, left>>

\* The callback stays registered when the send is left out or raises.
Subscribe(t) ==
  /\ MayCall
  /\ connected \/ Reconnect
  /\ Register(t)
  /\ HubHolds(hubTopics[websocket] \cup {t})
  /\ UNCHANGED <<connected, websocket, listener, begin, faults, link, inbound>>

\* Mutant: the hub is not told.
Silently(t) == UNCHANGED hubTopics

Retract(t) == HubHolds(hubTopics[websocket] \ {t})

Unsubscribe(t) ==
  /\ MayCall
  /\ t \in callbacks
  /\ Unregister(t)
  /\ Retract(t)
  /\ UNCHANGED <<connected, websocket, listener, begin, faults, link, inbound>>

\* The hub sends frame f to the connections of S that have room for it.  (Nobody
\* reads what it sends to a connection the client has given up.)
HubSends(f, S) ==
  inbound' = [c \in Conns |-> IF c \in S \cap {websocket} /\ Len(inbound[c]) < MaxInbound
                              THEN Append(inbound[c], f) ELSE inbound[c]]

\* The hub sends the message to every connection that has the topic; publish
\* drops it when the client is not connected.
Publish(t) ==
  /\ websocket \in {c \in Conns : link[c] = "up"}
  /\ HubSends(t, {c \in Conns : t \in hubTopics[c]})
  /\ UNCHANGED <<callbacks, connected, websocket, listener, begin, loop, calls,
                 faults, link, hubTopics>>

(***************************************************************************)
(* The hub and the network.                                                *)
(***************************************************************************)
HubHeartbeat(c) ==
  /\ websocket = c /\ link[c] = "up"
  /\ Len(inbound[c]) < MaxInbound
  /\ HubSends(Heartbeat, {c})
  /\ UNCHANGED <<callbacks, connected, websocket, listener, begin, loop, calls,
                 faults, link, hubTopics>>

\* The hub sends something that is no message.
HubGarbles(c) ==
  /\ websocket = c /\ link[c] = "up"
  /\ Len(inbound[c]) < MaxInbound
  /\ faults < MaxFaults
  /\ faults' = faults + 1
  /\ HubSends(Garbled, {c})
  /\ UNCHANGED <<callbacks, connected, websocket, listener, begin, loop, calls, link,
                 hubTopics>>

\* The connection goes, with the library knowing or not.
Lose(c) ==
  /\ link[c] = "up"
  /\ faults < MaxFaults
  /\ faults' = faults + 1
  /\ \E l \in {"lost", "closed"} : link' = [link EXCEPT ![c] = l]
  /\ hubTopics' = [hubTopics EXCEPT ![c] = {}]
  /\ UNCHANGED <<callbacks, connected, websocket, listener, begin, loop, calls, inbound>>

\* The keepalive of the library finds the connection dead.
Detect(c) ==
  /\ link[c] = "lost"
  /\ link' = [link EXCEPT ![c] = "closed"]
  /\ UNCHANGED <<callbacks, connected, websocket, listener, begin, loop, calls,
                 faults, hubTopics, inbound>>

Next ==
  \/ BeginDial \/ BeginOSError \/ BeginRaises
  \/ MaintainDial \/ MaintainPingFails \/ MaintainDialFails
  \/ ResubscribeRaises \/ ResubscribeNext \/ ResubscribeEnds
  \/ \E c \in Conns :
       \/ BeginConnected(c) \/ MaintainConnected(c)
       \/ ListenerCloses(c) \/ ListenerFails(c)
       \/ ListenerHeartbeat(c) \/ ListenerPublish(c) \/ CallbackEnds(c)
       \/ HubHeartbeat(c) \/ HubGarbles(c) \/ Lose(c) \/ Detect(c)
  \/ \E t \in Topics : Subscribe(t) \/ Unsubscribe(t) \/ Publish(t)

Spec == Init /\ [][Next]_vars

(***************************************************************************)
(* Fairness: the event loop runs every task that can go on, dials keep     *)
(* being answered and one in the end succeeds, the keepalive finds dead    *)
(* connections and the hub goes on sending heartbeats.  Callbacks may take *)
(* for ever, and so may the application.                                   *)
(***************************************************************************)
DialSucceeds == \E c \in Conns : MaintainConnected(c)

FairSpec ==
  /\ Spec
  /\ WF_vars(MaintainDial) /\ WF_vars(MaintainPingFails)
  /\ WF_vars(MaintainDialFails) /\ SF_vars(DialSucceeds)
  /\ WF_vars(ResubscribeRaises) /\ WF_vars(ResubscribeNext) /\ WF_vars(ResubscribeEnds)
  /\ \A c \in Conns : WF_vars(Detect(c))

\* As FairSpec, with callbacks that end and a hub that sends heartbeats.
HeartbeatSpec ==
  /\ FairSpec
  /\ \A c \in Conns :
       /\ WF_vars(CallbackEnds(c))
       /\ WF_vars(ListenerCloses(c)) /\ WF_vars(ListenerFails(c))
       /\ WF_vars(ListenerHeartbeat(c)) /\ WF_vars(ListenerPublish(c))
       /\ SF_vars(HubHeartbeat(c))

(***************************************************************************)
(* Properties.                                                             *)
(***************************************************************************)

\* A client is connected when it has a websocket, and the one listener there is
\* then is the one started with it: two tasks never read one connection.
OneListener ==
  /\ connected <=> websocket # None
  /\ Alive = {websocket} \ {None}

\* When the application subscribes after begin() and the loop over the callbacks
\* is over, the hub holds exactly the topics that have a callback, whatever was
\* subscribed or unsubscribed during the dial and the loop.
HubMirrorsCallbacks ==
  ~SubscribeFirst /\ maintain # "resubscribing" =>
    \A c \in Conns : websocket = c /\ link[c] = "up" => hubTopics[c] = callbacks

\* The websocket is up and has been told the topics there were.
InUse == maintain # "resubscribing" /\ websocket \in {c \in Conns : link[c] = "up"}

S == INSTANCE Session WITH
       wanted <- callbacks,
       up     <- InUse,
       held   <- IF InUse THEN hubTopics[websocket] ELSE {}

\* An application that subscribes after begin() sees a session: what is subscribed
\* and unsubscribed during a dial or the loop shows when the loop is over, and a
\* heartbeat, a teardown or a listener of an old connection changes nothing the hub
\* holds for the connection in use.
ImplementsSession == S!Spec

\* "Reset state after the active transport closes" (client.py:107): a connection that
\* is not closed is given up in two ways only, by the loop over the callbacks when it
\* finds them changed and by a listener that has read a frame that does not decode.
\* No heartbeat, ping, dial, message or call of the application does it.
AbandonsForCause ==
  [][\A c \in Conns :
       websocket = c /\ websocket' # c /\ link[c] # "closed" =>
         \/ maintain = "resubscribing" /\ CallbacksChanged /\ maintain' = "idle"
         \/ inbound[c] = <<Garbled>> \o inbound'[c]]_vars

\* Once its maintenance task runs, a client with reconnect ends up on a connection
\* that lasts, and the hub holds exactly its topics.
EventuallyInSync ==
  (<>(maintain # "off")) =>
    <>[](\E c \in Conns : websocket = c /\ link[c] = "up"
                            /\ (SubscribeFirst \/ hubTopics[c] = callbacks))

\* A topic subscribed before begin() is over, and so never sent, reaches the hub
\* with the next heartbeat.
EarlySubscribeHeals ==
  \A t \in Topics, c \in Conns :
    (<>[](t \in callbacks /\ websocket = c /\ link[c] = "up"))
      => <>[](websocket = c => t \in hubTopics[c])
=============================================================================
