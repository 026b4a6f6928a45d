------------------------------ MODULE TsClient ------------------------------
(***************************************************************************)
(* The TypeScript client (src/main/typescript/autobahn_client/index.ts).   *)
(* JavaScript runs one method or event handler at a time and none of them  *)
(* awaits before its last send, so each is one step.  What interleaves is  *)
(* the events of the sockets, the reconnect timers and the application.    *)
(*                                                                         *)
(* Every handler acts on this.ws, whichever socket its event came from.    *)
(* The hub is kept as the topics it holds for each socket, as in           *)
(* RustClient; so are the definitions marked "Mutant".                     *)
(***************************************************************************)
EXTENDS Naturals, FiniteSets, Sequences

CONSTANTS
  Topics,       \* topic names
  Socks,        \* sockets that can ever be created (a bound)
  None,         \* this.ws is null
  Heartbeat,    \* a HEARTBEAT frame from the hub
  Reconnect,    \* the reconnect argument of the constructor
  MaxBegins,    \* calls of begin() in a behaviour (a bound)
  MaxInbound    \* frames from the hub waiting on one socket (a bound)

ASSUME ReconnectAssumption == Reconnect \in BOOLEAN
ASSUME BoundsAssumption    == MaxBegins \in Nat /\ MaxInbound \in Nat
ASSUME NoneAssumption      == None \notin Socks
ASSUME HeartbeatAssumption == Heartbeat \notin Topics

VARIABLES
  callbacks,  \* this.callbacks: the topics that have one
  ws,         \* this.ws
  connected,  \* this.connected
  timers,     \* reconnect timers that have not fired
  begins,     \* calls of begin() so far
  state,      \* readyState of each socket
  lost,       \* the sockets whose hub is gone without their knowing
  hubTopics,  \* the topics the hub holds for each socket
  inbound     \* frames from the hub not delivered yet

client == <<callbacks, ws, connected, timers, begins>>
vars   == <<client, state, lost, hubTopics, inbound>>

States == {"unused", "connecting", "open", "closing", "closed"}

TypeOK ==
  /\ callbacks \in SUBSET Topics
  /\ ws \in Socks \cup {None}
  /\ connected \in BOOLEAN
  /\ timers \in Nat
  /\ begins \in Nat
  /\ state \in [Socks -> States]
  /\ lost \in SUBSET Socks
  /\ hubTopics \in [Socks -> SUBSET Topics]
  /\ inbound \in [Socks -> Seq(Topics \cup {Heartbeat})]

Init ==
  /\ callbacks = {} /\ ws = None /\ connected = FALSE
  /\ timers = 0 /\ begins = 0
  /\ state = [c \in Socks |-> "unused"] /\ lost = {}
  /\ hubTopics = [c \in Socks |-> {}]
  /\ inbound = [c \in Socks |-> <<>>]

InState(S) == {c \in Socks : state[c] \in S}

\* this.ws?.readyState === WebSocket.OPEN
WsOpen == ws \in InState({"open"})

\* What is sent on socket c reaches the hub.
Receives(c) == state[c] = "open" /\ c \notin lost

\* this.ws.send of a frame that makes the hub's topics for ws those of T, if
\* ws is open.
WsHolds(T) ==
  hubTopics' = IF WsOpen /\ Receives(ws) THEN [hubTopics EXCEPT ![ws] = T]
                                         ELSE hubTopics

(***************************************************************************)
(* Socket creation: connect().                                             *)
(***************************************************************************)
Connect ==
  \E c \in InState({"unused"}) :
    /\ ws' = c
    /\ state' = [state EXCEPT ![c] = "connecting"]

\* A bound, not code: every socket that goes has another one to follow it.
Going == InState({"closing"}) \cup lost
Spare(n) == Cardinality(InState({"unused"})) >= timers + Cardinality(Going) + n
MayGo(C) == Spare(Cardinality(C \ Going)) \/ C \subseteq Going

Begin ==
  /\ begins < MaxBegins
  /\ connected \/ Spare(1)
  /\ begins' = begins + 1
  /\ IF connected THEN UNCHANGED <<ws, state>> ELSE Connect
  /\ UNCHANGED <<callbacks, connected, timers, lost, hubTopics, inbound>>

\* Mutant: the timer is an interval, which is not over when it fires.
IntervalFires == timers > 0 /\ UNCHANGED timers

TimerDue == timers > 0 /\ timers' = timers - 1

TimerFires ==
  /\ TimerDue
  /\ Connect
  /\ UNCHANGED <<callbacks, connected, begins, lost, hubTopics, inbound>>

(***************************************************************************)
(* Events of socket c.                                                     *)
(***************************************************************************)
\* Mutant: onopen does not resubscribe.
OpensBare(c) == UNCHANGED hubTopics

\* The SUBSCRIBE frames of onopen go to this.ws: if that is another socket they
\* reach the hub when it is open; otherwise send drops them or throws, which
\* ends the handler with connected already set.
Resubscribe(c) ==
  hubTopics' = IF ws = c \/ (WsOpen /\ Receives(ws))
               THEN [hubTopics EXCEPT ![ws] = @ \cup callbacks]
               ELSE hubTopics

OnOpen(c) ==
  /\ state[c] = "connecting"
  /\ state' = [state EXCEPT ![c] = "open"]
  /\ connected' = TRUE
  /\ Resubscribe(c)
  /\ UNCHANGED <<callbacks, ws, timers, begins, lost, inbound>>

Disconnect == connected' = FALSE /\ ws' = None

\* Mutant: only a connection that was open is followed by another.
TimerIfConnected == timers' = IF Reconnect /\ connected THEN timers + 1 ELSE timers

SetTimer == timers' = IF Reconnect THEN timers + 1 ELSE timers

\* onclose of socket c.
OnClose(c) ==
  /\ Disconnect
  /\ SetTimer
  /\ lost' = lost \ {c}
  /\ inbound' = [inbound EXCEPT ![c] = <<>>]
  /\ UNCHANGED <<callbacks, begins>>

\* The socket closes without an error.
Closed(c) ==
  /\ state[c] = "closing"
  /\ state' = [state EXCEPT ![c] = "closed"]
  /\ OnClose(c)
  /\ UNCHANGED hubTopics

\* A dial that fails or a connection found dead: onerror closes this.ws, which
\* need not be the socket that failed, and onclose follows.
Fails(c) ==
  /\ c \in InState({"connecting", "open", "closing"})
  /\ LET closing == {ws} \cap InState({"connecting", "open"})
     IN  /\ MayGo({c} \cup closing)
         /\ state' = [d \in Socks |-> IF d = c THEN "closed"
                                      ELSE IF d \in closing THEN "closing"
                                      ELSE state[d]]
         /\ hubTopics' = [d \in Socks |-> IF d \in closing \cup {c} THEN {}
                                          ELSE hubTopics[d]]
  /\ OnClose(c)

\* The next frame of socket c is one of F.
Receive(c, F) ==
  /\ state[c] = "open"
  /\ inbound[c] # <<>>
  /\ Head(inbound[c]) \in F
  /\ inbound' = [inbound EXCEPT ![c] = Tail(@)]

\* The hub adds the topics of the reply to those it holds.
OnHeartbeat(c) ==
  /\ Receive(c, {Heartbeat})
  /\ WsHolds(hubTopics[ws] \cup callbacks)
  /\ UNCHANGED <<client, state, lost>>

\* A message goes to the topic's callback; the client keeps nothing of it.
OnPublish(c) ==
  /\ Receive(c, Topics)
  /\ UNCHANGED <<client, state, lost, hubTopics>>

(***************************************************************************)
(* The application.                                                        *)
(***************************************************************************)
Subscribe(t) ==
  /\ callbacks' = callbacks \cup {t}
  /\ WsHolds(hubTopics[ws] \cup {t})
  /\ UNCHANGED <<ws, connected, timers, begins, state, lost, inbound>>

\* Mutant: the hub is not told.
UnsubscribeLocally(t) ==
  /\ callbacks' = callbacks \ {t}
  /\ UNCHANGED <<ws, connected, timers, begins, state, lost, hubTopics, inbound>>

Unsubscribe(t) ==
  /\ callbacks' = callbacks \ {t}
  /\ WsHolds(hubTopics[ws] \ {t})
  /\ UNCHANGED <<ws, connected, timers, begins, state, lost, inbound>>

\* The hub sends frame f to the sockets of S.
HubSends(f, S) ==
  /\ \A c \in S : Len(inbound[c]) < MaxInbound
  /\ inbound' = [c \in Socks |-> IF c \in S THEN Append(inbound[c], f) ELSE inbound[c]]

\* The hub sends the message to every socket that has the topic, this client's
\* own included; without an open socket publish() drops it or throws.
Publish(t) ==
  /\ WsOpen
  /\ Receives(ws)
  /\ HubSends(t, {c \in Socks : Receives(c) /\ t \in hubTopics[c]})
  /\ UNCHANGED <<client, state, lost, hubTopics>>

(***************************************************************************)
(* The hub and the network.                                                *)
(***************************************************************************)
HubHeartbeat(c) ==
  /\ Receives(c)
  /\ HubSends(Heartbeat, {c})
  /\ UNCHANGED <<client, state, lost, hubTopics>>

\* The hub closes the connection: readyState is CLOSING until onclose.
HubCloses(c) ==
  /\ Receives(c)
  /\ MayGo({c})
  /\ state' = [state EXCEPT ![c] = "closing"]
  /\ hubTopics' = [hubTopics EXCEPT ![c] = {}]
  /\ UNCHANGED <<client, lost, inbound>>

\* The hub is gone and the socket does not know: what it sends is lost.
HubLost(c) ==
  /\ Receives(c)
  /\ MayGo({c})
  /\ lost' = lost \cup {c}
  /\ hubTopics' = [hubTopics EXCEPT ![c] = {}]
  /\ UNCHANGED <<client, state, inbound>>

Next ==
  \/ Begin \/ TimerFires
  \/ \E c \in Socks :
       \/ OnOpen(c) \/ Closed(c) \/ Fails(c) \/ OnHeartbeat(c) \/ OnPublish(c)
       \/ HubHeartbeat(c) \/ HubCloses(c) \/ HubLost(c)
  \/ \E t \in Topics : Subscribe(t) \/ Unsubscribe(t) \/ Publish(t)

Spec == Init /\ [][Next]_vars

(***************************************************************************)
(* Fairness: the event loop delivers the events that are due, a socket     *)
(* whose hub is gone is found dead, and a dial comes to an end.            *)
(***************************************************************************)
FairSpec ==
  /\ Spec
  /\ WF_vars(TimerFires)
  /\ \A c \in Socks :
       /\ WF_vars(OnOpen(c)) /\ WF_vars(Closed(c))
       /\ WF_vars(c \in lost /\ Fails(c))

(***************************************************************************)
(* Properties.                                                             *)
(***************************************************************************)

\* While this.ws is open and its hub is there, the hub holds exactly the topics
\* that have a callback: nothing is lost and nothing is left behind, whatever
\* the order of subscribe, unsubscribe, heartbeats and reconnections.
HubMirrorsCallbacks ==
  \A c \in Socks : ws = c /\ Receives(c) => hubTopics[c] = callbacks

Live == InState({"connecting", "open", "closing"})

\* "Start the connection" (index.ts:44): as long as the application has begun once
\* there is one socket at a time and it is this.ws, or one timer that will make it,
\* and connected, "Check if the client is connected" (:53), tells that this.ws has
\* opened and has not closed yet. (A second begin() during the dial makes a second
\* socket.)
OneConnection ==
  begins <= 1 =>
    /\ Live \subseteq {ws}
    /\ timers <= 1
    /\ timers = 1 => Live = {}
    /\ connected <=> ws \in InState({"open", "closing"})

\* this.ws is open and its hub is there.
InUse == WsOpen /\ Receives(ws)

S == INSTANCE Session WITH
       wanted <- callbacks,
       up     <- InUse,
       held   <- IF InUse THEN hubTopics[ws] ELSE {}

\* The client implements a session: a handler that acts on this.ws for another
\* socket's event, a reply to a heartbeat or a timer never shows through as a change
\* of what the hub holds, however often the application begins.
ImplementsSession == S!Spec

\* Once begun, a client with reconnect ends up on a connection that lasts.
EventuallyOpen == (<>(begins > 0)) => <>[]InUse
=============================================================================
