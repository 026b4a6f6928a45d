--------------------------- MODULE TsClientProofs ---------------------------
(***************************************************************************)
(* Proofs about TsClient for every set of topics and sockets.  That the    *)
(* hub mirrors the callbacks, and that the client implements a session,    *)
(* holds however often the application begins; that there is one           *)
(* connection, as long as it has begun once.                               *)
(***************************************************************************)
EXTENDS TsClient, TLAPS

\* The hub holds nothing for a socket that has not opened.
Unopened == \A c \in InState({"unused", "connecting"}) : hubTopics[c] = {}

MirrorInv == TypeOK /\ HubMirrorsCallbacks /\ Unopened

\* Before begin() there is neither a socket nor a timer.
BeforeBegin == begins = 0 => Live = {} /\ timers = 0

SingleInv == BeforeBegin /\ OneConnection

LEMMA InitInv == Init => MirrorInv /\ SingleInv
  <1> SUFFICES ASSUME Init PROVE MirrorInv /\ SingleInv
    OBVIOUS
  <1>1. inbound \in [Socks -> Seq(Topics \cup {Heartbeat})]
    BY DEF Init
  <1>2. TypeOK
    BY <1>1 DEF Init, TypeOK, States
  <1>3. HubMirrorsCallbacks /\ Unopened
    BY NoneAssumption DEF Init, HubMirrorsCallbacks, Unopened, InState, Receives
  <1>4. SingleInv
    BY NoneAssumption
    DEF Init, SingleInv, BeforeBegin, OneConnection, Live, InState
  <1>. QED
    BY <1>2, <1>3, <1>4 DEF MirrorInv

\* What the close of a socket does to the client.
LEMMA CloseTypes ==
  ASSUME TypeOK, NEW c \in Socks, OnClose(c)
  PROVE  /\ callbacks' = callbacks /\ begins' = begins
         /\ ws' = None /\ connected' = FALSE
         /\ timers' \in {timers, timers + 1} /\ timers' \in Nat
         /\ lost' \in SUBSET Socks
         /\ inbound' \in [Socks -> Seq(Topics \cup {Heartbeat})]
  BY DEF TypeOK, OnClose, Disconnect, SetTimer

\* A step keeps the types and the mirror: one step of the proof per action.
LEMMA NextMirror == MirrorInv /\ [Next]_vars => MirrorInv'
  <1> SUFFICES ASSUME MirrorInv, [Next]_vars PROVE MirrorInv'
    OBVIOUS
  <1> USE NoneAssumption
      DEF MirrorInv, TypeOK, States, HubMirrorsCallbacks, Unopened, InState, Receives,
          vars, client
  <1>1. CASE Begin
    <2>1. UNCHANGED <<callbacks, connected, timers, lost, hubTopics, inbound>>
          /\ begins' \in Nat
      BY <1>1 DEF Begin
    <2>2. UNCHANGED <<ws, state>> \/ Connect
      BY <1>1 DEF Begin
    <2>. QED
      BY <2>1, <2>2 DEF Connect
  <1>2. CASE TimerFires
    BY <1>2 DEF TimerFires, TimerDue, Connect
  <1>3. ASSUME NEW c \in Socks, OnOpen(c) PROVE MirrorInv'
    <2>1. state' = [state EXCEPT ![c] = "open"] /\ connected' = TRUE
          /\ UNCHANGED <<callbacks, ws, timers, begins, lost, inbound>>
      BY <1>3 DEF OnOpen
    <2>2. CASE ws = c
      <3>1. hubTopics' = [hubTopics EXCEPT ![c] = @ \cup callbacks] /\ hubTopics[c] = {}
        BY <1>3, <2>2 DEF OnOpen, Resubscribe
      <3>. QED
        BY <2>1, <2>2, <3>1
    <2>3. CASE ws # c
      <3>1. hubTopics' = hubTopics
        BY <1>3, <2>3 DEF OnOpen, Resubscribe, WsOpen
      <3>. QED
        BY <1>3, <2>1, <2>3, <3>1 DEF OnOpen
    <2>. QED
      BY <2>2, <2>3
  <1>4. ASSUME NEW c \in Socks, Closed(c) PROVE MirrorInv'
    BY <1>4, CloseTypes DEF Closed
  <1>5. ASSUME NEW c \in Socks, Fails(c) PROVE MirrorInv'
    <2>1. state' \in [Socks -> States] /\ hubTopics' \in [Socks -> SUBSET Topics]
          /\ OnClose(c)
      BY <1>5 DEF Fails
    <2>2. Unopened'
      BY <1>5 DEF Fails
    <2>. QED
      BY <2>1, <2>2, CloseTypes
  <1>6. ASSUME NEW c \in Socks, OnHeartbeat(c) PROVE MirrorInv'
    BY <1>6 DEF OnHeartbeat, Receive, WsHolds, WsOpen
  <1>7. ASSUME NEW c \in Socks, OnPublish(c) PROVE MirrorInv'
    BY <1>7 DEF OnPublish, Receive
  <1>8. ASSUME NEW c \in Socks, HubHeartbeat(c) PROVE MirrorInv'
    BY <1>8 DEF HubHeartbeat, HubSends
  <1>9. ASSUME NEW c \in Socks, HubCloses(c) \/ HubLost(c) PROVE MirrorInv'
    BY <1>9 DEF HubCloses, HubLost
  <1>10. ASSUME NEW t \in Topics, Subscribe(t) PROVE MirrorInv'
    BY <1>10 DEF Subscribe, WsHolds, WsOpen
  <1>11. ASSUME NEW t \in Topics, Unsubscribe(t) PROVE MirrorInv'
    BY <1>11 DEF Unsubscribe, WsHolds, WsOpen
  <1>12. ASSUME NEW t \in Topics, Publish(t) PROVE MirrorInv'
    BY <1>12 DEF Publish, HubSends
  <1>13. CASE UNCHANGED vars
    BY <1>13
  <1> HIDE DEF MirrorInv
  <1>. QED
    BY <1>1, <1>2, <1>3, <1>4, <1>5, <1>6, <1>7, <1>8, <1>9, <1>10, <1>11, <1>12,
       <1>13 DEF Next

\* A step keeps the connection single as long as begin() has been called once.
LEMMA NextSingle == TypeOK /\ SingleInv /\ [Next]_vars => SingleInv'
  <1> SUFFICES ASSUME TypeOK, SingleInv, [Next]_vars PROVE SingleInv'
    OBVIOUS
  <1> USE NoneAssumption
      DEF TypeOK, States, SingleInv, BeforeBegin, OneConnection,
          Live, InState, vars, client
  <1>1. CASE Begin
    <2>1. CASE begins = 0
      <3>1. Live = {} /\ timers = 0 /\ ~connected
        BY <2>1
      <3>2. PICK c \in InState({"unused"}) :
              ws' = c /\ state' = [state EXCEPT ![c] = "connecting"]
        BY <1>1, <3>1 DEF Begin, Connect
      <3>. QED
        BY <1>1, <2>1, <3>1, <3>2 DEF Begin
    <2>2. CASE begins # 0
      BY <1>1, <2>2 DEF Begin
    <2>. QED
      BY <2>1, <2>2
  <1>2. CASE TimerFires
    BY <1>2 DEF TimerFires, TimerDue, Connect
  <1>3. ASSUME NEW c \in Socks, OnOpen(c) PROVE SingleInv'
    BY <1>3 DEF OnOpen
  <1>4. ASSUME NEW c \in Socks, Closed(c) PROVE SingleInv'
    <2>0. /\ begins' = begins /\ ws' = None /\ connected' = FALSE
          /\ timers' \in {timers, timers + 1}
      BY <1>4, CloseTypes DEF Closed
    <2>1. CASE begins <= 1
      <3>1. ws = c /\ timers = 0 /\ begins = 1
        BY <1>4, <2>1 DEF Closed
      <3>2. \A d \in Socks : d \notin Live'
        BY <1>4, <2>1, <3>1 DEF Closed
      <3>. QED
        BY <2>0, <3>1, <3>2
    <2>2. CASE begins > 1
      BY <2>0, <2>2
    <2>. QED
      BY <2>1, <2>2
  <1>5. ASSUME NEW c \in Socks, Fails(c) PROVE SingleInv'
    <2>0. /\ begins' = begins /\ ws' = None /\ connected' = FALSE
          /\ timers' \in {timers, timers + 1}
      BY <1>5, CloseTypes DEF Fails
    <2>1. CASE begins <= 1
      <3>1. ws = c /\ timers = 0 /\ begins = 1
        BY <1>5, <2>1 DEF Fails
      <3>2. \A d \in Socks : d \notin Live'
        BY <1>5, <2>1, <3>1 DEF Fails
      <3>. QED
        BY <2>0, <3>1, <3>2
    <2>2. CASE begins > 1
      BY <2>0, <2>2
    <2>. QED
      BY <2>1, <2>2
  <1>6. ASSUME NEW c \in Socks, OnHeartbeat(c) \/ OnPublish(c) \/ HubHeartbeat(c)
        PROVE  SingleInv'
    BY <1>6 DEF OnHeartbeat, OnPublish, HubHeartbeat
  <1>7. ASSUME NEW c \in Socks, HubCloses(c) \/ HubLost(c) PROVE SingleInv'
    BY <1>7 DEF HubCloses, HubLost, Receives
  <1>8. ASSUME NEW t \in Topics, Subscribe(t) \/ Unsubscribe(t) \/ Publish(t)
        PROVE  SingleInv'
    BY <1>8 DEF Subscribe, Unsubscribe, Publish
  <1>9. CASE UNCHANGED vars
    BY <1>9
  <1> HIDE DEF SingleInv
  <1>. QED
    BY <1>1, <1>2, <1>3, <1>4, <1>5, <1>6, <1>7, <1>8, <1>9 DEF Next

(***************************************************************************)
(* The refinement.                                                         *)
(***************************************************************************)
LEMMA InitSession == Init => S!Init
  BY NoneAssumption DEF Init, S!Init, InUse, WsOpen, InState

\* The steps that are no step of the session leave this in place.
Unseen == UNCHANGED <<callbacks, InUse, IF InUse THEN hubTopics[ws] ELSE {}>>

\* Every step is a step of the session or changes nothing in it.
LEMMA NextSession == MirrorInv /\ [Next]_vars => [S!Next]_(S!vars)
  <1> SUFFICES ASSUME MirrorInv, [Next]_vars PROVE S!Next \/ Unseen
    BY DEF S!vars, Unseen
  <1> USE NoneAssumption
      DEF MirrorInv, TypeOK, States, HubMirrorsCallbacks, Unopened, InState, Receives,
          InUse, WsOpen
  <1>1. ASSUME InUse, ~InUse', callbacks' = callbacks PROVE S!Next
    BY <1>1 DEF S!Next, S!Close
  <1>2. ASSUME Connect, UNCHANGED <<callbacks, lost, hubTopics>> PROVE S!Next \/ Unseen
    <2>1. ~InUse'
      BY <1>2 DEF Connect
    <2>. QED
      BY <1>1, <1>2, <2>1 DEF Unseen
  <1>3. CASE Begin
    BY <1>2, <1>3 DEF Begin, Unseen
  <1>4. CASE TimerFires
    BY <1>2, <1>4 DEF TimerFires
  <1>5. ASSUME NEW c \in Socks, OnOpen(c) PROVE S!Next \/ Unseen
    <2>1. CASE ws = c /\ c \notin lost
      <3>1. ~InUse /\ InUse' /\ callbacks' = callbacks /\ ws' = ws
        BY <1>5, <2>1 DEF OnOpen
      <3>2. hubTopics'[ws'] = callbacks
        BY <1>5, <2>1 DEF OnOpen, Resubscribe
      <3>. QED
        BY <3>1, <3>2 DEF S!Next, S!Open
    <2>2. CASE ws = c /\ c \in lost
      BY <1>5, <2>2 DEF OnOpen, Unseen
    <2>3. CASE ws # c
      <3>1. hubTopics' = hubTopics
        BY <1>5, <2>3 DEF OnOpen, Resubscribe
      <3>. QED
        BY <1>5, <2>3, <3>1 DEF OnOpen, Unseen
    <2>. QED
      BY <2>1, <2>2, <2>3
  <1>6. ASSUME NEW c \in Socks, OnClose(c) PROVE S!Next \/ Unseen
    <2>1. callbacks' = callbacks /\ ~InUse'
      BY <1>6 DEF OnClose, Disconnect
    <2>. QED
      BY <1>1, <2>1 DEF Unseen
  <1>7. ASSUME NEW c \in Socks, OnHeartbeat(c) PROVE S!Next \/ Unseen
    BY <1>7 DEF OnHeartbeat, WsHolds, client, Unseen
  <1>8. ASSUME NEW c \in Socks, OnPublish(c) \/ HubHeartbeat(c) PROVE S!Next \/ Unseen
    BY <1>8 DEF OnPublish, HubHeartbeat, client, Unseen
  <1>9. ASSUME NEW c \in Socks, HubCloses(c) \/ HubLost(c) PROVE S!Next \/ Unseen
    <2>1. callbacks' = callbacks /\ ws' = ws
      BY <1>9 DEF HubCloses, HubLost, client
    <2>2. CASE ws = c
      <3>1. ~InUse'
        BY <1>9, <2>2 DEF HubCloses, HubLost, client
      <3>. QED
        BY <1>1, <2>1, <3>1 DEF Unseen
    <2>3. CASE ws # c
      BY <1>9, <2>1, <2>3 DEF HubCloses, HubLost, client, Unseen
    <2>. QED
      BY <2>2, <2>3
  <1>10. ASSUME NEW t \in Topics, Subscribe(t) PROVE S!Next
    BY <1>10 DEF Subscribe, WsHolds, S!Next, S!Want
  <1>11. ASSUME NEW t \in Topics, Unsubscribe(t) PROVE S!Next
    BY <1>11 DEF Unsubscribe, WsHolds, S!Next, S!Drop
  <1>12. ASSUME NEW t \in Topics, Publish(t) PROVE S!Next \/ Unseen
    BY <1>12 DEF Publish, client, Unseen
  <1>13. CASE UNCHANGED vars
    BY <1>13 DEF vars, client, Unseen
  <1>. QED
    BY <1>3, <1>4, <1>5, <1>6, <1>7, <1>8, <1>9, <1>10, <1>11, <1>12, <1>13
    DEF Next, Closed, Fails

(***************************************************************************)
(* The theorems.                                                           *)
(***************************************************************************)

\* Every variable keeps its type.
THEOREM TypeCorrect == Spec => []TypeOK
  <1>1. MirrorInv => TypeOK
    BY DEF MirrorInv
  <1>. QED
    BY <1>1, InitInv, NextMirror, PTL DEF Spec

\* As long as begin() has been called once there is one socket or one timer at a
\* time, this.ws is that socket, and connected tells whether it has opened.
THEOREM SingleConnection == Spec => []OneConnection
  <1>1. SingleInv => OneConnection
    BY DEF SingleInv
  <1>2. MirrorInv => TypeOK
    BY DEF MirrorInv
  <1>. QED
    BY <1>1, <1>2, InitInv, NextMirror, NextSingle, PTL DEF Spec

\* However often the application begins, the hub holds exactly the topics that have
\* a callback while this.ws is open.
THEOREM HubMirrors == Spec => []HubMirrorsCallbacks
  <1>1. MirrorInv => HubMirrorsCallbacks
    BY DEF MirrorInv
  <1>. QED
    BY <1>1, InitInv, NextMirror, PTL DEF Spec

\* The client implements a session.
THEOREM Implements == Spec => ImplementsSession
  <1>. QED
    BY InitInv, NextMirror, InitSession, NextSession, PTL
    DEF Spec, ImplementsSession, S!Spec
=============================================================================
