--------------------------- MODULE PyClientProofs ---------------------------
(***************************************************************************)
(* Proofs about PyClient for every set of topics and connections.          *)
(*                                                                         *)
(* That the hub mirrors the callbacks needs what is true while the loop    *)
(* over the callbacks runs (Resubscribing), what begin() leaves behind     *)
(* (Begun) and that a connection that is not up has no topics (Silent).    *)
(***************************************************************************)
EXTENDS PyClient, FiniteSetTheorems, TLAPS

\* Before begin() is over there is neither a connection nor the maintenance task,
\* and that task dials only without a connection, and loops over topics there are.
Begun ==
  /\ begin # "done" => maintain = "off" /\ websocket = None
  /\ maintain = "dialing" => websocket = None
  /\ maintain = "resubscribing" => unsent \subseteq callbacks
  /\ begin # "done" /\ ~SubscribeFirst => callbacks = {}

Silent == \A c \in Conns : link[c] # "up" => hubTopics[c] = {}

\* While the loop over the callbacks runs, the hub holds no topic without a
\* callback and lacks none but those the loop has still to come to.
Resubscribing ==
  maintain = "resubscribing" =>
    \A c \in Conns : websocket = c /\ link[c] = "up" =>
      hubTopics[c] \subseteq callbacks /\ callbacks \subseteq hubTopics[c] \cup unsent

\* What is typed, without the counters.
Typed ==
  /\ callbacks \in SUBSET Topics
  /\ connected \in BOOLEAN
  /\ websocket \in Conns \cup {None}
  /\ listener \in [Conns -> Listeners]
  /\ link \in [Conns -> Links]
  /\ hubTopics \in [Conns -> SUBSET Topics]
  /\ unsent \in SUBSET Topics

ListenerInv == Typed /\ OneListener /\ Begun

MirrorInv == ListenerInv /\ Silent /\ Resubscribing /\ HubMirrorsCallbacks

LEMMA InitInv == Init => MirrorInv
  BY NoneAssumption
  DEF Init, MirrorInv, ListenerInv, Typed, OneListener, Begun, Silent, Resubscribing,
      HubMirrorsCallbacks, Alive, Listeners, Links

\* The listeners after a dial and after a teardown.
LEMMA ConnectedKeeps ==
  ASSUME ListenerInv, NEW c \in Conns, websocket = None, Connected(c)
  PROVE  Alive' = {c} /\ websocket' = c /\ connected' = TRUE
         /\ listener' \in [Conns -> Listeners] /\ link' \in [Conns -> Links]
         /\ (connected' \in BOOLEAN)
  BY NoneAssumption DEF ListenerInv, Typed, OneListener, Connected, Alive, Listeners, Links

LEMMA TeardownKeeps ==
  ASSUME ListenerInv, ConnectionClosed
  PROVE  Alive' = {} /\ websocket' = None /\ connected' = FALSE
         /\ listener' \in [Conns -> Listeners] /\ (connected' \in BOOLEAN)
  BY DEF ListenerInv, Typed, ConnectionClosed, Cancel, Alive, Listeners

\* A step keeps the listener of the connection the only one.
LEMMA ListenerStep == ListenerInv /\ [Next]_vars => ListenerInv'
  <1> SUFFICES ASSUME ListenerInv, [Next]_vars PROVE ListenerInv'
    OBVIOUS
  <1> USE NoneAssumption DEF ListenerInv, Typed, OneListener, Begun, Links, Listeners, net, loop
  <1>1. CASE BeginDial
    BY <1>1 DEF BeginDial, Alive
  <1>2. CASE BeginOSError
    BY <1>2 DEF BeginOSError, BeginReturn, Alive
  <1>3. CASE BeginRaises
    BY <1>3 DEF BeginRaises, Alive
  <1>4. CASE MaintainDial
    BY <1>4 DEF MaintainDial, ReconnectDue, Alive
  <1>5. CASE MaintainPingFails
    BY <1>5, TeardownKeeps DEF MaintainPingFails
  <1>6. CASE MaintainDialFails
    BY <1>6, TeardownKeeps DEF MaintainDialFails
  <1>7. CASE ResubscribeRaises
    BY <1>7, TeardownKeeps DEF ResubscribeRaises, LoopEnds
  <1>8. CASE ResubscribeNext
    BY <1>8 DEF ResubscribeNext, HubHolds, Alive
  <1>9. CASE ResubscribeEnds
    BY <1>9 DEF ResubscribeEnds, LoopEnds, Alive
  <1>10. ASSUME NEW c \in Conns, BeginConnected(c) PROVE ListenerInv'
    BY <1>10, ConnectedKeeps DEF BeginConnected, BeginReturn
  <1>11. ASSUME NEW c \in Conns, MaintainConnected(c) PROVE ListenerInv'
    <2>1. websocket = None /\ maintain = "dialing" /\ begin = "done" /\ begin' = begin
          /\ callbacks' = callbacks /\ Connected(c)
      BY <1>11 DEF MaintainConnected
    <2>2. /\ hubTopics' \in [Conns -> SUBSET Topics] /\ maintain' # "dialing"
          /\ unsent' \in SUBSET Topics
          /\ maintain' = "resubscribing" => unsent' \subseteq callbacks
      BY <1>11 DEF MaintainConnected
    <2>. QED
      BY <2>1, <2>2, ConnectedKeeps
  <1>12. ASSUME NEW c \in Conns, ListenerCloses(c) \/ ListenerFails(c) PROVE ListenerInv'
    BY <1>12, TeardownKeeps DEF ListenerCloses, ListenerFails
  <1>13. ASSUME NEW c \in Conns, ListenerHeartbeat(c) PROVE ListenerInv'
    <2>1. CASE SendRaises
      BY <1>13, <2>1, TeardownKeeps DEF ListenerHeartbeat
    <2>2. CASE ~SendRaises
      BY <1>13, <2>2 DEF ListenerHeartbeat, HubHolds, ReplyTopics, Alive
    <2>. QED
      BY <2>1, <2>2
  <1>14. ASSUME NEW c \in Conns, ListenerPublish(c) PROVE ListenerInv'
    BY <1>14 DEF ListenerPublish, Receive, Alive
  <1>15. ASSUME NEW c \in Conns, CallbackEnds(c) PROVE ListenerInv'
    BY <1>15 DEF CallbackEnds, Alive
  <1>16. ASSUME NEW c \in Conns, HubHeartbeat(c) \/ HubGarbles(c) PROVE ListenerInv'
    BY <1>16 DEF HubHeartbeat, HubGarbles, Alive
  <1>17. ASSUME NEW c \in Conns, Lose(c) PROVE ListenerInv'
    BY <1>17 DEF Lose, Alive
  <1>18. ASSUME NEW c \in Conns, Detect(c) PROVE ListenerInv'
    BY <1>18 DEF Detect, Alive
  <1>19. ASSUME NEW t \in Topics, Subscribe(t) PROVE ListenerInv'
    BY <1>19 DEF Subscribe, Register, MayCall, HubHolds, Alive
  <1>20. ASSUME NEW t \in Topics, Unsubscribe(t) PROVE ListenerInv'
    BY <1>20 DEF Unsubscribe, Unregister, MayCall, Retract, HubHolds, Alive
  <1>21. ASSUME NEW t \in Topics, Publish(t) PROVE ListenerInv'
    BY <1>21 DEF Publish, Alive
  <1>22. CASE UNCHANGED vars
    BY <1>22 DEF vars, Alive
  <1>. QED
    BY <1>1, <1>2, <1>3, <1>4, <1>5, <1>6, <1>7, <1>8, <1>9, <1>10, <1>11, <1>12,
       <1>13, <1>14, <1>15, <1>16, <1>17, <1>18, <1>19, <1>20, <1>21, <1>22 DEF Next

\* A step keeps the hub and the callbacks together.
LEMMA MirrorStep == ~SubscribeFirst /\ MirrorInv /\ [Next]_vars => MirrorInv'
  <1> SUFFICES ASSUME ~SubscribeFirst, MirrorInv, [Next]_vars PROVE MirrorInv'
    OBVIOUS
  <1>0. ListenerInv /\ ListenerInv'
    BY ListenerStep DEF MirrorInv
  <1> DEFINE Mirror == Silent /\ Resubscribing /\ HubMirrorsCallbacks
  <1>a. Mirror
    BY DEF MirrorInv
  <1>b. SUFFICES Mirror'
    BY <1>0 DEF MirrorInv
  <1> USE NoneAssumption DEF ListenerInv, Typed, Begun, Silent, Resubscribing,
                             HubMirrorsCallbacks, net, loop
  \* The steps that touch neither the callbacks nor the hub's topics.
  <1>1. ASSUME UNCHANGED <<callbacks, websocket, maintain, unsent, link, hubTopics>>
        PROVE  Mirror'
    BY <1>a, <1>1
  \* The steps that leave the client without a connection.
  <1>2. ASSUME ConnectionClosed, UNCHANGED <<link, hubTopics>>
        PROVE  Mirror'
    BY <1>a, <1>2 DEF ConnectionClosed
  <1>3. CASE BeginDial
    BY <1>1, <1>3 DEF BeginDial
  <1>4. CASE BeginOSError
    BY <1>0, <1>a, <1>4 DEF BeginOSError, BeginReturn
  <1>5. CASE BeginRaises
    BY <1>1, <1>5 DEF BeginRaises
  <1>6. CASE MaintainDial
    BY <1>a, <1>6 DEF MaintainDial
  <1>7. CASE MaintainPingFails
    BY <1>2, <1>7 DEF MaintainPingFails
  <1>8. CASE MaintainDialFails
    BY <1>2, <1>8 DEF MaintainDialFails
  <1>9. CASE ResubscribeRaises
    BY <1>2, <1>9 DEF ResubscribeRaises
  <1>10. CASE ResubscribeNext
    BY <1>0, <1>a, <1>10 DEF ResubscribeNext, HubHolds
  <1>11. CASE ResubscribeEnds
    BY <1>0, <1>a, <1>11 DEF ResubscribeEnds, LoopEnds, LoopOver
  <1>12. ASSUME NEW c \in Conns, BeginConnected(c) PROVE Mirror'
    BY <1>0, <1>a, <1>12 DEF BeginConnected, BeginReturn, Connected
  <1>13. ASSUME NEW c \in Conns, MaintainConnected(c) PROVE Mirror'
    <2>1. CASE callbacks = {}
      BY <1>0, <1>a, <1>13, <2>1 DEF MaintainConnected, Connected
    <2>2. CASE callbacks # {}
      BY <1>0, <1>a, <1>13, <2>2 DEF MaintainConnected, Connected
    <2>. QED
      BY <2>1, <2>2
  <1>14. ASSUME NEW c \in Conns, ListenerCloses(c) \/ ListenerFails(c) PROVE Mirror'
    BY <1>2, <1>14 DEF ListenerCloses, ListenerFails
  <1>15. ASSUME NEW c \in Conns, ListenerHeartbeat(c) PROVE Mirror'
    <2>1. CASE SendRaises
      BY <1>2, <1>15, <2>1 DEF ListenerHeartbeat
    <2>2. CASE ~SendRaises
      BY <1>0, <1>a, <1>15, <2>2 DEF ListenerHeartbeat, HubHolds, ReplyTopics
    <2>. QED
      BY <2>1, <2>2
  <1>16. ASSUME NEW c \in Conns, ListenerPublish(c) PROVE Mirror'
    BY <1>1, <1>16 DEF ListenerPublish
  <1>17. ASSUME NEW c \in Conns, CallbackEnds(c) PROVE Mirror'
    BY <1>1, <1>17 DEF CallbackEnds
  <1>18. ASSUME NEW c \in Conns, HubHeartbeat(c) \/ HubGarbles(c) PROVE Mirror'
    BY <1>1, <1>18 DEF HubHeartbeat, HubGarbles
  <1>19. ASSUME NEW c \in Conns, Lose(c) PROVE Mirror'
    BY <1>0, <1>a, <1>19 DEF Lose
  <1>20. ASSUME NEW c \in Conns, Detect(c) PROVE Mirror'
    BY <1>0, <1>a, <1>20 DEF Detect
  <1>21. ASSUME NEW t \in Topics, Subscribe(t) PROVE Mirror'
    BY <1>0, <1>a, <1>21 DEF Subscribe, Register, MayCall, HubHolds
  <1>22. ASSUME NEW t \in Topics, Unsubscribe(t) PROVE Mirror'
    BY <1>0, <1>a, <1>22 DEF Unsubscribe, Unregister, MayCall, Retract, HubHolds
  <1>23. ASSUME NEW t \in Topics, Publish(t) PROVE Mirror'
    BY <1>1, <1>23 DEF Publish
  <1>24. CASE UNCHANGED vars
    BY <1>1, <1>24 DEF vars
  <1> HIDE DEF Mirror
  <1>. QED
    BY <1>3, <1>4, <1>5, <1>6, <1>7, <1>8, <1>9, <1>10, <1>11, <1>12, <1>13, <1>14, <1>15,
       <1>16, <1>17, <1>18, <1>19, <1>20, <1>21, <1>22, <1>23, <1>24 DEF Next

(***************************************************************************)
(* The rest of the types: counters, program counters and frames.           *)
(***************************************************************************)
Counters ==
  /\ IsFiniteSet(callbacks)
  /\ begin \in {"idle", "dialing", "done"}
  /\ maintain \in {"off", "idle", "dialing", "resubscribing"}
  /\ size \in Nat /\ left \in Nat
  /\ calls \in 0..MaxCalls
  /\ faults \in 0..MaxFaults
  /\ inbound \in [Conns -> Seq(HubFrames)]

LEMMA InitCounters == Init => Counters
  <1> SUFFICES ASSUME Init PROVE Counters
    OBVIOUS
  <1>1. IsFiniteSet(callbacks)
    BY FS_EmptySet DEF Init
  <1>2. inbound \in [Conns -> Seq(HubFrames)]
    BY DEF Init
  <1>. QED
    BY <1>1, <1>2, BoundsAssumption DEF Init, Counters

LEMMA CountersStep == ListenerInv /\ Counters /\ [Next]_vars => Counters'
  <1> SUFFICES ASSUME Typed, Counters, [Next]_vars PROVE Counters'
    BY DEF ListenerInv
  <1> USE BoundsAssumption DEF Typed, Counters, loop, net
  <1>1. CASE BeginDial \/ BeginOSError \/ BeginRaises
    BY <1>1 DEF BeginDial, BeginOSError, BeginRaises, BeginReturn
  <1>2. CASE MaintainDial \/ MaintainPingFails \/ MaintainDialFails
    BY <1>2 DEF MaintainDial, MaintainPingFails, MaintainDialFails
  <1>3. CASE ResubscribeRaises \/ ResubscribeNext \/ ResubscribeEnds
    <2>1. CASE ResubscribeRaises \/ ResubscribeEnds
      BY <2>1 DEF ResubscribeRaises, ResubscribeEnds, LoopEnds
    <2>2. CASE ResubscribeNext
      <3>1. unsent # {} /\ ~CallbacksChanged /\ left' = left - 1
            /\ UNCHANGED <<callbacks, begin, maintain, size, calls, faults, inbound>>
        BY <2>2 DEF ResubscribeNext
      <3>2. left # 0
        BY <3>1 DEF CallbacksChanged, LoopOver
      <3>. QED
        BY <3>1, <3>2
    <2>. QED
      BY <1>3, <2>1, <2>2
  <1>4. ASSUME NEW c \in Conns, BeginConnected(c) PROVE Counters'
    BY <1>4 DEF BeginConnected, BeginReturn, Connected
  <1>5. ASSUME NEW c \in Conns, MaintainConnected(c) PROVE Counters'
    <2>1. /\ Cardinality(callbacks) \in Nat
          /\ callbacks # {} => Cardinality(callbacks) - 1 \in Nat
      BY FS_CardinalityType, FS_EmptySet
    <2>2. UNCHANGED <<callbacks, begin, calls, faults>>
          /\ inbound' = [inbound EXCEPT ![c] = <<>>]
      BY <1>5 DEF MaintainConnected, Connected
    <2>3. /\ maintain' \in {"idle", "resubscribing"}
          /\ size' \in {size, Cardinality(callbacks)}
          /\ left' = left \/ (callbacks # {} /\ left' = Cardinality(callbacks) - 1)
      BY <1>5 DEF MaintainConnected
    <2>4. inbound' \in [Conns -> Seq(HubFrames)]
      BY <2>2
    <2>. QED
      BY <2>1, <2>2, <2>3, <2>4
  <1>6. ASSUME NEW c \in Conns, ListenerCloses(c) \/ CallbackEnds(c) PROVE Counters'
    BY <1>6 DEF ListenerCloses, CallbackEnds
  <1>7. ASSUME NEW c \in Conns,
               ListenerHeartbeat(c) \/ ListenerPublish(c) \/ ListenerFails(c)
        PROVE  Counters'
    <2>1. \E d \in Conns : inbound[d] # <<>> /\ inbound' = [inbound EXCEPT ![d] = Tail(@)]
      BY <1>7 DEF ListenerHeartbeat, ListenerPublish, ListenerFails, Receive
    <2>2. inbound' \in [Conns -> Seq(HubFrames)]
      BY <2>1
    <2>3. UNCHANGED <<callbacks, begin, loop, calls, faults>>
      BY <1>7 DEF ListenerHeartbeat, ListenerPublish, ListenerFails
    <2>. QED
      BY <2>2, <2>3
  <1>8. ASSUME NEW c \in Conns, HubHeartbeat(c) \/ HubGarbles(c) PROVE Counters'
    BY <1>8 DEF HubHeartbeat, HubGarbles, HubSends, HubFrames
  <1>9. ASSUME NEW c \in Conns, Lose(c) \/ Detect(c) PROVE Counters'
    BY <1>9 DEF Lose, Detect
  <1>10. ASSUME NEW t \in Topics, Subscribe(t) PROVE Counters'
    <2>1. IsFiniteSet(callbacks')
      BY <1>10, FS_AddElement DEF Subscribe, Register
    <2>. QED
      BY <1>10, <2>1 DEF Subscribe, Register, MayCall
  <1>11. ASSUME NEW t \in Topics, Unsubscribe(t) PROVE Counters'
    <2>1. IsFiniteSet(callbacks')
      BY <1>11, FS_RemoveElement DEF Unsubscribe, Unregister
    <2>. QED
      BY <1>11, <2>1 DEF Unsubscribe, Unregister, MayCall
  <1>12. ASSUME NEW t \in Topics, Publish(t) PROVE Counters'
    BY <1>12 DEF Publish, HubSends, HubFrames
  <1>13. CASE UNCHANGED vars
    BY <1>13 DEF vars
  <1>. QED
    BY <1>1, <1>2, <1>3, <1>4, <1>5, <1>6, <1>7, <1>8, <1>9, <1>10, <1>11, <1>12,
       <1>13 DEF Next

(***************************************************************************)
(* The refinement.                                                         *)
(***************************************************************************)
LEMMA InitSession == Init => S!Init
  BY NoneAssumption DEF Init, S!Init, InUse

\* The steps that are no step of the session leave this in place.
Unseen == UNCHANGED <<callbacks, InUse, IF InUse THEN hubTopics[websocket] ELSE {}>>

\* Every step is a step of the session or changes nothing in it.
LEMMA NextSession ==
  ~SubscribeFirst /\ MirrorInv /\ MirrorInv' /\ [Next]_vars => [S!Next]_(S!vars)
  <1> SUFFICES ASSUME ~SubscribeFirst, MirrorInv, MirrorInv', [Next]_vars
               PROVE  S!Next \/ Unseen
    BY DEF S!vars, Unseen
  <1>0. ListenerInv /\ Typed /\ Typed' /\ Begun /\ OneListener
        /\ HubMirrorsCallbacks /\ HubMirrorsCallbacks'
    BY DEF MirrorInv, ListenerInv
  <1> USE NoneAssumption DEF Typed, InUse, net, loop
  \* A step that leaves the callbacks alone is seen only as a connection that comes
  \* into use or goes, because the hub mirrors them before and after.
  <1>1. ASSUME UNCHANGED callbacks, websocket' = websocket \/ ~InUse \/ ~InUse'
        PROVE  S!Next \/ Unseen
    <2>1. InUse  => hubTopics[websocket] = callbacks
      BY <1>0 DEF HubMirrorsCallbacks
    <2>2. InUse' => hubTopics'[websocket'] = callbacks'
      BY <1>0 DEF HubMirrorsCallbacks
    <2>3. CASE InUse /\ ~InUse'
      BY <1>1, <2>3 DEF S!Next, S!Close
    <2>4. CASE ~InUse /\ InUse'
      BY <1>1, <2>2, <2>4 DEF S!Next, S!Open
    <2>5. CASE InUse <=> InUse'
      BY <1>1, <2>1, <2>2, <2>5 DEF Unseen
    <2>. QED
      BY <2>3, <2>4, <2>5
  <1>2. ASSUME NEW t \in Topics, Subscribe(t) PROVE S!Next
    BY <1>0, <1>2 DEF Subscribe, Register, MayCall, HubHolds, S!Next, S!Want
  <1>3. ASSUME NEW t \in Topics, Unsubscribe(t) PROVE S!Next
    BY <1>0, <1>3 DEF Unsubscribe, Unregister, MayCall, Retract, HubHolds, S!Next, S!Drop
  <1>4. ASSUME NEW c \in Conns, Connected(c), websocket = None PROVE ~InUse
    BY <1>4
  <1>5. ASSUME ConnectionClosed PROVE ~InUse'
    BY <1>5 DEF ConnectionClosed
  <1>6. CASE BeginDial \/ BeginOSError \/ BeginRaises
    BY <1>1, <1>6 DEF BeginDial, BeginOSError, BeginRaises, BeginReturn
  <1>7. CASE MaintainDial \/ ResubscribeNext \/ ResubscribeEnds
    BY <1>1, <1>7 DEF MaintainDial, ResubscribeNext, ResubscribeEnds
  <1>8. CASE MaintainPingFails \/ MaintainDialFails \/ ResubscribeRaises
    BY <1>1, <1>5, <1>8 DEF MaintainPingFails, MaintainDialFails, ResubscribeRaises
  <1>9. ASSUME NEW c \in Conns, BeginConnected(c) \/ MaintainConnected(c)
        PROVE  S!Next \/ Unseen
    <2>1. websocket = None /\ UNCHANGED callbacks
      BY <1>0, <1>9 DEF BeginConnected, BeginReturn, MaintainConnected, Begun
    <2>. QED
      BY <1>1, <2>1
  <1>10. ASSUME NEW c \in Conns,
                ListenerCloses(c) \/ ListenerFails(c) \/ ListenerHeartbeat(c)
         PROVE  S!Next \/ Unseen
    BY <1>1, <1>5, <1>10 DEF ListenerCloses, ListenerFails, ListenerHeartbeat
  <1>11. ASSUME NEW c \in Conns,
                \/ ListenerPublish(c) \/ CallbackEnds(c) \/ HubHeartbeat(c)
                \/ HubGarbles(c) \/ Lose(c) \/ Detect(c)
         PROVE  S!Next \/ Unseen
    BY <1>1, <1>11 DEF ListenerPublish, CallbackEnds, HubHeartbeat, HubGarbles, Lose, Detect
  <1>12. ASSUME NEW t \in Topics, Publish(t) PROVE S!Next \/ Unseen
    BY <1>1, <1>12 DEF Publish
  <1>13. CASE UNCHANGED vars
    BY <1>1, <1>13 DEF vars
  <1>. QED
    BY <1>2, <1>3, <1>6, <1>7, <1>8, <1>9, <1>10, <1>11, <1>12, <1>13 DEF Next

(***************************************************************************)
(* The theorems.                                                           *)
(***************************************************************************)

\* Every variable keeps its type: the loop over the callbacks, for one, never sends
\* more topics than it expected.
THEOREM TypeCorrect == Spec => []TypeOK
  <1>1. Init => ListenerInv
    BY InitInv DEF MirrorInv
  <1>2. ListenerInv /\ Counters => TypeOK
    BY DEF ListenerInv, Typed, OneListener, Counters, TypeOK
  <1>. QED
    BY <1>1, <1>2, InitCounters, ListenerStep, CountersStep, PTL DEF Spec

\* In every reachable state the one listener that runs is the one of the
\* connection, and the client is connected when it has one.
THEOREM SoleListener == Spec => []OneListener
  <1>1. Init => ListenerInv
    BY InitInv DEF MirrorInv
  <1>2. ListenerInv => OneListener
    BY DEF ListenerInv
  <1>. QED
    BY <1>1, <1>2, ListenerStep, PTL DEF Spec

\* An application that subscribes after begin() and is not in the middle of a
\* reconnection has exactly its topics held by the hub.
THEOREM HubMirrors == Spec => []HubMirrorsCallbacks
  <1>1. CASE SubscribeFirst
    <2>1. HubMirrorsCallbacks
      BY <1>1 DEF HubMirrorsCallbacks
    <2>. QED
      BY <2>1, PTL
  <1>2. CASE ~SubscribeFirst
    <2>1. MirrorInv /\ [Next]_vars => MirrorInv'
      BY <1>2, MirrorStep
    <2>2. MirrorInv => HubMirrorsCallbacks
      BY DEF MirrorInv
    <2>. QED
      BY InitInv, <2>1, <2>2, PTL DEF Spec
  <1>. QED
    BY <1>1, <1>2

Framed == inbound \in [Conns -> Seq(HubFrames)]

\* A connection that is not closed is given up by a step only when that step is a
\* loop over the callbacks that finds them changed, or reads a frame that does not
\* decode.
Abandons ==
  \A c \in Conns :
    websocket = c /\ websocket' # c /\ link[c] # "closed" =>
      \/ maintain = "resubscribing" /\ CallbacksChanged /\ maintain' = "idle"
      \/ inbound[c] = <<Garbled>> \o inbound'[c]

LEMMA AbandonStep == ListenerInv /\ Framed /\ [Next]_vars => [Abandons]_vars
  <1> SUFFICES ASSUME ListenerInv, Framed, Next PROVE Abandons
    BY DEF vars
  <1> USE NoneAssumption DEF Abandons, SendRaises, ListenerInv, Begun, OneListener
  <1>1. CASE BeginDial \/ BeginOSError \/ BeginRaises
    BY <1>1 DEF BeginDial, BeginOSError, BeginRaises
  <1>2. CASE MaintainDial \/ MaintainDialFails \/ MaintainPingFails
    BY <1>2 DEF MaintainDial, MaintainDialFails, MaintainPingFails
  <1>3. CASE ResubscribeRaises \/ ResubscribeNext \/ ResubscribeEnds
    BY <1>3 DEF ResubscribeRaises, ResubscribeNext, ResubscribeEnds, LoopEnds
  <1>4. ASSUME NEW c \in Conns, BeginConnected(c) \/ MaintainConnected(c)
        PROVE  Abandons
    BY <1>4 DEF BeginConnected, MaintainConnected
  <1>5. ASSUME NEW c \in Conns, ListenerCloses(c) \/ ListenerHeartbeat(c)
        PROVE  Abandons
    BY <1>5 DEF ListenerCloses, ListenerHeartbeat
  <1>6. ASSUME NEW c \in Conns,
               \/ ListenerPublish(c) \/ CallbackEnds(c) \/ HubHeartbeat(c)
               \/ HubGarbles(c) \/ Lose(c) \/ Detect(c)
        PROVE  Abandons
    BY <1>6 DEF ListenerPublish, CallbackEnds, HubHeartbeat, HubGarbles, Lose, Detect
  <1>7. ASSUME NEW t \in Topics, Subscribe(t) \/ Unsubscribe(t) \/ Publish(t)
        PROVE  Abandons
    BY <1>7 DEF Subscribe, Unsubscribe, Publish
  <1>8. ASSUME NEW d \in Conns, ListenerFails(d) PROVE Abandons
    <2>1. /\ websocket \in Conns /\ inbound[websocket] # <<>>
          /\ Head(inbound[websocket]) = Garbled
          /\ inbound' = [inbound EXCEPT ![websocket] = Tail(@)]
      BY <1>8 DEF ListenerFails, Receive, Typed
    <2>2. inbound \in [Conns -> Seq(HubFrames)]
      BY DEF Framed
    <2>3. inbound[websocket] = <<Garbled>> \o inbound'[websocket]
      <3>1. inbound[websocket] \in Seq(HubFrames)
            /\ inbound'[websocket] = Tail(inbound[websocket])
        BY <2>1, <2>2
      <3> DEFINE q == inbound[websocket]
      <3>2. q = <<Head(q)>> \o Tail(q)
        <4> HIDE DEF q
        <4>. QED
          BY <2>1, <3>1 DEF q
      <3>. QED
        BY <2>1, <3>1, <3>2
    <2>. QED
      BY <2>3
  <1>. QED
    BY <1>1, <1>2, <1>3, <1>4, <1>5, <1>6, <1>7, <1>8 DEF Next

\* However many topics and connections: a live connection is given up by the loop over
\* the callbacks that finds them changed, by the listener that reads a frame that does
\* not decode, and by nothing else.
THEOREM LiveConnectionsKept == Spec => AbandonsForCause
  <1>1. Init => ListenerInv
    BY InitInv DEF MirrorInv
  <1>2. Counters => Framed
    BY DEF Counters, Framed
  <1>. QED
    BY <1>1, <1>2, InitCounters, ListenerStep, CountersStep, AbandonStep, PTL
    DEF Spec, AbandonsForCause, Abandons

\* For an application that subscribes after begin() the client implements a session.
THEOREM Implements == ~SubscribeFirst => (Spec => ImplementsSession)
  <1> SUFFICES ASSUME ~SubscribeFirst PROVE Spec => ImplementsSession
    OBVIOUS
  <1>1. MirrorInv /\ [Next]_vars => MirrorInv'
    BY MirrorStep
  <1>2. MirrorInv /\ MirrorInv' /\ [Next]_vars => [S!Next]_(S!vars)
    BY NextSession
  <1>. QED
    BY <1>1, <1>2, InitInv, InitSession, PTL DEF Spec, ImplementsSession, S!Spec
=============================================================================
