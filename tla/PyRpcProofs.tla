---------------------------- MODULE PyRpcProofs ----------------------------
(***************************************************************************)
(* Proofs about PyRpc for every set of topics, calls and connections, on   *)
(* top of what PyClientProofs shows of the client's own steps.             *)
(*                                                                         *)
(* That a call inside a callback is never answered needs that its listener *)
(* is either still in the callback or gone with its connection (Insides),  *)
(* and that frames are answers to requests that went out (Frames).         *)
(***************************************************************************)
EXTENDS PyRpc, PyClientProofs

\* The types of the calls, and what is there at each step of rpc_caller.
CallInv ==
  /\ RpcTypeOK
  /\ \A k \in Calls :
       /\ at[k] \in {"idle", "subscribe"} => future[k] = None /\ k \notin asked
       /\ result[k] = "raised" => k \notin asked

\* The listener of a call under way is in its callback, or was cancelled when the
\* connection went and no other has been made since.
Insides ==
  \A k \in Calls :
    Open(k) /\ within[k] # None =>
      listener[within[k]] = "callback" \/ (websocket = None /\ listener[within[k]] = "none")

\* A response on its way to the client is one of those given to a request.
Frames ==
  /\ inbound \in [Conns -> Seq(HubFrames)]
  /\ \A c \in Conns : \A i \in 1..Len(inbound[c]) :
       inbound[c][i] \in Calls =>
         inbound[c][i] \in asked /\ answers[inbound[c][i]] > 0

\* The callbacks and the hub's topics of the calls, in the loop and outside it.
Kept ==
  /\ \A c \in Conns : link[c] # "up" => hubTopics[c] = {}
  /\ \A k \in Calls :
       /\ Open(k) => k \in callbacks /\ begin = "done"
       /\ Open(k) /\ websocket # None /\ link[websocket] = "up" =>
            k \in hubTopics[websocket] \/ (maintain = "resubscribing" /\ k \in unsent)
       /\ result[k] \notin {None, "raised"} =>
            k \notin callbacks /\ (websocket # None => k \notin hubTopics[websocket])

RpcInv == ListenerInv /\ CallInv /\ Insides /\ Frames /\ Kept /\ NoAnswerInside

LEMMA InitRpc == RpcInit => RpcInv
  <1> SUFFICES ASSUME RpcInit PROVE RpcInv
    OBVIOUS
  <1>1. ListenerInv
    BY InitInv DEF RpcInit, MirrorInv
  <1>2. CallInv /\ Insides /\ NoAnswerInside
    BY AnswersAssumption
    DEF RpcInit, CallInv, Insides, NoAnswerInside, RpcTypeOK, Inside, Open, Outcomes, Results
  <1>3. Frames
    BY DEF RpcInit, Init, Frames
  <1>4. Kept
    BY DEF RpcInit, Init, Kept, Open
  <1>. QED
    BY <1>1, <1>2, <1>3, <1>4 DEF RpcInv

(***************************************************************************)
(* The client's own steps.                                                 *)
(***************************************************************************)
\* Every one of them is a step of PyClient.
OwnStep ==
  \/ ClientStep
  \/ \E c \in Conns : Dialed(c) \/ ListenerMessage(c) \/ CallbackReturns(c)

LEMMA OwnIsNext == OwnStep => Next
  BY CallsAssumption DEF OwnStep, ClientStep, Dialed, ListenerMessage, CallbackReturns, Next

\* A listener leaves its callback only when no call is under way in it, or with its
\* connection, and no connection is made while a cancelled call has still to end.
LEMMA OwnInsides ==
  RpcInv /\ Alone(OwnStep) => Insides'
  <1> SUFFICES ASSUME RpcInv, Alone(OwnStep), NEW k \in Calls,
                      Open(k)', within'[k] # None
               PROVE  \/ listener'[within'[k]] = "callback"
                      \/ websocket' = None /\ listener'[within'[k]] = "none"
    BY DEF Insides
  <1> DEFINE w == within[k]
  <1>1. /\ Open(k) /\ w # None /\ w \in Conns /\ within' = within
        /\ listener[w] = "callback" \/ (websocket = None /\ listener[w] = "none")
    BY DEF RpcInv, CallInv, RpcTypeOK, Insides, Alone, rpcVars, Open
  <1>2. ListenerInv
    BY DEF RpcInv
  <1> HIDE DEF w
  <1> USE <1>1 DEF net, loop
  <1>3. ASSUME ConnectionClosed PROVE websocket' = None /\ listener'[w] = "none"
    BY <1>2, <1>3 DEF ConnectionClosed, Cancel, Alive, ListenerInv, Typed, Listeners
  <1>4. ASSUME UNCHANGED <<websocket, listener>>
        PROVE  listener'[w] = "callback" \/ (websocket' = None /\ listener'[w] = "none")
    BY <1>4
  <1>5. ASSUME ClientStep
        PROVE  listener'[w] = "callback" \/ (websocket' = None /\ listener'[w] = "none")
    <2>1. CASE BeginDial \/ BeginOSError \/ BeginRaises \/ MaintainDial
      BY <1>4, <2>1 DEF BeginDial, BeginOSError, BeginRaises, MaintainDial
    <2>2. CASE MaintainPingFails \/ MaintainDialFails \/ ResubscribeRaises
      BY <1>3, <2>2 DEF MaintainPingFails, MaintainDialFails, ResubscribeRaises
    <2>3. CASE ResubscribeNext \/ ResubscribeEnds
      BY <1>4, <2>3 DEF ResubscribeNext, ResubscribeEnds
    <2>4. ASSUME NEW c \in Conns,
                 ListenerCloses(c) \/ ListenerFails(c) \/ ListenerHeartbeat(c)
          PROVE  listener'[w] = "callback" \/ (websocket' = None /\ listener'[w] = "none")
      BY <1>3, <1>4, <2>4 DEF ListenerCloses, ListenerFails, ListenerHeartbeat
    <2>5. ASSUME NEW c \in Conns, HubHeartbeat(c) \/ HubGarbles(c) \/ Lose(c) \/ Detect(c)
          PROVE  listener'[w] = "callback" \/ (websocket' = None /\ listener'[w] = "none")
      BY <1>4, <2>5 DEF HubHeartbeat, HubGarbles, Lose, Detect
    <2>6. ASSUME NEW t \in Topics, Subscribe(t) \/ Unsubscribe(t) \/ Publish(t)
          PROVE  listener'[w] = "callback" \/ (websocket' = None /\ listener'[w] = "none")
      BY <1>4, <2>6 DEF Subscribe, Unsubscribe, Publish
    <2>. QED
      BY <1>5, <2>1, <2>2, <2>3, <2>4, <2>5, <2>6 DEF ClientStep
  <1>6. ASSUME NEW c \in Conns, Dialed(c) PROVE listener'[w] = "callback"
    <2>1. Cancelled = {} /\ listener' = [listener EXCEPT ![c] = "recv"] /\ websocket = None
      BY <1>2, <1>6 DEF Dialed, BeginConnected, MaintainConnected, Connected, ListenerInv,
                        Begun
    <2>2. Alive = {}
      BY <1>2, <2>1 DEF ListenerInv, OneListener
    <2>3. k \in Cancelled
      BY <2>2 DEF Cancelled
    <2>. QED
      BY <2>1, <2>3
  <1>7. ASSUME NEW c \in Conns, ListenerMessage(c)
        PROVE  listener'[w] = "callback" \/ (websocket' = None /\ listener'[w] = "none")
    <2>1. /\ listener[c] = "recv" /\ websocket # None /\ websocket' = websocket
          /\ \E x : listener' = [listener EXCEPT ![c] = x]
      BY <1>7 DEF ListenerMessage, ListenerPublish, Receive
    <2>. QED
      BY <1>2, <2>1 DEF ListenerInv, Typed
  <1>8. ASSUME NEW c \in Conns, CallbackReturns(c)
        PROVE  listener'[w] = "callback" \/ (websocket' = None /\ listener'[w] = "none")
    <2>1. /\ Inside(c) = {} /\ listener' = [listener EXCEPT ![c] = "recv"]
          /\ websocket' = websocket
      BY <1>8 DEF CallbackReturns, CallbackEnds
    <2>2. w # c
      BY <2>1 DEF Inside, w
    <2>. QED
      BY <1>2, <2>1, <2>2 DEF ListenerInv, Typed
  <1>. QED
    BY <1>1, <1>5, <1>6, <1>7, <1>8 DEF w, Alone, OwnStep

\* What the hub sends of its own accord is no response.
LEMMA OwnFrames ==
  RpcInv /\ Alone(OwnStep) => Frames'
  <1> SUFFICES ASSUME RpcInv, Alone(OwnStep) PROVE Frames'
    OBVIOUS
  <1>1. /\ ListenerInv /\ Frames /\ asked' = asked /\ answers' = answers
        /\ inbound \in [Conns -> Seq(HubFrames)]
    BY DEF RpcInv, Alone, rpcVars, Frames
  <1> USE DEF net, loop
  \* What is left of the frames, and frames with one more.
  <1>2. ASSUME UNCHANGED inbound PROVE Frames'
    BY <1>1, <1>2 DEF Frames
  <1>3. ASSUME NEW c \in Conns, inbound[c] # <<>>,
               inbound' = [inbound EXCEPT ![c] = Tail(@)]
        PROVE  Frames'
    BY <1>1, <1>3 DEF Frames
  <1>4. ASSUME NEW c \in Conns, inbound' = [inbound EXCEPT ![c] = <<>>] PROVE Frames'
    BY <1>1, <1>4 DEF Frames
  <1>5. ASSUME NEW f \in (Topics \ Calls) \cup {Heartbeat, Garbled}, NEW T, HubSends(f, T)
        PROVE  Frames'
    <2>1. f \notin Calls /\ f \in HubFrames
      BY CallsAssumption, FrameAssumption DEF HubFrames
    <2>2. \A c \in Conns : \/ inbound'[c] = inbound[c]
                           \/ inbound'[c] = Append(inbound[c], f)
      BY <1>5 DEF HubSends
    <2>3. inbound' \in [Conns -> Seq(HubFrames)]
      BY <1>1, <1>5, <2>1 DEF HubSends
    <2>4. ASSUME NEW c \in Conns, NEW i \in 1..Len(inbound'[c]), inbound'[c][i] \in Calls
          PROVE  inbound'[c][i] \in asked /\ answers[inbound'[c][i]] > 0
      <3>1. CASE inbound'[c] = inbound[c]
        BY <1>1, <2>4, <3>1 DEF Frames
      <3>2. CASE inbound'[c] = Append(inbound[c], f)
        <4>1. inbound[c] \in Seq(HubFrames)
          BY <1>1
        <4>2. i \in 1..Len(inbound[c]) /\ inbound'[c][i] = inbound[c][i]
          BY <2>1, <2>4, <3>2, <4>1
        <4>. QED
          BY <1>1, <2>4, <4>2 DEF Frames
      <3>. QED
        BY <2>2, <3>1, <3>2
    <2>. QED
      BY <1>1, <2>3, <2>4 DEF Frames
  <1>6. ASSUME ClientStep PROVE Frames'
    <2>1. CASE BeginDial \/ BeginOSError \/ BeginRaises \/ MaintainDial
      BY <1>2, <2>1 DEF BeginDial, BeginOSError, BeginRaises, MaintainDial
    <2>2. CASE MaintainPingFails \/ MaintainDialFails \/ ResubscribeRaises
      BY <1>2, <2>2 DEF MaintainPingFails, MaintainDialFails, ResubscribeRaises
    <2>3. CASE ResubscribeNext \/ ResubscribeEnds
      BY <1>2, <2>3 DEF ResubscribeNext, ResubscribeEnds
    <2>4. ASSUME NEW c \in Conns, ListenerCloses(c) \/ Lose(c) \/ Detect(c) PROVE Frames'
      BY <1>2, <2>4 DEF ListenerCloses, Lose, Detect
    <2>5. ASSUME NEW c \in Conns, ListenerHeartbeat(c) \/ ListenerFails(c) PROVE Frames'
      BY <1>1, <1>3, <2>5 DEF ListenerHeartbeat, ListenerFails, Receive, ListenerInv, Typed
    <2>6. ASSUME NEW c \in Conns, HubHeartbeat(c) \/ HubGarbles(c) PROVE Frames'
      BY <1>5, <2>6 DEF HubHeartbeat, HubGarbles
    <2>7. ASSUME NEW t \in Topics \ Calls, Subscribe(t) \/ Unsubscribe(t) PROVE Frames'
      BY <1>2, <2>7 DEF Subscribe, Unsubscribe
    <2>8. ASSUME NEW t \in Topics \ Calls, Publish(t) PROVE Frames'
      BY <1>5, <2>8 DEF Publish
    <2>. QED
      BY <1>6, <2>1, <2>2, <2>3, <2>4, <2>5, <2>6, <2>7, <2>8 DEF ClientStep
  <1>7. ASSUME NEW c \in Conns, Dialed(c) PROVE Frames'
    BY <1>4, <1>7 DEF Dialed, BeginConnected, MaintainConnected, Connected
  <1>8. ASSUME NEW c \in Conns, ListenerMessage(c) PROVE Frames'
    BY <1>1, <1>3, <1>8 DEF ListenerMessage, ListenerPublish, Receive, ListenerInv, Typed
  <1>9. ASSUME NEW c \in Conns, CallbackReturns(c) PROVE Frames'
    BY <1>2, <1>9 DEF CallbackReturns, CallbackEnds
  <1>. QED
    BY <1>6, <1>7, <1>8, <1>9 DEF Alone, OwnStep

\* The client's steps neither add the callback of a call nor take it, and a
\* reconnection sends the topics of the calls that are under way.
LEMMA OwnKept ==
  RpcInv /\ Alone(OwnStep) => Kept'
  <1> SUFFICES ASSUME RpcInv, Alone(OwnStep) PROVE Kept'
    OBVIOUS
  <1>1. Kept /\ ListenerInv /\ Typed /\ UNCHANGED <<at, result>>
    BY DEF RpcInv, ListenerInv, Alone, rpcVars
  <1> USE <1>1 DEF Kept, Open, Typed, net, loop
  <1>2. ASSUME UNCHANGED <<callbacks, websocket, maintain, unsent, link, hubTopics, begin>>
        PROVE  Kept'
    BY <1>2
  <1>3. ASSUME ConnectionClosed, UNCHANGED <<callbacks, link, hubTopics, begin>> PROVE Kept'
    BY <1>3 DEF ConnectionClosed
  <1>4. ASSUME ClientStep PROVE Kept'
    <2>1. CASE BeginDial \/ BeginRaises
      BY <2>1 DEF BeginDial, BeginRaises
    <2>2. CASE BeginOSError \/ MaintainDial
      BY <2>2 DEF BeginOSError, BeginReturn, MaintainDial, ListenerInv, Begun
    <2>3. CASE MaintainPingFails \/ MaintainDialFails \/ ResubscribeRaises
      BY <1>3, <2>3 DEF MaintainPingFails, MaintainDialFails, ResubscribeRaises
    <2>4. CASE ResubscribeNext
      BY <2>4 DEF ResubscribeNext, HubHolds, ListenerInv, Begun
    <2>5. CASE ResubscribeEnds
      BY <2>5, CallsAssumption DEF ResubscribeEnds, LoopEnds, LoopOver
    <2>6. ASSUME NEW c \in Conns, ListenerCloses(c) \/ ListenerFails(c) PROVE Kept'
      BY <1>3, <2>6 DEF ListenerCloses, ListenerFails
    <2>7. ASSUME NEW c \in Conns, ListenerHeartbeat(c) PROVE Kept'
      <3>1. CASE SendRaises
        BY <1>3, <2>7, <3>1 DEF ListenerHeartbeat
      <3>2. CASE ~SendRaises
        BY <2>7, <3>2 DEF ListenerHeartbeat, HubHolds, ReplyTopics
      <3>. QED
        BY <3>1, <3>2
    <2>8. ASSUME NEW c \in Conns, HubHeartbeat(c) \/ HubGarbles(c) \/ Lose(c) \/ Detect(c)
          PROVE  Kept'
      BY <2>8 DEF HubHeartbeat, HubGarbles, Lose, Detect, Links
    <2>9. ASSUME NEW t \in Topics \ Calls, Subscribe(t) PROVE Kept'
      BY <2>9 DEF Subscribe, Register, MayCall, HubHolds
    <2>10. ASSUME NEW t \in Topics \ Calls, Unsubscribe(t) PROVE Kept'
      BY <2>10 DEF Unsubscribe, Unregister, MayCall, Retract, HubHolds
    <2>11. ASSUME NEW t \in Topics \ Calls, Publish(t) PROVE Kept'
      BY <1>2, <2>11 DEF Publish
    <2>. QED
      BY <1>4, <2>1, <2>2, <2>3, <2>4, <2>5, <2>6, <2>7, <2>8, <2>9, <2>10, <2>11
      DEF ClientStep
  <1>5. ASSUME NEW c \in Conns, BeginConnected(c) PROVE Kept'
    BY <1>5 DEF BeginConnected, BeginReturn, Connected
  <1>6. ASSUME NEW c \in Conns, MaintainConnected(c) PROVE Kept'
    <2>1. CASE callbacks = {}
      BY <1>6, <2>1 DEF MaintainConnected, Connected
    <2>2. CASE callbacks # {}
      BY <1>6, <2>2 DEF MaintainConnected, Connected
    <2>. QED
      BY <2>1, <2>2
  <1>7. ASSUME NEW c \in Conns, ListenerMessage(c) PROVE Kept'
    BY <1>2, <1>7 DEF ListenerMessage, ListenerPublish
  <1>8. ASSUME NEW c \in Conns, CallbackReturns(c) PROVE Kept'
    BY <1>2, <1>8 DEF CallbackReturns, CallbackEnds
  <1>. QED
    BY <1>4, <1>5, <1>6, <1>7, <1>8 DEF Alone, OwnStep, Dialed

LEMMA OwnKeeps == RpcInv /\ Alone(OwnStep) => RpcInv'
  <1> SUFFICES ASSUME RpcInv, Alone(OwnStep) PROVE RpcInv'
    OBVIOUS
  <1>1. ListenerInv'
    BY OwnIsNext, ListenerStep DEF RpcInv, Alone
  <1>2. CallInv' /\ NoAnswerInside'
    BY DEF RpcInv, CallInv, NoAnswerInside, RpcTypeOK, Inside, Open, Alone, rpcVars
  <1>. QED
    BY <1>1, <1>2, OwnInsides, OwnFrames, OwnKept DEF RpcInv

(***************************************************************************)
(* The steps of the calls.                                                 *)
(***************************************************************************)
LEMMA CallKeeps ==
  ASSUME RpcInv, NEW k \in Calls, NEW w \in Conns \cup {None}, Call(k, w)
  PROVE  RpcInv'
  <1> USE NoneAssumption, CallsAssumption, ResultsAssumption DEF RpcInv, loop, net
  <1>1. /\ at[k] = "idle" /\ within' = [within EXCEPT ![k] = w]
        /\ w # None => listener[w] = "callback" /\ Inside(w) = {}
        /\ UNCHANGED <<connected, websocket, listener, begin, maintain, link, inbound,
                       future, asked, answers>>
    BY DEF Call, Subscribes, Register
  <1>2. \/ /\ connected /\ callbacks' = callbacks \cup {k}
           /\ unsent' = IF maintain = "resubscribing" THEN unsent \cup ({k} \ callbacks)
                                                      ELSE unsent
           /\ HubHolds(hubTopics[websocket] \cup {k})
           /\ \/ End(k, "raised")
              \/ Goes(k, "subscribe", websocket) /\ UNCHANGED result
        \/ End(k, "raised") /\ UNCHANGED <<callbacks, unsent, hubTopics>>
    BY DEF Call, Subscribes, Register
  <1>3. ListenerInv'
    BY <1>1, <1>2 DEF ListenerInv, Typed, OneListener, Begun, HubHolds, Alive
  <1>4. \/ /\ at' = [at EXCEPT ![k] = "subscribe"] /\ UNCHANGED result
           /\ websocket \in Conns /\ sending' = [sending EXCEPT ![k] = websocket]
        \/ /\ at' = [at EXCEPT ![k] = "done"] /\ sending' = [sending EXCEPT ![k] = None]
           /\ result' = [result EXCEPT ![k] = "raised"]
    BY <1>2 DEF End, Goes, ListenerInv, Typed, OneListener
  <1>5. CallInv'
    <2>1. at' \in [Calls -> {"idle", "subscribe", "publish", "waiting", "done"}]
          /\ sending' \in [Calls -> Conns \cup {None}]
          /\ result' \in [Calls -> Results \cup {None}]
          /\ within' \in [Calls -> Conns \cup {None}]
      BY <1>1, <1>4 DEF CallInv, RpcTypeOK, End, Results
    <2>2. \A l \in Calls :
            /\ at'[l] = "done" <=> result'[l] # None
            /\ at'[l] \in {"subscribe", "publish"} <=> sending'[l] # None
      BY <1>1, <1>4 DEF CallInv, RpcTypeOK, End
    <2>3. ASSUME NEW c \in Conns, NEW l \in Inside(c)', NEW m \in Inside(c)'
          PROVE  l = m
      <3>1. \A x \in Calls : x # k => at'[x] = at[x] /\ within'[x] = within[x]
        BY <1>1, <1>4 DEF CallInv, RpcTypeOK, End
      <3>2. within'[k] = w /\ (w = c => Inside(c) = {})
        BY <1>1 DEF CallInv, RpcTypeOK
      <3>3. l \in Calls /\ m \in Calls
        BY DEF Inside
      <3>4. CASE l # k /\ m # k
        BY <3>1, <3>3, <3>4 DEF Inside, Open, CallInv, RpcTypeOK
      <3>5. CASE l = k /\ m # k
        BY <3>1, <3>2, <3>3, <3>5 DEF Inside, Open
      <3>6. CASE l # k /\ m = k
        BY <3>1, <3>2, <3>3, <3>6 DEF Inside, Open
      <3>. QED
        BY <3>4, <3>5, <3>6
    <2>4. \A l \in Calls :
            /\ at'[l] \in {"idle", "subscribe"} => future[l] = None /\ l \notin asked
            /\ result'[l] = "raised" => l \notin asked
      BY <1>1, <1>4 DEF CallInv, RpcTypeOK, End
    <2>. QED
      BY <1>1, <2>1, <2>2, <2>3, <2>4 DEF CallInv, RpcTypeOK
  <1>6. Insides'
    BY <1>1, <1>4 DEF Insides, Open, End, CallInv, RpcTypeOK
  <1>7. Frames'
    BY <1>1 DEF Frames
  <1>8. NoAnswerInside'
    BY <1>1, <1>4 DEF NoAnswerInside, Outcomes, End, CallInv, RpcTypeOK
  <1>9. Kept'
    <2>1. CASE End(k, "raised") /\ UNCHANGED <<callbacks, unsent, hubTopics>>
      BY <1>1, <2>1 DEF Kept, Open, End, Goes, CallInv, RpcTypeOK
    <2>2. CASE /\ connected /\ callbacks' = callbacks \cup {k}
               /\ maintain = "resubscribing" => unsent \subseteq unsent'
               /\ HubHolds(hubTopics[websocket] \cup {k})
      <3>1. websocket \in Conns /\ begin = "done"
        BY <2>2 DEF ListenerInv, Typed, OneListener, Begun
      <3>2. \A l \in Calls : l # k => at'[l] = at[l] /\ result'[l] = result[l]
        BY <1>4 DEF End, CallInv, RpcTypeOK
      <3>3. result'[k] \in {None, "raised"}
        BY <1>1, <1>4 DEF End, CallInv, RpcTypeOK
      <3>4. /\ link[websocket] # "up" => hubTopics' = hubTopics
            /\ link[websocket] = "up" =>
                 hubTopics' = [hubTopics EXCEPT ![websocket] = @ \cup {k}]
        BY <2>2, <3>1 DEF HubHolds
      <3>. QED
        BY <1>1, <2>2, <3>1, <3>2, <3>3, <3>4 DEF Kept, Open, ListenerInv, Typed
    <2>. QED
      BY <1>2, <2>1, <2>2
  <1>. QED
    BY <1>3, <1>5, <1>6, <1>7, <1>8, <1>9

\* A call goes on from one await to the next.
LEMMA MoveKeeps ==
  ASSUME RpcInv, NEW k \in Calls, CallPublish(k) \/ CallWait(k)
  PROVE  RpcInv'
  <1> USE DEF RpcInv
  <1>1. /\ at[k] \in {"subscribe", "publish"}
        /\ \E c \in Conns \cup {None} :
             /\ sending' = [sending EXCEPT ![k] = c]
             /\ at' = [at EXCEPT ![k] = IF c = None THEN "waiting" ELSE "publish"]
        /\ asked' = asked \/ asked' = asked \cup {k}
        /\ UNCHANGED <<vars, within, future, result, answers>>
    BY NoneAssumption DEF CallPublish, CallWait, Goes, ListenerInv, Typed, OneListener
  <1>2. ListenerInv' /\ Insides' /\ NoAnswerInside' /\ Kept'
    BY <1>1 DEF vars, net, loop, ListenerInv, Typed, OneListener, Begun, Alive, Insides,
                NoAnswerInside, Kept, Open, CallInv, RpcTypeOK
  <1>3. CallInv'
    <2>1. /\ at[k] # "done" /\ at'[k] \in {"publish", "waiting"}
          /\ at'[k] = "publish" <=> sending'[k] # None
          /\ \A l \in Calls : l # k => at'[l] = at[l] /\ sending'[l] = sending[l]
      BY <1>1 DEF CallInv, RpcTypeOK
    <2>2. /\ at' \in [Calls -> {"idle", "subscribe", "publish", "waiting", "done"}]
          /\ sending' \in [Calls -> Conns \cup {None}]
      BY <1>1 DEF CallInv, RpcTypeOK
    <2>3. \A l \in Calls :
            /\ at'[l] = "done" <=> result[l] # None
            /\ at'[l] \in {"subscribe", "publish"} <=> sending'[l] # None
      BY <2>1 DEF CallInv, RpcTypeOK
    <2>4. \A c \in Conns : Inside(c)' = Inside(c)
      BY <1>1, <2>1 DEF Inside, Open
    <2>5. \A l \in Calls :
            /\ at'[l] \in {"idle", "subscribe"} => future[l] = None /\ l \notin asked'
            /\ result[l] = "raised" => l \notin asked'
      BY <1>1, <2>1, ResultsAssumption DEF CallInv, RpcTypeOK
    <2>. QED
      BY <1>1, <2>2, <2>3, <2>4, <2>5 DEF CallInv, RpcTypeOK
  <1>4. Frames'
    BY <1>1 DEF Frames, vars, net
  <1>. QED
    BY <1>2, <1>3, <1>4

\* A call that its subscribe ends leaves what it has registered.
LEMMA LeaveKeeps ==
  ASSUME RpcInv, NEW k \in Calls, at[k] = "subscribe", End(k, "raised"),
         UNCHANGED <<vars, within, future, asked, answers>>
  PROVE  RpcInv'
  <1> USE DEF RpcInv
  <1>1. /\ at' = [at EXCEPT ![k] = "done"] /\ sending' = [sending EXCEPT ![k] = None]
        /\ result' = [result EXCEPT ![k] = "raised"]
        /\ UNCHANGED <<vars, within, future, asked, answers>>
    BY DEF End, Goes
  <1>2. ListenerInv' /\ Insides' /\ NoAnswerInside' /\ Kept'
    BY <1>1 DEF vars, net, loop, ListenerInv, Typed, OneListener, Begun, Alive, Insides,
                NoAnswerInside, Outcomes, Kept, Open, CallInv, RpcTypeOK
  <1>3. CallInv'
    BY <1>1, ResultsAssumption DEF CallInv, RpcTypeOK, Results, Inside, Open
  <1>4. Frames'
    BY <1>1 DEF Frames, vars, net
  <1>. QED
    BY <1>2, <1>3, <1>4

\* However a call ends once it is past its subscribe, it leaves nothing behind.
LEMMA FinallyKeeps ==
  ASSUME RpcInv, NEW k \in Calls, Open(k), NEW r \in Results \ {"raised"},
         within[k] # None => r \notin Outcomes, Finally(k, r), UNCHANGED asked
  PROVE  RpcInv'
  <1> USE NoneAssumption, CallsAssumption, ResultsAssumption DEF RpcInv, loop, net
  <1>1. /\ callbacks' = callbacks \ {k} /\ HubHolds(hubTopics[websocket] \ {k})
        /\ unsent' = unsent \ {k} /\ sending' = [sending EXCEPT ![k] = None]
        /\ at' = [at EXCEPT ![k] = "done"] /\ result' = [result EXCEPT ![k] = r]
        /\ UNCHANGED <<connected, websocket, listener, begin, maintain, link, inbound,
                       within, future, answers, asked>>
    BY DEF Finally, GiveBack, Unregister, Retract, End, Goes
  <1>2. r # None
    BY DEF Results, Outcomes
  <1>3. ListenerInv'
    BY <1>1 DEF ListenerInv, Typed, OneListener, Begun, HubHolds, Alive
  <1>4. CallInv'
    BY <1>1, <1>2 DEF CallInv, RpcTypeOK, Inside, Open
  <1>5. Insides' /\ Frames'
    BY <1>1 DEF Insides, Frames, Open, CallInv, RpcTypeOK
  <1>6. NoAnswerInside'
    BY <1>1 DEF NoAnswerInside, CallInv, RpcTypeOK
  <1>7. Kept'
    <2>1. websocket # None => websocket \in Conns
      BY DEF ListenerInv, Typed
    <2>2. \A l \in Calls : l # k => at'[l] = at[l] /\ result'[l] = result[l]
      BY <1>1 DEF CallInv, RpcTypeOK
    <2>3. at'[k] = "done"
      BY <1>1 DEF CallInv, RpcTypeOK
    <2>4. /\ websocket = None \/ link[websocket] # "up" => hubTopics' = hubTopics
          /\ websocket # None /\ link[websocket] = "up" =>
               hubTopics' = [hubTopics EXCEPT ![websocket] = @ \ {k}]
      BY <1>1, <2>1 DEF HubHolds
    <2>. QED
      BY <1>1, <2>1, <2>2, <2>3, <2>4 DEF Kept, Open, ListenerInv, Typed
  <1>. QED
    BY <1>3, <1>4, <1>5, <1>6, <1>7

\* The listener that reads the response is in no callback.
LEMMA ResponseKeeps == ASSUME RpcInv, NEW c \in Conns, ListenerResponse(c) PROVE RpcInv'
  <1> USE NoneAssumption DEF RpcInv, loop, net
  <1> DEFINE h == Head(inbound[websocket])
  <1>1. /\ listener[c] = "recv" /\ websocket \in Conns /\ inbound[websocket] # <<>>
        /\ h \in Calls /\ inbound' = [inbound EXCEPT ![websocket] = Tail(@)]
        /\ \/ UNCHANGED future
           \/ /\ h \in callbacks /\ future[h] = None
              /\ \E o \in Outcomes : future' = [future EXCEPT ![h] = o]
        /\ UNCHANGED <<callbacks, connected, websocket, listener, begin, maintain, unsent,
                       link, hubTopics, at, sending, within, result, asked, answers>>
    BY DEF ListenerResponse, Receive, ListenerInv, Typed, Pending
  <1>2. h \in asked
    <2>1. inbound[websocket] \in Seq(HubFrames)
          /\ 1 \in 1..Len(inbound[websocket]) /\ h = inbound[websocket][1]
      BY <1>1 DEF Frames
    <2>. QED
      BY <1>1, <2>1 DEF Frames
  <1> HIDE DEF h
  <1>3. ListenerInv' /\ Insides' /\ Kept'
    BY <1>1 DEF ListenerInv, Typed, OneListener, Begun, Alive, Insides, Kept, Open
  <1>4. CallInv'
    <2>1. future' \in [Calls -> Outcomes \cup {None}]
          /\ \A l \in Calls : l # h => future'[l] = future[l]
      <3>1. future \in [Calls -> Outcomes \cup {None}] /\ h \in Calls
        BY <1>1 DEF CallInv, RpcTypeOK
      <3>2. CASE UNCHANGED future
        BY <3>1, <3>2
      <3>3. ASSUME NEW o \in Outcomes, future' = [future EXCEPT ![h] = o]
            PROVE  /\ future' \in [Calls -> Outcomes \cup {None}]
                   /\ \A l \in Calls : l # h => future'[l] = future[l]
        BY <3>1, <3>3
      <3>. QED
        BY <1>1, <3>2, <3>3
    <2>2. at[h] \notin {"idle", "subscribe"}
      BY <1>1, <1>2 DEF CallInv
    <2>3. \A l \in Calls : at[l] \in {"idle", "subscribe"} => future'[l] = None
      BY <2>1, <2>2 DEF CallInv
    <2>4. \A l \in Conns : Inside(l)' = Inside(l)
      BY <1>1 DEF Inside, Open
    <2>. QED
      BY <1>1, <2>1, <2>3, <2>4 DEF CallInv, RpcTypeOK
  <1>5. Frames'
    BY <1>1 DEF Frames
  <1>6. NoAnswerInside'
    <2>1. SUFFICES ASSUME h \in callbacks, within[h] # None PROVE FALSE
      BY <1>1 DEF NoAnswerInside, CallInv, RpcTypeOK
    <2>2. Open(h)
      <3>1. at[h] \notin {"idle", "subscribe"} /\ result[h] # "raised"
        BY <1>1, <1>2 DEF CallInv
      <3>2. result[h] \in {None, "raised"}
        BY <1>1, <2>1 DEF Kept
      <3>3. /\ at[h] \in {"idle", "subscribe", "publish", "waiting", "done"}
            /\ at[h] = "done" <=> result[h] # None
        BY <1>1 DEF CallInv, RpcTypeOK
      <3>. QED
        BY <3>1, <3>2, <3>3 DEF Open
    <2>3. listener[within[h]] = "callback" /\ within[h] \in Conns
      BY <1>1, <2>1, <2>2 DEF Insides, CallInv, RpcTypeOK
    <2>4. c = websocket /\ within[h] = websocket
      BY <1>1, <2>3 DEF ListenerInv, OneListener, Alive
    <2>. QED
      BY <1>1, <2>3, <2>4
  <1>. QED
    BY <1>3, <1>4, <1>5, <1>6

LEMMA AnswerKeeps == ASSUME RpcInv, NEW k \in Calls, Answer(k) PROVE RpcInv'
  <1> USE DEF RpcInv, loop, net
  <1>1. /\ k \in asked /\ answers[k] < MaxAnswers
        /\ answers' = [answers EXCEPT ![k] = @ + 1]
        /\ HubSends(k, {c \in Conns : k \in hubTopics[c]})
        /\ UNCHANGED <<callbacks, connected, websocket, listener, begin, maintain, unsent,
                       link, hubTopics, at, sending, within, future, result, asked>>
    BY DEF Answer
  <1>2. ListenerInv' /\ Insides' /\ Kept' /\ NoAnswerInside'
    BY <1>1 DEF ListenerInv, Typed, OneListener, Begun, Alive, Insides, Kept, Open,
                NoAnswerInside
  <1>3. CallInv'
    BY <1>1, AnswersAssumption DEF CallInv, RpcTypeOK, Inside, Open
  <1>4. Frames'
    <2>1. \A c \in Conns : \/ inbound'[c] = inbound[c]
                           \/ inbound'[c] = Append(inbound[c], k)
      BY <1>1 DEF HubSends
    <2>2. inbound' \in [Conns -> Seq(HubFrames)]
      BY <1>1, CallsAssumption DEF HubSends, Frames, HubFrames
    <2>3. ASSUME NEW c \in Conns, NEW i \in 1..Len(inbound'[c]), inbound'[c][i] \in Calls
          PROVE  inbound'[c][i] \in asked /\ answers'[inbound'[c][i]] > 0
      <3>1. \A l \in Calls : /\ answers[l] \in Nat
                             /\ answers'[l] = IF l = k THEN answers[l] + 1 ELSE answers[l]
        <4>1. answers \in [Calls -> 0..MaxAnswers]
          BY DEF CallInv, RpcTypeOK
        <4>2. \A l \in Calls : answers[l] \in Nat
          BY <4>1, AnswersAssumption
        <4>3. answers' = [answers EXCEPT ![k] = answers[k] + 1]
          BY <1>1
        <4>. QED
          BY <4>1, <4>2, <4>3
      <3> DEFINE f == inbound'[c][i]
      <3>2. ASSUME f \in asked, answers[f] > 0 PROVE f \in asked /\ answers'[f] > 0
        <4> HIDE DEF f
        <4>1. f \in Calls
          BY <2>3 DEF f
        <4>. QED
          BY <3>1, <3>2, <4>1
      <3>3. CASE inbound'[c] = inbound[c]
        <4>1. f \in asked /\ answers[f] > 0
          BY <2>3, <3>3 DEF Frames
        <4>. QED
          BY <3>2, <4>1
      <3>4. CASE inbound'[c] = Append(inbound[c], k)
        <4>1. inbound[c] \in Seq(HubFrames)
          BY DEF Frames
        <4>2. CASE i \in 1..Len(inbound[c])
          <5>1. f \in asked /\ answers[f] > 0
            BY <2>3, <3>4, <4>1, <4>2 DEF Frames
          <5>. QED
            BY <3>2, <5>1
        <4>3. CASE i = Len(inbound[c]) + 1
          <5>1. inbound'[c][i] = k
            BY <1>1, <3>4, <4>1, <4>3
          <5>2. k \in asked /\ answers'[k] > 0
            BY <1>1, <3>1
          <5>. QED
            BY <5>1, <5>2
        <4>. QED
          BY <2>3, <3>4, <4>1, <4>2, <4>3
      <3>. QED
        BY <2>1, <3>3, <3>4
    <2>. QED
      BY <1>1, <2>2, <2>3 DEF Frames
  <1>. QED
    BY <1>2, <1>3, <1>4

LEMMA RpcStep == RpcInv /\ [RpcNext]_allVars => RpcInv'
  <1> SUFFICES ASSUME RpcInv, [RpcNext]_allVars PROVE RpcInv'
    OBVIOUS
  <1>1. ASSUME Alone(OwnStep) PROVE RpcInv'
    BY <1>1, OwnKeeps
  <1>2. ASSUME NEW k \in Calls, CallStep(k) \/ CallTimeout(k) PROVE RpcInv'
    <2>1. CASE CallPublish(k) \/ CallWait(k)
      BY <2>1, MoveKeeps
    <2>6. CASE CallSubscribeRaises(k)
      BY <2>6, LeaveKeeps DEF CallSubscribeRaises
    <2>2. CASE CallPublishRaises(k)
      BY <2>2, FinallyKeeps, ResultsAssumption DEF CallPublishRaises, Open, Results, Outcomes
    <2>3. CASE CallReturn(k)
      <3>1. future[k] \in Outcomes /\ within[k] = None /\ Open(k)
        BY <2>3 DEF CallReturn, Resolved, Open, RpcInv, CallInv, RpcTypeOK, NoAnswerInside
      <3>. QED
        BY <2>3, <3>1, FinallyKeeps, ResultsAssumption DEF CallReturn, Results, Outcomes
    <2>4. CASE CallTimeout(k)
      BY <2>4, FinallyKeeps, ResultsAssumption DEF CallTimeout, Open, Results, Outcomes
    <2>5. CASE CallCancelled(k)
      <3>1. CASE at[k] = "subscribe"
        BY <2>5, <3>1, LeaveKeeps DEF CallCancelled
      <3>2. CASE at[k] # "subscribe"
        BY <2>5, <3>2, FinallyKeeps, ResultsAssumption
        DEF CallCancelled, Cancelled, Results, Outcomes
      <3>. QED
        BY <3>1, <3>2
    <2>. QED
      BY <1>2, <2>1, <2>2, <2>3, <2>4, <2>5, <2>6 DEF CallStep
  <1>3. CASE UNCHANGED allVars
    BY <1>3 DEF allVars, vars, net, loop, rpcVars, RpcInv, ListenerInv, Typed, OneListener,
       Begun, Alive, CallInv, RpcTypeOK, Insides, Frames, Kept, NoAnswerInside, Inside, Open
  <1>. QED
    BY <1>1, <1>2, <1>3, CallKeeps, ResponseKeeps, AnswerKeeps DEF RpcNext, OwnStep, Alone

(***************************************************************************)
(* The calls as RemoteCalls.                                               *)
(***************************************************************************)
RemoteNext == [R!Next]_(R!vars)

LEMMA InitRemote == RpcInit => R!Init
  <1> SUFFICES ASSUME RpcInit PROVE R!Init
    OBVIOUS
  <1>1. \A k \in Calls : Stage(k) = "idle" /\ answers[k] = 0
    BY DEF RpcInit, Stage, Open
  <1>2. 1..0 = {}
    OBVIOUS
  <1>3. future = [k \in Calls |-> None] /\ result = [k \in Calls |-> None]
    BY DEF RpcInit
  <1>. QED
    BY <1>1, <1>2, <1>3 DEF R!Init

\* A step that touches none of what RemoteCall sees.
LEMMA RemoteStutter ==
  ASSUME \A k \in Calls : Stage(k)' = Stage(k), UNCHANGED <<answers, future, result>>
  PROVE  RemoteNext
  BY DEF RemoteNext, R!vars

\* A step of one call moves that call only.
LEMMA StageMoves ==
  ASSUME RpcTypeOK, NEW k \in Calls, NEW q, at' = [at EXCEPT ![k] = q]
  PROVE  /\ at'[k] = q
         /\ \A l \in Calls \ {k} : Stage(l)' = Stage(l)
         /\ [l \in Calls |-> Stage(l)]' = [[l \in Calls |-> Stage(l)] EXCEPT ![k] = Stage(k)']
  BY DEF RpcTypeOK, Stage, Open

\* How rpc_caller ends, with what its future carries or with a failure.
LEMMA RemoteEnd ==
  ASSUME RpcTypeOK, NEW k \in Calls, at[k] # "done", NEW r \in Results, End(k, r),
         UNCHANGED <<answers, future>>,
         \/ r = future[k] /\ future[k] # None
         \/ r \notin Outcomes
  PROVE  RemoteNext
  <1>1. at' = [at EXCEPT ![k] = "done"] /\ result' = [result EXCEPT ![k] = r]
    BY DEF End, Goes
  <1>2. Stage(k)' = "over" /\ Stage(k) # "over"
    BY <1>1, StageMoves DEF Stage, Open, RpcTypeOK
  <1>3. [l \in Calls |-> Stage(l)]' = [[l \in Calls |-> Stage(l)] EXCEPT ![k] = "over"]
    BY <1>1, <1>2, StageMoves
  <1>4. R!End(k, r)
    BY <1>1, <1>2, <1>3 DEF R!End
  <1>5. R!Return(k) \/ (r \in Results \ Outcomes /\ R!Fail(k, r))
    BY <1>4 DEF R!Return, R!Fail
  <1>. QED
    BY <1>5 DEF RemoteNext, R!Next

LEMMA RemoteBegin ==
  ASSUME RpcInv, NEW k \in Calls, NEW w \in Conns \cup {None}, Call(k, w)
  PROVE  RemoteNext
  <1>0. RpcTypeOK
    BY DEF RpcInv, CallInv
  <1>1. at[k] = "idle" /\ UNCHANGED <<answers, future>>
    BY DEF Call
  <1>2. CASE End(k, "raised")
    BY <1>0, <1>1, <1>2, RemoteEnd DEF Results, Outcomes
  <1>3. CASE ~End(k, "raised")
    <2>1. at' = [at EXCEPT ![k] = "subscribe"] /\ UNCHANGED result
      BY <1>3 DEF Call, Subscribes, Goes
    <2>2. Stage(k) = "idle" /\ Stage(k)' = "waiting"
      BY <1>0, <1>1, <2>1, StageMoves DEF Stage, Open
    <2>3. R!Start(k)
      BY <1>0, <1>1, <2>1, <2>2, StageMoves DEF R!Start
    <2>. QED
      BY <2>3 DEF RemoteNext, R!Next
  <1>. QED
    BY <1>2, <1>3

LEMMA RemoteCaller ==
  ASSUME RpcInv, NEW k \in Calls, CallStep(k) \/ CallTimeout(k)
  PROVE  RemoteNext
  <1>0. RpcTypeOK
    BY DEF RpcInv, CallInv
  <1>1. at[k] # "done" /\ UNCHANGED <<answers, future>>
    BY DEF CallStep, CallSubscribeRaises, CallPublish, CallPublishRaises, CallWait,
           CallReturn, CallTimeout, CallCancelled, Cancelled, Open, Finally
  <1>2. CASE CallPublish(k) \/ CallWait(k)
    <2>1. /\ at[k] \in {"subscribe", "publish"} /\ UNCHANGED result
          /\ \E q \in {"publish", "waiting"} : at' = [at EXCEPT ![k] = q]
      BY <1>2 DEF CallPublish, CallWait, Goes
    <2>2. \A l \in Calls : Stage(l)' = Stage(l)
      BY <1>0, <2>1, StageMoves DEF Stage, Open
    <2>. QED
      BY <1>1, <2>1, <2>2, RemoteStutter
  <1>3. CASE CallReturn(k)
    <2>1. End(k, future[k]) /\ future[k] # None
      BY <1>3 DEF CallReturn, Resolved, Finally
    <2>2. future[k] \in Results
      BY <1>0, <2>1 DEF RpcTypeOK, Results
    <2>. QED
      BY <1>0, <1>1, <2>1, <2>2, RemoteEnd
  <1>4. CASE \/ CallSubscribeRaises(k) \/ CallPublishRaises(k)
             \/ CallTimeout(k) \/ CallCancelled(k)
    <2>1. \E r \in {"raised", "failed", "timeout", "cancelled"} : End(k, r)
      BY <1>4 DEF CallSubscribeRaises, CallPublishRaises, CallTimeout, CallCancelled, Finally
    <2>. QED
      BY <1>0, <1>1, <2>1, RemoteEnd DEF Results, Outcomes
  <1>. QED
    BY <1>2, <1>3, <1>4 DEF CallStep

\* What a response does: nothing, or it is the first that comes while the call waits.
LEMMA ResponseTaken ==
  ASSUME RpcInv, NEW c \in Conns, ListenerResponse(c)
  PROVE  /\ UNCHANGED <<at, answers, result>>
         /\ \/ UNCHANGED future
            \/ \E k \in Calls, o \in Outcomes :
                 /\ at[k] \in {"publish", "waiting"} /\ future[k] = None /\ answers[k] > 0
                 /\ future' = [future EXCEPT ![k] = o]
  <1> DEFINE h == Head(inbound[websocket])
  <1>1. /\ UNCHANGED <<at, answers, result>>
        /\ h \in Calls /\ inbound[websocket] # <<>> /\ websocket \in Conns
        /\ \/ UNCHANGED future
           \/ /\ h \in callbacks /\ future[h] = None
              /\ \E o \in Outcomes : future' = [future EXCEPT ![h] = o]
    BY DEF ListenerResponse, Receive, Pending, RpcInv, ListenerInv, Typed
  <1>2. h \in asked /\ answers[h] > 0
    <2>1. inbound[websocket] \in Seq(HubFrames)
          /\ 1 \in 1..Len(inbound[websocket]) /\ h = inbound[websocket][1]
      BY <1>1 DEF RpcInv, Frames
    <2>. QED
      BY <1>1, <2>1 DEF RpcInv, Frames
  <1> HIDE DEF h
  <1>3. h \in callbacks => at[h] \in {"publish", "waiting"}
    <2>1. at[h] \notin {"idle", "subscribe"} /\ result[h] # "raised"
      BY <1>1, <1>2 DEF RpcInv, CallInv
    <2>2. h \in callbacks => result[h] \in {None, "raised"}
      BY <1>1 DEF RpcInv, Kept
    <2>3. /\ at[h] \in {"idle", "subscribe", "publish", "waiting", "done"}
          /\ at[h] = "done" <=> result[h] # None
      BY <1>1 DEF RpcInv, CallInv, RpcTypeOK
    <2>. QED
      BY <2>1, <2>2, <2>3
  <1>. QED
    BY <1>1, <1>2, <1>3

LEMMA RemoteResponse ==
  ASSUME RpcInv, NEW c \in Conns, ListenerResponse(c)
  PROVE  RemoteNext
  <1>1. UNCHANGED <<at, answers, result>> /\ \A l \in Calls : Stage(l)' = Stage(l)
    BY ResponseTaken DEF Stage, Open
  <1>2. CASE UNCHANGED future
    BY <1>1, <1>2, RemoteStutter
  <1>3. CASE ~UNCHANGED future
    <2>1. PICK k \in Calls, o \in Outcomes :
            /\ at[k] \in {"publish", "waiting"} /\ future[k] = None /\ answers[k] > 0
            /\ future' = [future EXCEPT ![k] = o]
      BY <1>3, ResponseTaken
    <2>2. answers[k] \in Nat
      BY AnswersAssumption DEF RpcInv, CallInv, RpcTypeOK
    <2>3. 1..answers[k] # {} /\ Stage(k) = "waiting"
      BY <2>1, <2>2 DEF Stage, Open
    <2>4. R!Take(k, o)
      BY <1>1, <2>1, <2>3 DEF R!Take
    <2>. QED
      BY <2>4 DEF RemoteNext, R!Next
  <1>. QED
    BY <1>2, <1>3

LEMMA RemoteAnswer == ASSUME RpcInv, NEW k \in Calls, Answer(k) PROVE RemoteNext
  <1> DEFINE s == answers[k] + 1
  <1>1. /\ k \in asked /\ answers[k] < MaxAnswers
        /\ answers' = [answers EXCEPT ![k] = s]
        /\ UNCHANGED <<at, future, result>>
    BY DEF Answer
  <1>2. /\ RpcTypeOK /\ at[k] # "idle"
        /\ \A l \in Calls : answers[l] \in Nat
    BY <1>1, AnswersAssumption DEF RpcInv, CallInv, RpcTypeOK
  <1>3. s \in 1..MaxAnswers /\ s \notin 1..answers[k] /\ 1..s = 1..answers[k] \cup {s}
    BY <1>1, <1>2, AnswersAssumption
  <1>4. \A l \in Calls : answers'[l] = IF l = k THEN s ELSE answers[l]
    BY <1>1, <1>2 DEF RpcTypeOK
  <1> HIDE DEF s
  <1>5. [l \in Calls |-> 1..answers[l]]' =
          [[l \in Calls |-> 1..answers[l]] EXCEPT ![k] = @ \cup {s}]
    BY <1>3, <1>4
  <1>6. Stage(k) # "idle" /\ UNCHANGED [l \in Calls |-> Stage(l)]
    BY <1>1, <1>2 DEF Stage, Open
  <1>7. R!Run(s, k)
    BY <1>1, <1>3, <1>5, <1>6 DEF R!Run
  <1>. QED
    BY <1>3, <1>7 DEF RemoteNext, R!Next

LEMMA RemoteStep == RpcInv /\ [RpcNext]_allVars => RemoteNext
  <1> SUFFICES ASSUME RpcInv, [RpcNext]_allVars PROVE RemoteNext
    OBVIOUS
  <1>1. CASE UNCHANGED rpcVars
    <2>1. \A l \in Calls : Stage(l)' = Stage(l)
      BY <1>1 DEF rpcVars, Stage, Open
    <2>. QED
      BY <1>1, <2>1, RemoteStutter DEF rpcVars
  <1>2. UNCHANGED allVars => UNCHANGED rpcVars
    BY DEF allVars
  <1>. QED
    BY <1>1, <1>2, RemoteBegin, RemoteCaller, RemoteResponse, RemoteAnswer
    DEF RpcNext, Alone

(***************************************************************************)
(* The theorems.                                                           *)
(***************************************************************************)

\* Every variable of the calls keeps its type, a call is done when it has a result,
\* and a callback makes one call at a time.
THEOREM RpcTypeCorrect == RpcSpec => []RpcTypeOK
  <1>1. RpcInv => RpcTypeOK
    BY DEF RpcInv, CallInv
  <1>. QED
    BY <1>1, InitRpc, RpcStep, PTL DEF RpcSpec

\* However many calls, servers and connections: a call made inside a callback gets no
\* answer, since one listener is alive and it awaits the callback.
THEOREM InsideNoAnswer == RpcSpec => []NoAnswerInside
  <1>1. RpcInv => NoAnswerInside
    BY DEF RpcInv
  <1>. QED
    BY <1>1, InitRpc, RpcStep, PTL DEF RpcSpec

\* A call under way can be answered on the connection in use, however it came up.
THEOREM ResponsesFindTheirCall == RpcSpec => []ResponseRoutable
  <1>1. RpcInv => ResponseRoutable
    BY NoneAssumption DEF RpcInv, Kept, ResponseRoutable, InUse, CallInv
  <1>. QED
    BY <1>1, InitRpc, RpcStep, PTL DEF RpcSpec

\* A call that its subscribe has not ended leaves neither callback nor topic, whether
\* it is answered, times out, fails or is cancelled.
THEOREM CallsCleanUp == RpcSpec => []CleanedUp
  <1>1. RpcInv => CleanedUp
    BY DEF RpcInv, Kept, CleanedUp
  <1>. QED
    BY <1>1, InitRpc, RpcStep, PTL DEF RpcSpec

\* The first answer a call takes is the one it keeps and returns.
THEOREM FirstAnswerKept == RpcSpec => FirstAnswerStands
  <1> DEFINE Stands(k) ==
        /\ future'[k] # future[k] => future[k] = None /\ at[k] \in {"publish", "waiting"}
        /\ result'[k] # result[k] /\ result'[k] \in Outcomes => result'[k] = future[k]
  <1>1. ASSUME RpcInv, [RpcNext]_allVars, NEW k \in Calls PROVE Stands(k)
    <2> USE <1>1, ResultsAssumption DEF RpcInv, CallInv, RpcTypeOK, Outcomes
    <2>1. CASE Alone(OwnStep)
      BY <2>1 DEF Alone, rpcVars
    <2>2. ASSUME NEW l \in Calls, NEW w \in Conns \cup {None}, Call(l, w) PROVE Stands(k)
      BY <2>2 DEF Call, Subscribes, End, Goes
    <2>3. ASSUME NEW l \in Calls, CallStep(l) \/ CallTimeout(l) PROVE Stands(k)
      BY <2>3 DEF CallStep, CallTimeout, CallSubscribeRaises, CallPublish,
                  CallPublishRaises, CallWait, CallReturn, CallCancelled, Finally, End
    <2>4. ASSUME NEW l \in Calls, Answer(l) PROVE Stands(k)
      BY <2>4 DEF Answer
    <2>5. ASSUME NEW c \in Conns, ListenerResponse(c) PROVE Stands(k)
      <3>1. UNCHANGED result
            /\ \/ UNCHANGED future
               \/ \E l \in Calls, o \in Outcomes :
                    /\ at[l] \in {"publish", "waiting"} /\ future[l] = None
                    /\ future' = [future EXCEPT ![l] = o]
        BY <2>5, ResponseTaken
      <3>. QED
        BY <3>1
    <2>6. CASE UNCHANGED allVars
      BY <2>6 DEF allVars, rpcVars
    <2>. QED
      BY <2>1, <2>2, <2>3, <2>4, <2>5, <2>6 DEF RpcNext, OwnStep, Alone
  <1>2. RpcInv /\ [RpcNext]_allVars => [\A k \in Calls : Stands(k)]_allVars
    BY <1>1
  <1>. QED
    BY <1>2, InitRpc, RpcStep, PTL DEF RpcSpec, FirstAnswerStands

\* With calls too, a live connection is given up by the loop over the callbacks that
\* finds them changed, a call's among them, and by the listener that reads a frame that
\* does not decode: no response, timeout or cancelled call does it.
THEOREM CallsAbandonNothing == RpcSpec => AbandonsForCause
  <1>1. RpcInv /\ [RpcNext]_allVars => [Abandons]_vars
    <2> SUFFICES ASSUME RpcInv, [RpcNext]_allVars PROVE Abandons \/ UNCHANGED vars
      OBVIOUS
    <2>1. CASE Alone(OwnStep)
      BY <2>1, OwnIsNext, AbandonStep DEF Alone, RpcInv, Frames, Framed
    <2>2. ASSUME UNCHANGED websocket PROVE Abandons
      BY <2>2 DEF Abandons
    <2>3. ASSUME NEW k \in Calls, NEW w \in Conns \cup {None}, Call(k, w) PROVE Abandons
      BY <2>2, <2>3 DEF Call
    <2>4. ASSUME NEW k \in Calls, CallStep(k) \/ CallTimeout(k) \/ Answer(k)
          PROVE  Abandons
      BY <2>2, <2>4 DEF CallStep, CallTimeout, CallSubscribeRaises, CallPublish,
                        CallPublishRaises, CallWait, CallReturn, CallCancelled, Finally,
                        Answer, vars
    <2>5. ASSUME NEW c \in Conns, ListenerResponse(c) PROVE Abandons
      BY <2>2, <2>5 DEF ListenerResponse
    <2>6. CASE UNCHANGED allVars
      BY <2>6 DEF allVars
    <2>. QED
      BY <2>1, <2>3, <2>4, <2>5, <2>6 DEF RpcNext, OwnStep, Alone
  <1>. QED
    BY <1>1, InitRpc, RpcStep, PTL DEF RpcSpec, AbandonsForCause, Abandons

\* Whatever is dropped, late, answered twice or made inside a callback: a call returns
\* the first answer it took, which a server has given to its request, or fails, and no
\* answer counts once it is over.
THEOREM ImplementsCalls == RpcSpec => ImplementsRemoteCall
  <1>. QED
    BY InitRpc, InitRemote, RpcStep, RemoteStep, PTL
    DEF RpcSpec, ImplementsRemoteCall, R!Spec, RemoteNext
=============================================================================
